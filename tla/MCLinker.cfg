CONSTANTS
    Main = Main
    A = A
    B = B
    I = I
    None = None
    Classes = {Main, A, B, I}
    Names <- MCNames
    Programs <- MCPrograms
SPECIFICATION Spec
INVARIANTS TypeOK JavaScriptCallsJavaMethod WebAssemblyCallsJavaMethod ReferencesResolve
PROPERTIES ImplementsReferencedCode LinkingEnds
CHECK_DEADLOCK FALSE
