CONSTANTS
    Main = Main
    A = A
    B = B
    I = I
    None = None
    Classes = {Main, A, B, I}
    Names <- MCNames
    Programs <- MCPrograms
SPECIFICATION Spec
INVARIANT AbstractMethodsAreImplemented
CHECK_DEADLOCK FALSE
