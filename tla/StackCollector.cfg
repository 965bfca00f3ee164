\* Every chain of up to three call frames out of eight sorts.  Two frames fit
\* the depth; the buffer is too small for some pairs, as 6400 is for 99 frames.
CONSTANTS
    a = a
    b = b
    c = c
    d = d
    Calls <- MCCalls
    MaxCalls = 3
    NameSize = 7
    PhpText = PhpText
    Texts = {a, b, c, d, PhpText}
    Lengths = {0, 3, 6}
    Lines = {7}
    MaxDepth = 2
    BufferSize = 16
    Nul = Nul
    NoFrame = NoFrame
SPECIFICATION Spec
INVARIANT TypeOK
INVARIANT TopOfStack
INVARIANT NothingLeftOut
