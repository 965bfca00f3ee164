\* Buffers that fill up before, at and after the depth limit; a refused frame
\* may leave its function behind and a smaller frame may still fit.
CONSTANTS
    Texts = {a, b}
    Lengths = {0, 1, 2}
    Lines = {7}
    MaxDepth = 2
    BufferSize = 6
    Nul = Nul
    NoFrame = NoFrame
SPECIFICATION Spec
INVARIANT TypeOK
INVARIANT StringsTerminated
PROPERTY ImplementsFrameList
