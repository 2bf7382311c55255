--------------------------- MODULE MCRuntimeClose ---------------------------
(* Small instances of the files of a program and of the close.             *)
EXTENDS RuntimeClose

CONSTANTS Letter

AllModes == {"r", "w", "a", "r+", "w+", "a+"}
ShortWrites == {<<Letter>>, <<Letter, NewLine>>}
SomeFormats == {"line", "all"}

=============================================================================
