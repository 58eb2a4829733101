--------------------------- MODULE MCPatchCapture ---------------------------
(* Model-checking instance of PatchCapture. *)
EXTENDS PatchCapture, TLC

CONSTANTS top, sub, f, g, h

\* A file at the top, two in a subdirectory.
Places == (f :> top) @@ (g :> sub) @@ (h :> sub) @@ (sub :> top)

\* An empty file, a file of one chunk and one of three; the carrier fills a
\* chunk.  Of the captures with h, the one with all files has too many frames,
\* the one with g and h too many bytes, and the one with f and h fits.
Paths == (f :> 5) @@ (g :> 20) @@ (h :> 300)
Lengths == (f :> 0) @@ (g :> 1) @@ (h :> 65537)
InputLengths == [overlay |-> 40, carrier |-> 32768]
=============================================================================
