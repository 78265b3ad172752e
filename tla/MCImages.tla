------------------------------ MODULE MCImages ------------------------------
(* Images for TLC: the logos of headers, whose requests overlap, and the     *)
(* media library with one request at a time and no failure.  Each has its    *)
(* own rows, so one run checks each in its turn: the first state says which  *)
(* of them moves, and the other stands still.                                *)
EXTENDS HeaderLogo, MediaLibrary, TLC

VARIABLE part

imagesVars == <<part, logoVars, vars>>

ImagesInit == part \in {"logos", "media"} /\ LogoInit /\ Init

ImagesNext == /\ UNCHANGED part
              /\ \/ part = "logos" /\ LogoNext /\ UNCHANGED vars
                 \/ part = "media" /\ Next /\ UNCHANGED logoVars

ImagesSpec == ImagesInit /\ [][ImagesNext]_imagesVars

\* Headers, their rows and their requests are interchangeable.
Symmetry == Permutations(LogoId) \cup Permutations(LogoRequest) \cup Permutations(Header)
=============================================================================
