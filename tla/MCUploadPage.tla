----------------------------- MODULE MCUploadPage -----------------------------
EXTENDS UploadPage

CONSTANTS f1, f2, f3, d1, d2, g1, g2, c1, c2, n1

\* A photo and its raw file dropped on one gallery; the raw again, or another
\* photo, in a folder organized into a second gallery.
FromDrops == [f \in File |-> IF f = f3 THEN d2 ELSE d1]
Targets == [f \in File |-> IF f = f3 THEN g2 ELSE Shared]
Galleries == [d \in Drop |-> IF d = d1 THEN g1 ELSE g2]
RawTwice == [f \in File |-> IF f = f1 THEN c1 ELSE c2]
PhotoAndRaw == [f \in File |-> IF f = f1 THEN "photo" ELSE "raw"]
TwoPhotos == [f \in File |-> "photo"]
SameName == [f \in File |-> n1]
==============================================================================
