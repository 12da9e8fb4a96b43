------------------------------- MODULE ObjectKeys -------------------------------
(***************************************************************************)
(* From the key a client names to the key of an S3 object, and back: the   *)
(* pure part of src/proxy/proxy-service.ts.  A key is a sequence of        *)
(* tokens: a slash, a backslash, a blank, two dots, or anything else.  Two *)
(* dots are a path segment only between slashes or at an end.              *)
(***************************************************************************)
EXTENDS Naturals, Sequences

Slash     == "/"
Backslash == "\\"
Blank     == " "
Dots      == ".."

-----------------------------------------------------------------------------

(* how many tokens at the start, and at the end, are c *)
Leading(s, c) ==
    CHOOSE n \in 0 .. Len(s) :
        /\ \A i \in 1 .. n : s[i] = c
        /\ n < Len(s) => s[n + 1] # c

Trailing(s, c) ==
    CHOOSE n \in 0 .. Len(s) :
        /\ \A i \in Len(s) - n + 1 .. Len(s) : s[i] = c
        /\ n < Len(s) => s[Len(s) - n] # c

DropLeading(s, c)  == SubSeq(s, Leading(s, c) + 1, Len(s))
DropTrailing(s, c) == SubSeq(s, 1, Len(s) - Trailing(s, c))

Trim(s) == DropTrailing(DropLeading(s, Blank), Blank)

Slashes(s) == [i \in DOMAIN s |-> IF s[i] = Backslash THEN Slash ELSE s[i]]

(* split("/").includes("..") *)
HasParent(s) ==
    \E i \in DOMAIN s :
        /\ s[i] = Dots
        /\ i = 1 \/ s[i - 1] = Slash
        /\ i = Len(s) \/ s[i + 1] = Slash

StartsWith(s, prefix) ==
    Len(prefix) <= Len(s) /\ SubSeq(s, 1, Len(prefix)) = prefix

-----------------------------------------------------------------------------

(* normalizeRelativeKey: what it returns, and when it does not throw *)
Normalize(value) == DropLeading(Slashes(Trim(value)), Slash)

(* faulty variant: the segments are checked as they came *)
AcceptableAsSent(value, allowEmpty) ==
    /\ allowEmpty \/ Normalize(value) # <<>>
    /\ ~HasParent(value)

Acceptable(value, allowEmpty) ==
    /\ allowEmpty \/ Normalize(value) # <<>>
    /\ ~HasParent(Normalize(value))

(* basePrefix: nothing, or a path that ends in one slash *)
BasePrefix(prefix) ==
    LET path == DropTrailing(Normalize(prefix), Slash)
    IN  IF path = <<>> THEN <<>> ELSE Append(path, Slash)

ObjectKey(prefix, key) == BasePrefix(prefix) \o Normalize(key)

(* faulty variant: the base is left on *)
ShownWhole(prefix, objectKey) == objectKey

(* what a listing shows of an object's key *)
Shown(prefix, objectKey) ==
    SubSeq(objectKey, Len(BasePrefix(prefix)) + 1, Len(objectKey))

-----------------------------------------------------------------------------
(* What a normal key is, by its segments *)

(* where a split at the slashes cuts: at each slash, and at both ends *)
Cuts(s) == {0, Len(s) + 1} \cup {i \in DOMAIN s : s[i] = Slash}

(* what is between two neighbouring cuts *)
IsSegment(seg, s) ==
    \E i \in Cuts(s) : \E j \in Cuts(s) :
        /\ i < j
        /\ \A k \in Cuts(s) : k <= i \/ j <= k
        /\ seg = SubSeq(s, i + 1, j - 1)

(***************************************************************************)
(* normalizeRelativeKey against this definition: the test for ".." is a    *)
(* test of the segments; the result holds no backslash, begins with no     *)
(* slash and ends in no blank; and normalising it again changes it just    *)
(* where it begins with a blank.                                           *)
(***************************************************************************)
NormalizesWell(raw) ==
    LET key == Normalize(raw) IN
    /\ HasParent(key) <=> IsSegment(<<Dots>>, key)
    /\ \A i \in DOMAIN key : key[i] # Backslash
    /\ key # <<>> =>
          /\ key[1] # Slash /\ key[Len(key)] # Blank
          /\ Normalize(key) = key <=> key[1] # Blank

=============================================================================
