------------------------------- MODULE S3Gateway -------------------------------
(***************************************************************************)
(* The S3 half of the proxy: one connection's calls, one after another, as *)
(* ProxyService (src/proxy/proxy-service.ts) and AwsS3Gateway              *)
(* (src/adapters/s3-gateway.ts) carry them out on a bucket that others     *)
(* write to as well, at any moment.  The caller may hang up and the link   *)
(* to the service may break at every await.  Who may call what is          *)
(* ProxyAccess' subject.  A byte stands for a chunk of the body.           *)
(***************************************************************************)
EXTENDS ObjectKeys, FiniteSets, SequencesExt

CONSTANTS
    Prefix,      \* prefixes a connection may be configured with, as stored
    Name,        \* keys a client may name, as sent
    MaxBytes,    \* S3_MAX_BYTES
    MaxSize      \* bound: the largest object

Size == 1 .. MaxSize

VARIABLES
    prefix,      \* the connection's prefix
    name,        \* the key the clients of this behaviour name
    bucket,      \* the objects; `mine` tells those uploaded here
    call         \* the call in progress, or the last one

s3 == <<prefix, name, bucket, call>>

-----------------------------------------------------------------------------

Base   == BasePrefix(prefix)
Target == ObjectKey(prefix, name)

(* what others write: the same object, one the base itself names, and one  *)
(* elsewhere in the bucket                                                 *)
OthersKeys == {Target, Base, <<"elsewhere">>} \ {<<>>}

Object == [key: Seq(STRING), bytes: Size, mine: BOOLEAN]

Ops == {"test", "list", "upload", "download", "remove"}

(* sent: bytes of a body that went through limitBytes; applied: history,   *)
(* did the service do it?                                                  *)
Transfer == [op: Ops, phase: {"asked", "moving", "ok", "failed"},
             size: 0 .. MaxSize, sent: 0 .. MaxSize, applied: BOOLEAN]

(* passed: the keys up to the continuation token; through, ever: history,  *)
(* the keys that were there all the time, and at some time                 *)
Listing == [op: {"list"}, phase: {"moving", "ok", "failed"}, below: Seq(STRING),
            objects: Seq([key: Seq(STRING), shown: Seq(STRING)]),
            passed: SUBSET OthersKeys, through: SUBSET OthersKeys,
            ever: SUBSET OthersKeys]

TypeOK ==
    /\ prefix \in Prefix
    /\ name \in Name
    /\ \A o \in bucket : o \in Object
    /\ \A o, q \in bucket : o.key = q.key => o = q
    /\ call \in Transfer \cup Listing

Init ==
    /\ prefix \in Prefix
    /\ name \in Name
    /\ bucket = {}
    /\ call = [op |-> "test", phase |-> "ok", size |-> 0, sent |-> 0, applied |-> FALSE]

-----------------------------------------------------------------------------

Keys == {o.key : o \in bucket}
At(k) == CHOOSE o \in bucket : o.key = k
Without(k) == {o \in bucket : o.key # k}

Done == call.phase \in {"ok", "failed"}
Ends(phase) == call' = [call EXCEPT !.phase = phase]

Asked(op, size) ==
    [op |-> op, phase |-> "asked", size |-> size, sent |-> 0, applied |-> FALSE]

Refused(op) == [Asked(op, 0) EXCEPT !.phase = "failed"]

(* authorizedS3's secret and the two keys, before the gateway is called *)
Usable(allowEmpty) == Acceptable(prefix, TRUE) /\ Acceptable(name, allowEmpty)

(* testConnection looks at neither key *)
Test ==
    /\ Done
    /\ call' = Asked("test", 0)
    /\ UNCHANGED <<prefix, name, bucket>>

(* a body declared too long is refused before anything is looked at *)
Upload(size, declared) ==
    /\ Done
    /\ call' = IF (declared /\ size > MaxBytes) \/ ~Usable(FALSE)
               THEN Refused("upload")
               ELSE [Asked("upload", size) EXCEPT !.phase = "moving"]
    /\ UNCHANGED <<prefix, name, bucket>>

Ask(op) ==
    /\ Done
    /\ call' = IF Usable(FALSE) THEN Asked(op, 0) ELSE Refused(op)
    /\ UNCHANGED <<prefix, name, bucket>>

-----------------------------------------------------------------------------
(* Bodies *)

TooLarge(bytes) == bytes > MaxBytes

(* limitBytes, on the way in and on the way out *)
Chunk ==
    /\ call.phase = "moving"
    /\ call.op \in {"upload", "download"}
    /\ call.sent < call.size
    /\ call' = [call EXCEPT !.sent = @ + 1,
                            !.phase = IF TooLarge(call.sent + 1) THEN "failed" ELSE @]
    /\ UNCHANGED <<prefix, name, bucket>>

(* faulty variant: the object is stored while its body still comes in *)
PutEarly(applied, answered) ==
    /\ call.phase = "moving" /\ call.op = "upload"
    /\ answered => applied
    /\ call' = [call EXCEPT !.applied = applied,
                            !.phase = IF answered THEN "ok" ELSE "failed"]
    /\ bucket' = IF applied
                 THEN Without(Target) \cup {[key |-> Target, bytes |-> call.sent, mine |-> TRUE]}
                 ELSE bucket
    /\ UNCHANGED <<prefix, name>>

(* PutObject stores a body only once it has all of it *)
Put(applied, answered) ==
    /\ call.phase = "moving" /\ call.op = "upload"
    /\ call.sent = call.size
    /\ answered => applied
    /\ call' = [call EXCEPT !.applied = applied,
                            !.phase = IF answered THEN "ok" ELSE "failed"]
    /\ bucket' = IF applied
                 THEN Without(Target) \cup {[key |-> Target, bytes |-> call.size, mine |-> TRUE]}
                 ELSE bucket
    /\ UNCHANGED <<prefix, name>>

(* GetObject: a length that is known is checked before the stream starts *)
Get(known) ==
    /\ call.phase = "asked" /\ call.op = "download"
    /\ Target \in Keys
    /\ call' = LET bytes == At(Target).bytes IN
               [call EXCEPT !.size = bytes,
                            !.phase = IF known /\ TooLarge(bytes) THEN "failed" ELSE "moving"]
    /\ UNCHANGED <<prefix, name, bucket>>

StreamEnds ==
    /\ call.phase = "moving" /\ call.op = "download"
    /\ call.sent = call.size
    /\ Ends("ok")
    /\ UNCHANGED <<prefix, name, bucket>>

Delete(applied, answered) ==
    /\ call.phase = "asked" /\ call.op = "remove"
    /\ answered => applied
    /\ call' = [call EXCEPT !.applied = applied,
                            !.phase = IF answered THEN "ok" ELSE "failed"]
    /\ bucket' = IF applied THEN Without(Target) ELSE bucket
    /\ UNCHANGED <<prefix, name>>

TestAnswered ==
    /\ call.phase = "asked" /\ call.op = "test"
    /\ Ends("ok")
    /\ UNCHANGED <<prefix, name, bucket>>

-----------------------------------------------------------------------------
(* Listings, of the base or of what is below the client's key *)

List(below) ==
    /\ Done
    /\ call' = IF Acceptable(prefix, TRUE) /\ Acceptable(below, TRUE)
               THEN [op |-> "list", phase |-> "moving", below |-> Normalize(below),
                     objects |-> <<>>, passed |-> {}, through |-> Keys, ever |-> Keys]
               ELSE Refused("list")
    /\ UNCHANGED <<prefix, name, bucket>>

Matches(k) == StartsWith(k, Base \o call.below)

(* listS3 keeps what starts with the base, and cuts that off *)
Kept(found) ==
    LET kept == SetToSeq({k \in found : StartsWith(k, Base)})
    IN  [i \in DOMAIN kept |-> [key |-> kept[i], shown |-> Shown(prefix, kept[i])]]

(* faulty variant: the first page is taken for all *)
PageOnly(reach) ==
    /\ call.op = "list" /\ call.phase = "moving"
    /\ call.passed \subseteq reach
    /\ call' = [call EXCEPT !.phase = "ok", !.passed = reach,
           !.objects = @ \o Kept({k \in Keys \cap (reach \ call.passed) : Matches(k)})]
    /\ UNCHANGED <<prefix, name, bucket>>

(* one ListObjectsV2: the keys up to the next token; truncated if there    *)
(* are more behind it                                                      *)
Page(reach) ==
    /\ call.op = "list" /\ call.phase = "moving"
    /\ call.passed \subseteq reach
    /\ LET more == \E k \in Keys \ reach : Matches(k) IN
       call' = [call EXCEPT !.phase = IF more THEN "moving" ELSE "ok", !.passed = reach,
           !.objects = @ \o Kept({k \in Keys \cap (reach \ call.passed) : Matches(k)})]
    /\ UNCHANGED <<prefix, name, bucket>>

-----------------------------------------------------------------------------

(* the caller hangs up, the link breaks, the service says no *)
Fail ==
    /\ ~Done
    /\ Ends("failed")
    /\ UNCHANGED <<prefix, name, bucket>>

OthersPut(k, bytes) ==
    /\ bucket' = Without(k) \cup {[key |-> k, bytes |-> bytes, mine |-> FALSE]}
    /\ call' = IF call.op = "list" /\ ~Done THEN [call EXCEPT !.ever = @ \cup {k}] ELSE call
    /\ UNCHANGED <<prefix, name>>

OthersDelete(k) ==
    /\ k \in Keys
    /\ bucket' = Without(k)
    /\ call' = IF call.op = "list" /\ ~Done THEN [call EXCEPT !.through = @ \ {k}] ELSE call
    /\ UNCHANGED <<prefix, name>>

Next ==
    \/ Test \/ TestAnswered
    \/ \E size \in Size, declared \in BOOLEAN : Upload(size, declared)
    \/ Ask("download") \/ Ask("remove")
    \/ Chunk \/ StreamEnds \/ Fail
    \/ \E applied, answered \in BOOLEAN : Put(applied, answered) \/ Delete(applied, answered)
    \/ \E known \in BOOLEAN : Get(known)
    \/ \E below \in {<<>>, name} : List(below)
    \/ \E reach \in SUBSET OthersKeys : Page(reach)
    \/ \E k \in OthersKeys, bytes \in Size : OthersPut(k, bytes)
    \/ \E k \in OthersKeys : OthersDelete(k)

Spec == Init /\ [][Next]_s3

-----------------------------------------------------------------------------

Served == call.phase # "failed" /\ call.op # "test"

(***************************************************************************)
(* No call leaves the connection's prefix: the object it names, or the     *)
(* prefix it lists, starts with the base, which is a whole path, and no    *)
(* segment of it leads up again, whatever blanks, slashes and backslashes  *)
(* the client and the administrator wrote.                                 *)
(***************************************************************************)
KeysStayInside ==
    Served => LET reached == IF call.op = "list" THEN Base \o call.below ELSE Target IN
        /\ StartsWith(reached, Base)
        /\ Base # <<>> => Base[Len(Base)] = Slash
        /\ ~HasParent(reached)
        /\ call.op # "list" => reached # Base
        /\ call.op = "list" => \A i \in DOMAIN call.objects :
                                   Base \o call.objects[i].shown = call.objects[i].key

(***************************************************************************)
(* A listing of many pages, on a bucket that changes between them, is      *)
(* complete and says nothing twice: it holds every matching object that    *)
(* was there all the time, and only such as were there at some time.       *)
(***************************************************************************)
ListingIsComplete ==
    call.op = "list" /\ call.phase = "ok" =>
        LET found == {call.objects[i].key : i \in DOMAIN call.objects} IN
        /\ {k \in call.through : Matches(k)} \subseteq found
        /\ found \subseteq {k \in call.ever : Matches(k)}
        /\ Len(call.objects) = Cardinality(found)

(***************************************************************************)
(* What a client uploaded here and finds in a listing it can open by the   *)
(* key the listing shows exactly when that does not begin with a blank:    *)
(* normalising a key that does is not idempotent.                          *)
(***************************************************************************)
ListedOpensItself ==
    call.op = "list" /\ call.phase # "failed" => \A i \in DOMAIN call.objects :
        LET o == call.objects[i] IN
        (\E q \in bucket : q.key = o.key /\ q.mine) =>
            (Acceptable(o.shown, FALSE) /\ ObjectKey(prefix, o.shown) = o.key
                <=> o.shown[1] # Blank)

(***************************************************************************)
(* A call that answers success did what it was asked: the whole body was   *)
(* stored or delivered, none above the limit, and a deletion was carried   *)
(* out.                                                                    *)
(***************************************************************************)
SuccessIsDurable ==
    call.phase = "ok" =>
        /\ call.op \in {"upload", "remove"} => call.applied
        /\ call.op \in {"upload", "download"} => call.sent = call.size /\ call.size <= MaxBytes

(***************************************************************************)
(* A call that failed has changed nothing, unless only its answer was      *)
(* lost: a body that broke off or grew too long is never stored in part.   *)
(***************************************************************************)
FailureIsClean ==
    call.phase = "failed" /\ call.op # "list" /\ call.applied =>
        /\ call.op \in {"upload", "remove"}
        /\ call.op = "upload" => call.sent = call.size /\ call.size <= MaxBytes

=============================================================================
