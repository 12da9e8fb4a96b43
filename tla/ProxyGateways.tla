---------------------------- MODULE ProxyGateways ----------------------------
(***************************************************************************)
(* A connection as the proxy uses it: ProxyService and testConnection      *)
(* (src/proxy/proxy-service.ts) look at the kind of the decrypted secret   *)
(* and hand the call to the one gateway or the other.  What a caller is    *)
(* promised does not depend on the kind.                                   *)
(***************************************************************************)
EXTENDS Naturals, Sequences

CONSTANTS Prefix, Name, MaxBytes, MaxSize      \* see S3Gateway

ASSUME BytesAssumption == MaxBytes \in Nat /\ MaxSize \in Nat
ASSUME KeysAssumption  == Prefix \subseteq Seq(STRING) /\ Name \subseteq Seq(STRING)

VARIABLES
    kind,                                      \* of the connection: "s3" or "sql"
    prefix, name, bucket, request,             \* S3Gateway's; request is its call
    call, pc, transaction, conn, hungUp, outcome, server, effect, committed
                                               \* SqlGateway's

s3vars  == <<prefix, name, bucket, request>>
sqlvars == <<call, pc, transaction, conn, hungUp, outcome, server, effect, committed>>

S3  == INSTANCE S3Gateway WITH call <- request
SQL == INSTANCE SqlGateway

(* secret.kind === "s3" *)
IsS3 == kind = "s3"

(* the gateway of the other kind is never called: one state of it will do *)
Init ==
    /\ kind \in {"s3", "sql"}
    /\ S3!Init
    /\ SQL!Init
    /\ IsS3 => call = [driver |-> "mysql", op |-> "test"]
    /\ ~IsS3 => prefix = (CHOOSE p \in Prefix : TRUE) /\ name = (CHOOSE n \in Name : TRUE)

Next ==
    \/ IsS3 /\ S3!Next /\ UNCHANGED <<kind, sqlvars>>
    \/ ~IsS3 /\ SQL!Next /\ UNCHANGED <<kind, s3vars>>

Spec == Init /\ [][Next]_<<kind, s3vars, sqlvars>>

-----------------------------------------------------------------------------

TypeOK == kind \in {"s3", "sql"} /\ S3!TypeOK /\ SQL!TypeOK

(***************************************************************************)
(* A call that answers success has done what it was asked for good: an     *)
(* exec is committed, also when the link broke or the caller hung up after *)
(* the COMMIT; an upload is stored and a download delivered whole and      *)
(* within the limit; a deletion is carried out.                            *)
(***************************************************************************)
SuccessIsDurable == IF IsS3 THEN S3!SuccessIsDurable ELSE SQL!SuccessIsDurable

(***************************************************************************)
(* A call that did not succeed has changed nothing, unless the answer of   *)
(* the service or of its COMMIT was lost, or its text committed by itself: *)
(* an SQL caller that hung up before the last check finds nothing changed, *)
(* and no body that broke off or grew too long is stored in part.          *)
(***************************************************************************)
FailureIsClean == IF IsS3 THEN S3!FailureIsClean ELSE SQL!FailureIsClean

(***************************************************************************)
(* When an SQL call is done, no connection is up and no transaction waits  *)
(* on one; the one connection left without its end() is a broken one whose *)
(* ROLLBACK failed.                                                        *)
(***************************************************************************)
NothingLeftOpen == SQL!NothingLeftOpen

(***************************************************************************)
(* No S3 call leaves the connection's prefix, whatever blanks, slashes,    *)
(* backslashes and dots the client and the administrator wrote (README:    *)
(* a client may not cross the connection's boundary).                      *)
(***************************************************************************)
KeysStayInside == S3!KeysStayInside

(***************************************************************************)
(* A listing of many pages, on a bucket that changes between them, misses  *)
(* nothing that was there all the time, shows nothing that never was, and  *)
(* nothing twice.                                                          *)
(***************************************************************************)
ListingIsComplete == S3!ListingIsComplete

(***************************************************************************)
(* What a client uploaded here and finds in a listing it can open by the   *)
(* key shown there exactly when that does not begin with a blank.          *)
(***************************************************************************)
ListedOpensItself == S3!ListedOpensItself

(***************************************************************************)
(* Not so, see SqlGateway: only exec changes a database; every connection  *)
(* that was opened is ended.                                               *)
(***************************************************************************)
QueriesOnlyRead     == SQL!QueriesOnlyRead
ConnectionsAreEnded == SQL!ConnectionsAreEnded

=============================================================================
