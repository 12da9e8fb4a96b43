------------------------------- MODULE BotUpdates -------------------------------
(***************************************************************************)
(* An administrator's commands about one account on their way through      *)
(* Telegram: /account_enable, /account_disable and /account_reset, from    *)
(* the queue Telegram keeps, through grammY's polling loop and             *)
(* BotController.handle (src/bot/controller.ts), to the two statements of  *)
(* AdminService.setAccountEnabled and resetPassword                        *)
(* (src/services/admin-service.ts) and back to an answer.                  *)
(*                                                                         *)
(* Telegram delivers an update again until a later getUpdates confirms it. *)
(* A process that dies loses what it was handling, and handles it anew     *)
(* after its start; one that is closed confirms it, done or not.           *)
(*                                                                         *)
(* The actions are put together with the process they run in by ServerBoot.*)
(***************************************************************************)
EXTENDS Naturals, Sequences, SequencesExt

CONSTANT MaxPending     \* bound: updates Telegram holds at once

VARIABLES
    http, bot, db,  \* RuntimeLifecycle's, only read here
    queue,          \* the updates Telegram still holds
    tried,          \* how many of them this process has taken
    handling,       \* what the handler awaits, for the last one it took
    enabled,        \* accounts: is the account enabled?
    live,           \* sessions: those not revoked, by the password they know
    told,           \* is the password the administrator saw last the account's?
    wanted,         \* history: the last of enable and disable that was sent
    doubt           \* history: a command is confirmed that nobody saw succeed

updates == <<queue, tried, handling, enabled, live, told, wanted, doubt>>
account == <<enabled, live, told>>

Command == {"enable", "disable", "reset"}

TypeOK ==
    /\ queue \in BoundedSeq(Command, MaxPending)
    /\ tried \in 0 .. Len(queue)
    /\ handling \in {"nothing", "scrypt", "reply to reset", "reply", "reply error"}
    /\ enabled \in BOOLEAN
    /\ live \in SUBSET {"current", "old"}
    /\ told \in BOOLEAN
    /\ wanted \in BOOLEAN
    /\ doubt \in BOOLEAN

Init ==
    /\ queue = <<>>
    /\ tried = 0
    /\ handling = "nothing"
    /\ enabled = TRUE
    /\ live = {}
    /\ told = TRUE
    /\ wanted = TRUE
    /\ doubt = FALSE

-----------------------------------------------------------------------------

Send(command) ==
    /\ Len(queue) < MaxPending
    /\ queue' = Append(queue, command)
    /\ wanted' = IF command = "reset" THEN wanted ELSE command = "enable"
    /\ UNCHANGED <<tried, handling, account, doubt>>

(* a login, in one step; nobody knows a password that was never shown *)
LogIn ==
    /\ http = "open"
    /\ enabled
    /\ told
    /\ live' = live \cup {"current"}
    /\ UNCHANGED <<queue, tried, handling, enabled, told, wanted, doubt>>

-----------------------------------------------------------------------------
(* The statements of the two services *)

(* faulty variant: a disable leaves the sessions *)
SetAccountEnabledAlone(on) ==
    /\ enabled' = on
    /\ UNCHANGED <<live, told>>

SetAccountEnabled(on) ==
    /\ enabled' = on
    /\ live' = IF on THEN live ELSE {}
    /\ UNCHANGED told

ResetPassword ==
    /\ live' = {}
    /\ told' = FALSE
    /\ UNCHANGED enabled

(* the process dies between the first statement of a service and the second *)
DisabledOnly ==
    /\ enabled' = FALSE
    /\ UNCHANGED <<live, told>>

PasswordOnly ==
    /\ live' = IF live = {} THEN {} ELSE {"old"}
    /\ told' = FALSE
    /\ UNCHANGED enabled

-----------------------------------------------------------------------------
(* The handler *)

CanTake  == bot = "polling" /\ handling = "nothing" /\ tried < Len(queue)
Upcoming == queue[tried + 1]

(* one update after the other; only a reset awaits something, the new hash *)
Take ==
    /\ CanTake
    /\ tried' = tried + 1
    /\ IF Upcoming = "reset"
       THEN handling' = "scrypt" /\ UNCHANGED account
       ELSE handling' = "reply" /\ SetAccountEnabled(Upcoming = "enable")
    /\ UNCHANGED <<queue, wanted, doubt>>

(* a database that was closed meanwhile: handle() answers with the error *)
Hashed ==
    /\ handling = "scrypt"
    /\ IF db = "open"
       THEN handling' = "reply to reset" /\ ResetPassword
       ELSE handling' = "reply error" /\ UNCHANGED account
    /\ UNCHANGED <<queue, tried, wanted, doubt>>

Answering == handling \notin {"nothing", "scrypt"}

Answered ==
    /\ Answering
    /\ handling' = "nothing"
    /\ told' = (told \/ handling = "reply to reset")
    /\ doubt' = IF handling = "reply to reset" THEN FALSE
                ELSE doubt \/ handling = "reply error"
    /\ UNCHANGED <<queue, tried, enabled, live, wanted>>

-----------------------------------------------------------------------------
(* Telegram and grammY *)

(* faulty variant: all that was fetched counts as taken *)
ConfirmedUnread == queue' = <<>> /\ tried' = 0

(* getUpdates with the offset behind what was taken *)
Confirmed == queue' = SubSeq(queue, tried + 1, Len(queue)) /\ tried' = 0

Confirm ==
    /\ bot = "polling"
    /\ handling = "nothing"
    /\ tried > 0
    /\ Confirmed
    /\ UNCHANGED <<handling, account, wanted, doubt>>

(* getUpdates fails; whether it has confirmed anything is not known *)
PollFails ==
    /\ handling = "nothing"
    /\ Confirmed \/ UNCHANGED <<queue, tried>>
    /\ UNCHANGED <<handling, account, wanted, doubt>>

(* the answer does not get through; a bot that polls ends, confirming *)
AnswerLost ==
    /\ Answering
    /\ handling' = "nothing"
    /\ doubt' = TRUE
    /\ \/ bot = "polling" /\ Confirmed
       \/ UNCHANGED <<queue, tried>>
    /\ UNCHANGED <<account, wanted>>

(* bot.stop(), which waits for no handler; `through` is its getUpdates *)
Stop(through) ==
    /\ IF bot = "polling" /\ through THEN Confirmed ELSE UNCHANGED <<queue, tried>>
    /\ UNCHANGED <<handling, account, wanted, doubt>>

(* what was taken and not confirmed comes again *)
Forget ==
    /\ handling' = "nothing"
    /\ tried' = 0
    /\ doubt' = (doubt \/ (handling # "nothing" /\ tried = 0))
    /\ \/ UNCHANGED account
       \/ CanTake /\ Upcoming = "disable" /\ DisabledOnly
       \/ handling = "scrypt" /\ db = "open" /\ PasswordOnly
    /\ UNCHANGED <<queue, wanted>>

-----------------------------------------------------------------------------

Pending(command) ==
    \/ \E i \in DOMAIN queue : queue[i] = command
    \/ command = "reset" /\ handling \in {"scrypt", "reply to reset", "reply error"}

(***************************************************************************)
(* What a dying process did by half is done again: a live session of an    *)
(* old password, a new password no administrator has seen, and a disabled  *)
(* account with live sessions are all the matter of a command that is      *)
(* still to be delivered - or of one no administrator saw succeed.         *)
(***************************************************************************)
HalfDoneIsRedelivered ==
    /\ "old" \in live \/ ~told => Pending("reset") \/ doubt
    /\ ~enabled /\ live # {} => Pending("disable")

(***************************************************************************)
(* Commands delivered again run again in their order, so the last one      *)
(* wins: once every update was taken, the account is enabled or disabled   *)
(* as the administrator last said, through crashes, failed polls and       *)
(* restarts.                                                               *)
(***************************************************************************)
LastCommandWins == tried = Len(queue) => enabled = wanted

=============================================================================
