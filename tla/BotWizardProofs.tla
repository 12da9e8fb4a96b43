---------------------------- MODULE BotWizardProofs ----------------------------
(***************************************************************************)
(* What the connection wizards promise, proved for every number of         *)
(* administrators and connections and every length of behaviour.           *)
(***************************************************************************)
EXTENDS BotWizard, TLAPS, SequenceTheorems

-----------------------------------------------------------------------------
(* What a wizard holds *)

(***************************************************************************)
(* The answers so far are those to the first prompts of the wizard's kind, *)
(* and an edit's kind is the connection's for as long as there is one: ids *)
(* are never used again.                                                   *)
(***************************************************************************)
InOrder(w) ==
    /\ Len(w.values) <= Len(StepsOf(w.kind))
    /\ \A i \in 1 .. Len(w.values) : w.values[i].field = StepsOf(w.kind)[i]

EditsItsKind(w) ==
    w.updateId # NoConnection =>
        \/ connections[w.updateId] = Deleted
        \/ Stored(w.updateId) /\ connections[w.updateId].kind = w.kind

WizardsSound ==
    \A a \in Admin : wizards[a].active => InOrder(wizards[a]) /\ EditsItsKind(wizards[a])

(* the prompt an administrator saw last is the one the next answer is for *)
PromptsMatch == \A a \in Admin : Expects(a) => asked[a] = Field(a)

WizardInv == TypeOK /\ WizardsSound /\ PromptsMatch /\ SecretsAreWhole

-----------------------------------------------------------------------------
(* The steps of a kind *)

LEMMA StepsAreFinite ==
  ASSUME NEW kind
  PROVE  Len(StepsOf(kind)) \in {6, 7} /\ DOMAIN StepsOf(kind) = 1 .. Len(StepsOf(kind))
<1>1. Len(s3Steps) = 7 /\ DOMAIN s3Steps = 1 .. 7
  BY DEF s3Steps
<1>2. Len(sqlSteps) = 6 /\ DOMAIN sqlSteps = 1 .. 6
  BY DEF sqlSteps
<1>3. StepsOf(kind) = s3Steps \/ StepsOf(kind) = sqlSteps
  BY DEF StepsOf
<1>. QED
  BY <1>1, <1>2, <1>3

LEMMA WizardFields ==
  ASSUME NEW w \in Wizards
  PROVE  /\ w.values \in Seq(Answers) /\ Len(w.values) \in Nat
         /\ DOMAIN w.values = 1 .. Len(w.values)
         /\ w.kind \in Kind /\ w.name \in Name \cup {NoName}
         /\ w.updateId \in Connection \cup {NoConnection}
BY DEF Wizards

LEMMA ActiveWizard ==
  ASSUME TypeOK, NEW a \in Admin, wizards[a].active
  PROVE  wizards[a] \in Wizards
BY DEF TypeOK, NoWizard

LEMMA StepsArePrompts ==
  ASSUME NEW kind, NEW i \in 1 .. Len(StepsOf(kind))
  PROVE  StepsOf(kind)[i] \in Prompts
<1>1. i \in DOMAIN StepsOf(kind)
  BY StepsAreFinite
<1>. QED
  BY <1>1 DEF StepsOf, Prompts, ToSet

LEMMA PromptIsPrompt ==
  ASSUME NEW w \in Wizards, InOrder(w)
  PROVE  wizardPrompt(w) \in Prompts
<1>1. CASE w.name = NoName \/ Complete(w)
  BY <1>1 DEF wizardPrompt, Prompts
<1>2. CASE w.name # NoName /\ ~Complete(w)
  <2>1. Len(w.values) \in Nat
    BY DEF Wizards
  <2>2. Len(w.values) + 1 \in 1 .. Len(StepsOf(w.kind))
    BY <1>2, <2>1, StepsAreFinite DEF InOrder, Complete
  <2>. QED
    BY <1>2, <2>2, StepsArePrompts DEF wizardPrompt
<1>. QED
  BY <1>1, <1>2

-----------------------------------------------------------------------------
(* A step that leaves one administrator with a wizard of a sound kind *)

LEMMA OneWizard ==
  ASSUME WizardInv, UNCHANGED connections, NEW a \in Admin,
         NEW w \in Wizards, InOrder(w), EditsItsKind(w),
         wizards' = [wizards EXCEPT ![a] = w],
         \/ asked' = [asked EXCEPT ![a] = wizardPrompt(w)]
         \/ UNCHANGED asked /\ Complete(w)
  PROVE  WizardInv'
<1>0. /\ wizards \in [Admin -> Wizards \cup {NoWizard}]
      /\ asked \in [Admin -> Prompts]
  BY DEF WizardInv, TypeOK
<1>1. /\ wizards'[a] = w
      /\ \A b \in Admin \ {a} : wizards'[b] = wizards[b]
      /\ wizards' \in [Admin -> Wizards \cup {NoWizard}]
  BY <1>0
<1>2. /\ wizardPrompt(w) \in Prompts
      /\ asked' \in [Admin -> Prompts]
      /\ \A b \in Admin \ {a} : asked'[b] = asked[b]
      /\ asked'[a] = wizardPrompt(w) \/ Complete(w)
  BY <1>0, PromptIsPrompt
<1>3. TypeOK' /\ SecretsAreWhole'
  BY <1>1, <1>2 DEF WizardInv, TypeOK, SecretsAreWhole, Stored
<1>4. WizardsSound'
  BY <1>1 DEF WizardInv, WizardsSound, EditsItsKind, Stored
<1>5. PromptsMatch'
  <2>. SUFFICES ASSUME NEW b \in Admin, Expects(b)' PROVE asked'[b] = Field(b)'
    BY DEF PromptsMatch
  <2>1. CASE b = a
    BY <1>1, <1>2, <2>1 DEF Expects, Field, wizardPrompt
  <2>2. CASE b # a
    BY <1>1, <1>2, <2>2 DEF WizardInv, PromptsMatch, Expects, Field
  <2>. QED
    BY <2>1, <2>2
<1>. QED
  BY <1>3, <1>4, <1>5 DEF WizardInv

(* wizards and prompts that end; the others stay as they are *)
LEMMA WizardsEnd ==
  ASSUME WizardInv, NEW Over \in SUBSET Admin,
         wizards' = [a \in Admin |-> IF a \in Over THEN NoWizard ELSE wizards[a]],
         asked' \in [Admin -> Prompts],
         \A a \in Admin \ Over : asked'[a] = asked[a]
  PROVE  /\ wizards' \in [Admin -> Wizards \cup {NoWizard}]
         /\ \A a \in Admin : wizards'[a].active =>
               InOrder(wizards'[a]) /\ EditsItsKind(wizards'[a]) /\ wizards'[a] = wizards[a]
         /\ PromptsMatch'
<1>0. wizards \in [Admin -> Wizards \cup {NoWizard}]
  BY DEF WizardInv, TypeOK
<1>1. \A a \in Admin : wizards'[a] = IF a \in Over THEN NoWizard ELSE wizards[a]
  OBVIOUS
<1>2. wizards' \in [Admin -> Wizards \cup {NoWizard}]
  BY <1>0
<1>3. ~NoWizard.active
  BY DEF NoWizard
<1>4. \A a \in Admin : wizards'[a].active => a \notin Over /\ wizards'[a] = wizards[a]
  BY <1>1, <1>3
<1>. QED
  BY <1>2, <1>4 DEF WizardInv, WizardsSound, PromptsMatch, Expects, Field

LEMMA WizardInit == Init => WizardInv
<1>. SUFFICES ASSUME Init PROVE WizardInv
  OBVIOUS
<1>1. \A a \in Admin : wizards[a] = NoWizard /\ ~wizards[a].active
  BY DEF Init, NoWizard
<1>2. TypeOK
  BY DEF Init, TypeOK, Prompts
<1>3. SecretsAreWhole
  BY DEF Init, SecretsAreWhole, Stored, Absent
<1>. QED
  BY <1>1, <1>2, <1>3 DEF WizardInv, WizardsSound, PromptsMatch, Expects

-----------------------------------------------------------------------------
(* The steps *)

LEMMA StartStep ==
  ASSUME WizardInv, NEW a \in Admin, NEW kind \in Kind, NEW name \in Name \cup {NoName},
         NEW updateId \in Connection \cup {NoConnection},
         Open(a, NewWizard(kind, name, updateId)), UNCHANGED connections,
         updateId # NoConnection => Stored(updateId) /\ connections[updateId].kind = kind
  PROVE  WizardInv'
<1>. DEFINE w == NewWizard(kind, name, updateId)
<1>1. <<>> \in Seq(Answers) /\ Len(<<>>) = 0
  BY EmptySeq
<1>2. /\ w \in Wizards /\ w.values = <<>>
      /\ w.kind = kind /\ w.updateId = updateId
  BY <1>1 DEF NewWizard, Wizards
<1>3. wizards' = [wizards EXCEPT ![a] = w] /\ asked' = [asked EXCEPT ![a] = wizardPrompt(w)]
  BY DEF Open
<1>. HIDE DEF w
<1>4. InOrder(w) /\ EditsItsKind(w)
  BY <1>1, <1>2, StepsAreFinite DEF InOrder, EditsItsKind
<1>. QED
  BY <1>2, <1>3, <1>4, OneWizard

LEMMA NameStep ==
  ASSUME WizardInv, NEW a \in Admin, NEW name \in Name, GiveName(a, name)
  PROVE  WizardInv'
<1>. DEFINE w == [wizards[a] EXCEPT !.name = name]
<1>1. wizards[a] \in Wizards /\ wizards[a].active /\ UNCHANGED connections
  BY DEF GiveName, WizardInv, TypeOK, NoWizard
<1>2. wizards' = [wizards EXCEPT ![a] = w] /\ asked' = [asked EXCEPT ![a] = wizardPrompt(w)]
  BY DEF GiveName, Open
<1>3. /\ w \in Wizards /\ w.values = wizards[a].values
      /\ w.kind = wizards[a].kind /\ w.updateId = wizards[a].updateId
  BY <1>1 DEF Wizards
<1>. HIDE DEF w
<1>4. InOrder(w) /\ EditsItsKind(w)
  BY <1>1, <1>3 DEF WizardInv, WizardsSound, InOrder, EditsItsKind
<1>. QED
  BY <1>1, <1>2, <1>3, <1>4, OneWizard

(***************************************************************************)
(* One more answer: it is the one to the prompt the wizard shows, and the  *)
(* wizard's kind, name and target stay.                                    *)
(***************************************************************************)
LEMMA AnswerInOrder ==
  ASSUME WizardInv, NEW a \in Admin, Expects(a), NEW valid \in BOOLEAN, NEW deleted \in BOOLEAN
  PROVE  /\ With(a, valid, deleted) \in Wizards
         /\ InOrder(With(a, valid, deleted)) /\ EditsItsKind(With(a, valid, deleted))
         /\ With(a, valid, deleted).kind = wizards[a].kind
         /\ With(a, valid, deleted).name = wizards[a].name
         /\ With(a, valid, deleted).updateId = wizards[a].updateId
<1>. DEFINE new == [field |-> asked[a], valid |-> valid, deleted |-> deleted]
            old == wizards[a].values
            more == Append(old, new)
            w == With(a, valid, deleted)
<1>1. /\ wizards[a] \in Wizards /\ wizards[a].active
      /\ asked[a] \in Prompts
  BY DEF Expects, WizardInv, TypeOK, NoWizard
<1>2. new \in Answers /\ new.field = Field(a)
  BY <1>1 DEF Answers, WizardInv, PromptsMatch
<1>3. old \in Seq(Answers) /\ Len(old) \in Nat
  BY <1>1, WizardFields
<1>. HIDE DEF new, old
<1>4. /\ more \in Seq(Answers) /\ Len(more) = Len(old) + 1
      /\ \A i \in 1 .. Len(old) : more[i] = old[i]
      /\ more[Len(old) + 1] = new
  BY <1>2, <1>3
<1>5. w = [wizards[a] EXCEPT !.values = more]
  BY DEF With, old, new
<1>. HIDE DEF w, more
<1>6. /\ w \in Wizards /\ w.values = more
      /\ w.kind = wizards[a].kind /\ w.name = wizards[a].name
      /\ w.updateId = wizards[a].updateId
  BY <1>1, <1>4, <1>5 DEF Wizards
<1>7. InOrder(w)
  <2>1. /\ Len(old) <= Len(StepsOf(w.kind)) /\ Len(old) # Len(StepsOf(w.kind))
        /\ \A i \in 1 .. Len(old) : old[i].field = StepsOf(w.kind)[i]
        /\ Field(a) = StepsOf(w.kind)[Len(old) + 1]
    BY <1>1, <1>6 DEF WizardInv, WizardsSound, InOrder, Expects, Complete, Field, old
  <2>2. Len(more) <= Len(StepsOf(w.kind))
    BY <1>3, <1>4, <2>1, StepsAreFinite
  <2>3. ASSUME NEW i \in 1 .. Len(more)
        PROVE  more[i].field = StepsOf(w.kind)[i]
    <3>1. i \in 1 .. Len(old) \/ i = Len(old) + 1
      BY <1>3, <1>4
    <3>. QED
      BY <1>2, <1>4, <2>1, <3>1
  <2>. QED
    BY <1>6, <2>2, <2>3 DEF InOrder
<1>8. EditsItsKind(w)
  BY <1>1, <1>6 DEF WizardInv, WizardsSound, EditsItsKind
<1>. QED
  BY <1>6, <1>7, <1>8 DEF w

LEMMA AnswerStep ==
  ASSUME WizardInv, NEW a \in Admin, NEW valid \in BOOLEAN, GiveAnswer(a, valid)
  PROVE  WizardInv'
<1>. DEFINE deleted == Field(a) \in Sensitive
            w == With(a, valid, deleted)
<1>1. deleted \in BOOLEAN
  OBVIOUS
<1>2. Expects(a) /\ UNCHANGED connections /\ Open(a, w)
  BY DEF GiveAnswer
<1>. HIDE DEF deleted
<1>3. w \in Wizards /\ InOrder(w) /\ EditsItsKind(w)
  BY <1>1, <1>2, AnswerInOrder
<1>. HIDE DEF w
<1>. QED
  BY <1>2, <1>3, OneWizard DEF Open

LEMMA FailStep ==
  ASSUME WizardInv, NEW a \in Admin, FailWizard(a)
  PROVE  WizardInv'
<1>. DEFINE w == With(a, TRUE, FALSE)
<1>1. /\ Expects(a) /\ Complete(w) /\ UNCHANGED <<asked, connections>>
      /\ wizards' = [wizards EXCEPT ![a] = w]
  BY DEF FailWizard
<1>2. w \in Wizards /\ InOrder(w) /\ EditsItsKind(w)
  BY <1>1, AnswerInOrder
<1>. HIDE DEF w
<1>. QED
  BY <1>1, <1>2, OneWizard

(***************************************************************************)
(* The last answer.  What is stored is one whole wizard; a connection that *)
(* was there keeps its kind, so the edits others have open stay sound.     *)
(***************************************************************************)
LEMMA FinishStep ==
  ASSUME WizardInv, NEW a \in Admin, NEW c \in Connection, FinishWizard(a, c)
  PROVE  /\ WizardInv'
         /\ connections[c] = Absent \/ (Stored(c) /\ connections'[c].kind = connections[c].kind)
         /\ \A d \in Connection \ {c} : connections'[d] = connections[d]
<1>. DEFINE deleted == Field(a) \in Sensitive
            w == With(a, TRUE, deleted)
            row == [state |-> "stored", kind |-> w.kind, name |-> w.name, secret |-> w.values]
<1>0. /\ wizards \in [Admin -> Wizards \cup {NoWizard}]
      /\ asked \in [Admin -> Prompts]
      /\ connections \in [Connection -> Rows \cup {Absent, Deleted}]
  BY DEF WizardInv, TypeOK
<1>1. deleted \in BOOLEAN
  OBVIOUS
<1>2. /\ Expects(a) /\ Complete(w) /\ Storable(w)
      /\ IF w.updateId = NoConnection THEN connections[c] = Absent ELSE c = w.updateId
      /\ connections' = [connections EXCEPT ![c] = row]
      /\ wizards' = [wizards EXCEPT ![a] = NoWizard]
      /\ asked' = [asked EXCEPT ![a] = "none"]
  BY DEF FinishWizard
<1>. HIDE DEF deleted
<1>3. /\ w \in Wizards /\ InOrder(w) /\ EditsItsKind(w)
      /\ w.name = wizards[a].name /\ w.name # NoName
  BY <1>1, <1>2, AnswerInOrder DEF Expects
<1>. HIDE DEF w
<1>4. /\ row \in Rows /\ row.state = "stored" /\ row.kind = w.kind /\ row.secret = w.values
  BY <1>3 DEF Rows, Wizards
<1>. HIDE DEF row
<1>5. /\ connections'[c] = row
      /\ \A d \in Connection \ {c} : connections'[d] = connections[d]
      /\ connections' \in [Connection -> Rows \cup {Absent, Deleted}]
  BY <1>0, <1>2, <1>4
<1>6. connections[c] = Absent \/ (Stored(c) /\ connections[c].kind = w.kind)
  <2>1. CASE w.updateId = NoConnection
    BY <1>2, <2>1
  <2>2. CASE w.updateId # NoConnection
    <3>1. c = w.updateId /\ Stored(c)
      BY <1>2, <2>2 DEF Storable
    <3>2. connections[c] # Deleted
      BY <3>1 DEF Stored, Deleted
    <3>. QED
      BY <1>3, <2>2, <3>1, <3>2 DEF EditsItsKind
  <2>. QED
    BY <2>1, <2>2
<1>7. /\ wizards' \in [Admin -> Wizards \cup {NoWizard}]
      /\ \A b \in Admin : wizards'[b].active => wizards'[b] = wizards[b]
  BY <1>0, <1>2 DEF NoWizard
<1>8. asked' \in [Admin -> Prompts] /\ \A b \in Admin \ {a} : asked'[b] = asked[b]
  BY <1>0, <1>2 DEF Prompts
<1>9. WizardsSound'
  <2>. SUFFICES ASSUME NEW b \in Admin, wizards'[b].active
                PROVE  InOrder(wizards'[b]) /\ EditsItsKind(wizards[b])'
    BY DEF WizardsSound, InOrder
  <2>1. wizards'[b] = wizards[b] /\ wizards[b].active
    BY <1>7
  <2>2. InOrder(wizards[b]) /\ EditsItsKind(wizards[b])
    BY <2>1 DEF WizardInv, WizardsSound
  <2>3. wizards[b].updateId \in Connection \cup {NoConnection}
    BY <2>1, ActiveWizard, WizardFields DEF WizardInv
  <2>4. CASE wizards[b].updateId = c
    <3>1. connections[c] # Absent /\ c # NoConnection
      BY <2>2, <2>4, NullsAssumption DEF EditsItsKind, Stored, Absent, Deleted
    <3>2. connections[c] # Deleted
      BY <1>6, <3>1 DEF Stored, Deleted
    <3>. QED
      BY <1>4, <1>5, <1>6, <2>1, <2>2, <2>4, <3>1, <3>2 DEF EditsItsKind, Stored
  <2>5. CASE wizards[b].updateId # c
    BY <1>5, <2>1, <2>2, <2>3, <2>5 DEF EditsItsKind, Stored
  <2>. QED
    BY <2>4, <2>5
<1>10. PromptsMatch'
  <2>1. \A b \in Admin : Expects(b)' => b # a /\ wizards'[b] = wizards[b]
    BY <1>0, <1>2, <1>7 DEF Expects, NoWizard
  <2>. QED
    BY <1>8, <2>1 DEF WizardInv, PromptsMatch, Expects, Field
<1>11. SecretsAreWhole'
  <2>. SUFFICES ASSUME NEW d \in Connection, Stored(d)'
                PROVE  /\ Len(connections'[d].secret) = Len(StepsOf(connections'[d].kind))
                       /\ \A i \in DOMAIN StepsOf(connections'[d].kind) :
                             /\ connections'[d].secret[i].field = StepsOf(connections'[d].kind)[i]
                             /\ connections'[d].secret[i].valid
    BY DEF SecretsAreWhole
  <2>1. CASE d # c
    BY <1>5, <2>1 DEF WizardInv, SecretsAreWhole, Stored
  <2>2. CASE d = c
    <3>1. /\ Len(w.values) = Len(StepsOf(w.kind))
          /\ DOMAIN w.values = 1 .. Len(w.values)
          /\ DOMAIN StepsOf(w.kind) = 1 .. Len(StepsOf(w.kind))
      BY <1>2, <1>3, StepsAreFinite DEF Complete, Wizards
    <3>2. \A i \in DOMAIN StepsOf(w.kind) :
              w.values[i].field = StepsOf(w.kind)[i] /\ w.values[i].valid
      BY <1>2, <1>3, <3>1 DEF InOrder, Storable
    <3>. QED
      BY <1>4, <1>5, <2>2, <3>1, <3>2
  <2>. QED
    BY <2>1, <2>2
<1>. QED
  BY <1>4, <1>5, <1>6, <1>7, <1>8, <1>9, <1>10, <1>11 DEF WizardInv, TypeOK

LEMMA EndingStep ==
  ASSUME WizardInv, Restart \/ \E a \in Admin : Cancel(a)
  PROVE  WizardInv'
<1>0. /\ wizards \in [Admin -> Wizards \cup {NoWizard}]
      /\ asked \in [Admin -> Prompts]
  BY DEF WizardInv, TypeOK
<1>1. UNCHANGED connections
  BY DEF Restart, Cancel
<1>2. PICK Over \in SUBSET Admin :
         /\ wizards' = [a \in Admin |-> IF a \in Over THEN NoWizard ELSE wizards[a]]
         /\ asked' \in [Admin -> Prompts]
         /\ \A a \in Admin \ Over : asked'[a] = asked[a]
  <2>1. CASE Restart
    <3>1. wizards' = [a \in Admin |-> IF a \in Admin THEN NoWizard ELSE wizards[a]]
      BY <2>1 DEF Restart
    <3>. QED
      BY <1>0, <2>1, <3>1 DEF Restart
  <2>2. ASSUME NEW b \in Admin, Cancel(b)
        PROVE  \E Over \in SUBSET Admin :
                 /\ wizards' = [a \in Admin |-> IF a \in Over THEN NoWizard ELSE wizards[a]]
                 /\ asked' \in [Admin -> Prompts]
                 /\ \A a \in Admin \ Over : asked'[a] = asked[a]
    <3>1. wizards' = [a \in Admin |-> IF a \in {b} THEN NoWizard ELSE wizards[a]]
      BY <1>0, <2>2 DEF Cancel
    <3>2. asked' \in [Admin -> Prompts] /\ \A a \in Admin \ {b} : asked'[a] = asked[a]
      BY <1>0, <2>2 DEF Cancel, Prompts
    <3>. WITNESS {b} \in SUBSET Admin
    <3>. QED
      BY <3>1, <3>2
  <2>. QED
    BY <2>1, <2>2
<1>3. /\ wizards' \in [Admin -> Wizards \cup {NoWizard}]
      /\ \A a \in Admin : wizards'[a].active =>
            InOrder(wizards'[a]) /\ EditsItsKind(wizards'[a]) /\ wizards'[a] = wizards[a]
      /\ PromptsMatch'
  BY <1>2, WizardsEnd
<1>4. WizardsSound'
  BY <1>1, <1>3 DEF WizardsSound, InOrder, EditsItsKind, Stored
<1>. QED
  BY <1>1, <1>2, <1>3, <1>4 DEF WizardInv, TypeOK, SecretsAreWhole, Stored

LEMMA DeleteStep ==
  ASSUME WizardInv, NEW c \in Connection, DeleteConnection(c)
  PROVE  WizardInv'
<1>1. connections \in [Connection -> Rows \cup {Absent, Deleted}]
  BY DEF WizardInv, TypeOK
<1>2. /\ connections' = [connections EXCEPT ![c] = Deleted]
      /\ UNCHANGED <<wizards, asked>>
  BY DEF DeleteConnection
<1>3. /\ connections'[c] = Deleted
      /\ \A d \in Connection \ {c} : connections'[d] = connections[d]
      /\ connections' \in [Connection -> Rows \cup {Absent, Deleted}]
  BY <1>1, <1>2
<1>4. WizardsSound'
  <2>1. \A a \in Admin : wizards[a].active =>
           wizards[a].updateId \in Connection \cup {NoConnection}
    BY ActiveWizard, WizardFields DEF WizardInv
  <2>. QED
    BY <1>2, <1>3, <2>1 DEF WizardInv, WizardsSound, InOrder, EditsItsKind, Stored
<1>5. SecretsAreWhole'
  <2>1. \A d \in Connection : Stored(d)' => Stored(d) /\ connections'[d] = connections[d]
    BY <1>3 DEF Stored, Deleted
  <2>. QED
    BY <2>1 DEF WizardInv, SecretsAreWhole
<1>. QED
  BY <1>2, <1>3, <1>4, <1>5 DEF WizardInv, TypeOK, PromptsMatch, Expects, Field

LEMMA WizardStep == WizardInv /\ [Next]_vars => WizardInv'
<1>. SUFFICES ASSUME WizardInv, [Next]_vars PROVE WizardInv'
  OBVIOUS
<1>1. ASSUME NEW a \in Admin, NEW kind \in Kind,
             \/ StartInlineWizard(a, kind)
             \/ \E name \in Name : StartWizard(a, kind, name)
      PROVE  WizardInv'
  BY <1>1, StartStep DEF StartInlineWizard, StartWizard
<1>2. ASSUME NEW a \in Admin, NEW name \in Name, NEW c \in Connection,
             EditConnection(a, c, name)
      PROVE  WizardInv'
  <2>1. Stored(c) /\ Open(a, NewWizard(connections[c].kind, name, c)) /\ UNCHANGED connections
    BY <1>2 DEF EditConnection
  <2>2. connections[c].kind \in Kind
    BY <2>1 DEF WizardInv, TypeOK, Rows, Absent, Deleted, Stored
  <2>. QED
    BY <2>1, <2>2, StartStep
<1>3. ASSUME NEW a \in Admin, NEW name \in Name, GiveName(a, name)
      PROVE  WizardInv'
  BY <1>3, NameStep
<1>4. ASSUME NEW a \in Admin, NEW valid \in BOOLEAN, GiveAnswer(a, valid)
      PROVE  WizardInv'
  BY <1>4, AnswerStep
<1>5. ASSUME NEW a \in Admin, NEW c \in Connection, FinishWizard(a, c)
      PROVE  WizardInv'
  BY <1>5, FinishStep
<1>6. ASSUME NEW a \in Admin, Cancel(a) \/ FailWizard(a)
      PROVE  WizardInv'
  BY <1>6, EndingStep, FailStep
<1>7. ASSUME NEW c \in Connection, DeleteConnection(c)
      PROVE  WizardInv'
  BY <1>7, DeleteStep
<1>8. CASE Restart
  BY <1>8, EndingStep
<1>9. CASE UNCHANGED vars
  BY <1>9 DEF vars, WizardInv, TypeOK, WizardsSound, InOrder, EditsItsKind, PromptsMatch,
              Expects, Field, SecretsAreWhole, Stored, Complete
<1>. QED
  BY <1>1, <1>2, <1>3, <1>4, <1>5, <1>6, <1>7, <1>8, <1>9 DEF Next

-----------------------------------------------------------------------------
(* What the wizards promise *)

(* the invariant behind all of them *)
LEMMA WizardsAreSound == Spec => []WizardInv
  BY WizardInit, WizardStep, PTL DEF Spec

(***************************************************************************)
(* Wizards, prompts and stored connections keep their types through every  *)
(* command, answer, edit and deletion of every administrator.              *)
(***************************************************************************)
THEOREM TypeCorrect == Spec => []TypeOK
<1>1. WizardInv => TypeOK
  BY DEF WizardInv
<1>. QED
  BY <1>1, WizardsAreSound, PTL

(***************************************************************************)
(* advanceWizard files an answer under the step the wizard has reached,    *)
(* whatever the administrator read: the prompt read last is the one for    *)
(* that step, through wizards that are replaced, cancelled or lost, and    *)
(* other administrators' commands.                                         *)
(***************************************************************************)
THEOREM AnswersMeetTheirPrompts == Spec => []PromptsMatch
<1>1. WizardInv => PromptsMatch
  BY DEF WizardInv
<1>. QED
  BY <1>1, WizardsAreSound, PTL

(***************************************************************************)
(* Whatever finishWizard stores is one complete wizard of the connection's *)
(* kind, each field an accepted answer to its own prompt, in order: no     *)
(* replaced, parallel or lost wizard mixes its answers into another's.     *)
(***************************************************************************)
THEOREM SecretsStayWhole == Spec => []SecretsAreWhole
<1>1. WizardInv => SecretsAreWhole
  BY DEF WizardInv
<1>. QED
  BY <1>1, WizardsAreSound, PTL

(***************************************************************************)
(* updateConnection never turns a connection into one of another kind,     *)
(* though it writes the kind it read when the edit began, and brings no    *)
(* deleted one back.                                                       *)
(***************************************************************************)
THEOREM KindsAreForLife == Spec => EditsKeepKind
<1>. DEFINE Kept == \A c \in Connection :
          /\ Stored(c) /\ connections'[c] # connections[c] =>
                \/ connections'[c] = Deleted
                \/ connections'[c].kind = connections[c].kind
          /\ connections[c] = Deleted => connections'[c] = Deleted
<1>1. ASSUME WizardInv, Next
      PROVE  Kept
  <2>0. connections \in [Connection -> Rows \cup {Absent, Deleted}]
    BY <1>1 DEF WizardInv, TypeOK
  <2>1. CASE UNCHANGED connections
    BY <2>1
  <2>2. ASSUME NEW a \in Admin, NEW c \in Connection, FinishWizard(a, c)
        PROVE  Kept
    <3>1. /\ connections[c] = Absent \/ (Stored(c) /\ connections'[c].kind = connections[c].kind)
          /\ \A d \in Connection \ {c} : connections'[d] = connections[d]
      BY <1>1, <2>2, FinishStep
    <3>2. Absent.state = "absent" /\ Deleted.state = "deleted"
      BY DEF Absent, Deleted
    <3>. QED
      BY <3>1, <3>2 DEF Stored
  <2>3. ASSUME NEW c \in Connection, DeleteConnection(c)
        PROVE  Kept
    BY <2>0, <2>3 DEF DeleteConnection
  <2>. QED
    BY <1>1, <2>1, <2>2, <2>3
       DEF Next, StartInlineWizard, StartWizard, GiveName, EditConnection, GiveAnswer,
           Cancel, FailWizard, Restart
<1>2. WizardInv /\ [Next]_vars => [Kept]_vars
  BY <1>1
<1>. QED
  BY <1>2, WizardsAreSound, PTL DEF Spec, EditsKeepKind

-----------------------------------------------------------------------------
(* What becomes of the credentials an administrator types *)

(***************************************************************************)
(* The message of every credential is deleted from the chat, but for one:  *)
(* the answer that completes a wizard whose connection cannot then be      *)
(* stored.  No connection was ever stored with a message left behind.      *)
(***************************************************************************)
KeptAnswersFailed ==
    /\ \A a \in Admin : wizards[a].active =>
          \A i \in 1 .. Len(wizards[a].values) :
              wizards[a].values[i].field \in Sensitive /\ ~wizards[a].values[i].deleted
                  => i = Len(StepsOf(wizards[a].kind))
    /\ \A c \in Connection : Stored(c) =>
          \A i \in 1 .. Len(connections[c].secret) :
              connections[c].secret[i].field \in Sensitive => connections[c].secret[i].deleted

(* one more answer is the one to the field that was asked for *)
LEMMA AnswerAdds ==
  ASSUME WizardInv, NEW a \in Admin, Expects(a), NEW valid \in BOOLEAN, NEW deleted \in BOOLEAN
  PROVE  LET w == With(a, valid, deleted) IN
         /\ Len(wizards[a].values) \in Nat
         /\ Len(w.values) = Len(wizards[a].values) + 1
         /\ \A i \in 1 .. Len(wizards[a].values) : w.values[i] = wizards[a].values[i]
         /\ w.values[Len(w.values)].field = Field(a)
         /\ w.values[Len(w.values)].deleted = deleted
         /\ w.kind = wizards[a].kind
<1>. DEFINE new == [field |-> asked[a], valid |-> valid, deleted |-> deleted]
            old == wizards[a].values
            more == Append(old, new)
<1>1. wizards[a] \in Wizards /\ asked[a] \in Prompts
  BY DEF Expects, WizardInv, TypeOK, NoWizard
<1>2. new \in Answers /\ new.field = Field(a) /\ new.deleted = deleted
  BY <1>1 DEF Answers, WizardInv, PromptsMatch
<1>3. old \in Seq(Answers) /\ Len(old) \in Nat
  BY <1>1, WizardFields
<1>4. With(a, valid, deleted) = [wizards[a] EXCEPT !.values = more]
  BY DEF With
<1>. HIDE DEF new, old
<1>5. /\ Len(more) = Len(old) + 1
      /\ \A i \in 1 .. Len(old) : more[i] = old[i]
      /\ more[Len(old) + 1] = new
  BY <1>2, <1>3
<1>. HIDE DEF more
<1>6. With(a, valid, deleted).values = more /\ With(a, valid, deleted).kind = wizards[a].kind
  BY <1>1, <1>4 DEF Wizards
<1>. QED
  BY <1>2, <1>3, <1>5, <1>6 DEF old

(* what is answered in a wizard that is not complete was deleted *)
LEMMA SoFarDeleted ==
  ASSUME WizardInv, KeptAnswersFailed, NEW a \in Admin, Expects(a)
  PROVE  \A i \in 1 .. Len(wizards[a].values) :
             wizards[a].values[i].field \in Sensitive => wizards[a].values[i].deleted
<1>1. wizards[a] \in Wizards /\ wizards[a].active
  BY DEF Expects, WizardInv, TypeOK, NoWizard
<1>2. /\ Len(wizards[a].values) <= Len(StepsOf(wizards[a].kind))
      /\ Len(wizards[a].values) # Len(StepsOf(wizards[a].kind))
  BY <1>1 DEF WizardInv, WizardsSound, InOrder, Expects, Complete
<1>3. Len(wizards[a].values) \in Nat /\ Len(StepsOf(wizards[a].kind)) \in Nat
  BY <1>1, WizardFields, StepsAreFinite
<1>4. \A i \in 1 .. Len(wizards[a].values) : i # Len(StepsOf(wizards[a].kind))
  BY <1>2, <1>3
<1>. QED
  BY <1>1, <1>4 DEF KeptAnswersFailed

LEMMA AnswerKept ==
  ASSUME WizardInv, KeptAnswersFailed, NEW a \in Admin, NEW valid \in BOOLEAN,
         GiveAnswer(a, valid) \/ FailWizard(a)
  PROVE  KeptAnswersFailed'
<1>0. wizards \in [Admin -> Wizards \cup {NoWizard}]
  BY DEF WizardInv, TypeOK
<1>1. Expects(a) /\ UNCHANGED connections
  BY DEF GiveAnswer, FailWizard
<1>2. PICK w :
          /\ wizards' = [wizards EXCEPT ![a] = w]
          /\ \E v, d \in BOOLEAN :
                w = With(a, v, d) /\ ((Field(a) \in Sensitive => d) \/ Complete(w))
  <2>1. CASE GiveAnswer(a, valid)
    <3>1. (Field(a) \in Sensitive) \in BOOLEAN
      OBVIOUS
    <3>. QED
      BY <2>1, <3>1 DEF GiveAnswer, Open
  <2>2. CASE FailWizard(a)
    BY <2>2 DEF FailWizard
  <2>. QED
    BY <2>1, <2>2
<1>3. PICK v \in BOOLEAN, d \in BOOLEAN :
          w = With(a, v, d) /\ ((Field(a) \in Sensitive => d) \/ Complete(w))
  BY <1>2
<1>4. /\ Len(wizards[a].values) \in Nat
      /\ Len(w.values) = Len(wizards[a].values) + 1
      /\ \A i \in 1 .. Len(wizards[a].values) : w.values[i] = wizards[a].values[i]
      /\ w.values[Len(w.values)].field = Field(a)
      /\ w.values[Len(w.values)].deleted = d
      /\ w.kind = wizards[a].kind
  BY <1>1, <1>3, AnswerAdds
<1>5. ASSUME NEW i \in 1 .. Len(w.values), w.values[i].field \in Sensitive, ~w.values[i].deleted
      PROVE  i = Len(StepsOf(w.kind))
  <2>1. i \in 1 .. Len(wizards[a].values) \/ i = Len(w.values)
    BY <1>4
  <2>2. i \notin 1 .. Len(wizards[a].values)
    BY <1>1, <1>4, <1>5, SoFarDeleted
  <2>3. Complete(w)
    BY <1>3, <1>4, <1>5, <2>1, <2>2
  <2>. QED
    BY <2>1, <2>2, <2>3 DEF Complete
<1>6. wizards'[a] = w /\ \A b \in Admin \ {a} : wizards'[b] = wizards[b]
  BY <1>0, <1>2
<1>. QED
  BY <1>1, <1>5, <1>6 DEF KeptAnswersFailed, Stored

LEMMA FinishKept ==
  ASSUME WizardInv, KeptAnswersFailed, NEW a \in Admin, NEW c \in Connection, FinishWizard(a, c)
  PROVE  KeptAnswersFailed'
<1>. DEFINE deleted == Field(a) \in Sensitive
            w == With(a, TRUE, deleted)
            row == [state |-> "stored", kind |-> w.kind, name |-> w.name, secret |-> w.values]
<1>0. /\ wizards \in [Admin -> Wizards \cup {NoWizard}]
      /\ connections \in [Connection -> Rows \cup {Absent, Deleted}]
  BY DEF WizardInv, TypeOK
<1>1. /\ Expects(a) /\ deleted \in BOOLEAN
      /\ connections' = [connections EXCEPT ![c] = row]
      /\ wizards' = [wizards EXCEPT ![a] = NoWizard]
  BY DEF FinishWizard
<1>2. /\ Len(wizards[a].values) \in Nat
      /\ Len(w.values) = Len(wizards[a].values) + 1
      /\ \A i \in 1 .. Len(wizards[a].values) : w.values[i] = wizards[a].values[i]
      /\ w.values[Len(w.values)].field = Field(a)
      /\ w.values[Len(w.values)].deleted = deleted
  <2>. HIDE DEF deleted
  <2>. QED
    BY <1>1, AnswerAdds
<1>3. row.secret = w.values
  OBVIOUS
<1>. HIDE DEF row, w
<1>4. \A i \in 1 .. Len(w.values) : w.values[i].field \in Sensitive => w.values[i].deleted
  <2>. SUFFICES ASSUME NEW i \in 1 .. Len(w.values), w.values[i].field \in Sensitive
                PROVE  w.values[i].deleted
    OBVIOUS
  <2>1. CASE i = Len(w.values)
    BY <1>2, <2>1
  <2>2. CASE i # Len(w.values)
    <3>1. i \in 1 .. Len(wizards[a].values)
      BY <1>2, <2>2
    <3>. QED
      BY <1>1, <1>2, <3>1, SoFarDeleted
  <2>. QED
    BY <2>1, <2>2
<1>5. /\ connections'[c] = row /\ \A e \in Connection \ {c} : connections'[e] = connections[e]
      /\ \A b \in Admin : wizards'[b].active => wizards'[b] = wizards[b]
  BY <1>0, <1>1 DEF NoWizard
<1>. QED
  BY <1>3, <1>4, <1>5 DEF KeptAnswersFailed, Stored

(* every other step opens an empty wizard, ends one, names one or deletes a row *)
LEMMA OthersKept ==
  ASSUME WizardInv, KeptAnswersFailed,
         \A a \in Admin : wizards'[a].active =>
            \/ wizards'[a].values = <<>>
            \/ /\ wizards[a].active
               /\ wizards'[a].values = wizards[a].values
               /\ wizards'[a].kind = wizards[a].kind,
         \A c \in Connection : connections'[c] \in {connections[c], Deleted}
  PROVE  KeptAnswersFailed'
<1>1. 1 .. Len(<<>>) = {}
  OBVIOUS
<1>2. \A c \in Connection : Stored(c)' => Stored(c) /\ connections'[c] = connections[c]
  BY DEF Stored, Deleted
<1>. QED
  BY <1>1, <1>2 DEF KeptAnswersFailed

LEMMA OpenedWizard ==
  ASSUME WizardInv, KeptAnswersFailed, NEW a \in Admin, NEW w, Open(a, w), UNCHANGED connections,
         \/ w.values = <<>>
         \/ /\ wizards[a].active
            /\ w.values = wizards[a].values
            /\ w.kind = wizards[a].kind
  PROVE  KeptAnswersFailed'
<1>1. wizards'[a] = w /\ \A b \in Admin \ {a} : wizards'[b] = wizards[b]
  BY DEF Open, WizardInv, TypeOK
<1>. QED
  BY <1>1, OthersKept

LEMMA KeptStep == WizardInv /\ KeptAnswersFailed /\ [Next]_vars => KeptAnswersFailed'
<1>. SUFFICES ASSUME WizardInv, KeptAnswersFailed, [Next]_vars PROVE KeptAnswersFailed'
  OBVIOUS
<1>0. /\ wizards \in [Admin -> Wizards \cup {NoWizard}]
      /\ connections \in [Connection -> Rows \cup {Absent, Deleted}]
      /\ ~NoWizard.active
  BY DEF WizardInv, TypeOK, NoWizard
<1>1. ASSUME NEW a \in Admin, NEW kind, NEW name, NEW c, UNCHANGED connections,
             Open(a, NewWizard(kind, name, c))
      PROVE  KeptAnswersFailed'
  <2>1. NewWizard(kind, name, c).values = <<>>
    BY DEF NewWizard
  <2>. QED
    BY <1>1, <2>1, OpenedWizard
<1>2. ASSUME NEW a \in Admin, NEW name \in Name, GiveName(a, name)
      PROVE  KeptAnswersFailed'
  <2>. DEFINE w == [wizards[a] EXCEPT !.name = name]
  <2>1. wizards[a] \in Wizards /\ wizards[a].active /\ Open(a, w) /\ UNCHANGED connections
    BY <1>2 DEF GiveName, WizardInv, TypeOK, NoWizard
  <2>2. w.values = wizards[a].values /\ w.kind = wizards[a].kind
    BY <2>1 DEF Wizards
  <2>. HIDE DEF w
  <2>. QED
    BY <2>1, <2>2, OpenedWizard
<1>3. CASE Restart \/ \E a \in Admin : Cancel(a)
  <2>1. \A a \in Admin : wizards'[a].active => wizards'[a] = wizards[a]
    BY <1>0, <1>3 DEF Restart, Cancel
  <2>. QED
    BY <1>3, <2>1, OthersKept DEF Restart, Cancel
<1>4. CASE \E c \in Connection : DeleteConnection(c)
  <2>1. /\ UNCHANGED wizards
        /\ \A c \in Connection : connections'[c] \in {connections[c], Deleted}
    BY <1>0, <1>4 DEF DeleteConnection
  <2>. QED
    BY <2>1, OthersKept
<1>5. CASE UNCHANGED vars
  BY <1>5, OthersKept DEF vars
<1>. QED
  BY <1>1, <1>2, <1>3, <1>4, <1>5, AnswerKept, FinishKept
     DEF Next, StartWizard, StartInlineWizard, EditConnection

(***************************************************************************)
(* The credential that stays in a chat is never one of a stored connection *)
(* or of a wizard that goes on: handle() only loses the deletion with the  *)
(* exception finishWizard throws.                                          *)
(***************************************************************************)
THEOREM OnlyFailedAnswersStay == Spec => []KeptAnswersFailed
<1>1. Init => KeptAnswersFailed
  BY DEF Init, KeptAnswersFailed, NoWizard, Absent, Stored
<1>. QED
  BY <1>1, KeptStep, WizardsAreSound, PTL DEF Spec

=============================================================================
