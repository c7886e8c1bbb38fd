------------------------------ MODULE DialogProofs -----------------------------
(****************************************************************************)
(* The dialogs that review before they act implement ReviewedAction, for     *)
(* every number of versions, requests and actions carried out. The argument  *)
(* is the same for all of them: at most one acting call is ever under way,   *)
(* for the dialog waits for it and asks for nothing else meanwhile, so that  *)
(* what was confirmed last is what the worker checks and carries out. Then   *)
(* what all the dialogs promise together: what is carried out, what is shown *)
(* and what the terminal was told; and that pastes go where they were meant. *)
(****************************************************************************)
EXTENDS MCDialogs, FiniteSetTheorems, TLAPS

-----------------------------------------------------------------------------
(* The calls and what the dialog waits for.                                  *)

MaybeVersion == Version \cup {NoVersion}
Phases == {"sent", "checked", "done", "failed"}

CallShape(c) ==
    /\ {"id", "acts", "phase", "version", "detail"} \subseteq DOMAIN c
    /\ c.id \in Nat \ {0}
    /\ c.acts \in BOOLEAN
    /\ c.phase \in Phases
    /\ c.version \in MaybeVersion

UnderWay(c) == c.acts /\ c.phase \in {"sent", "checked"}

CallsInv ==
    /\ pending.id \in Nat
    /\ pending.saving \in BOOLEAN
    /\ nextRequest \in Nat
    /\ pending.id <= nextRequest
    /\ \A c \in calls : CallShape(c) /\ c.id <= nextRequest
    /\ \A a, b \in calls : a.id = b.id => a = b
    /\ \A c \in calls :
        UnderWay(c) => c.version \in Version /\ pending.id = c.id /\ pending.saving
    /\ \A c \in calls : (~c.acts /\ c.phase = "done") => c.version \in Version

LEMMA PhaseChanges ==
  ASSUME NEW c, CallShape(c), NEW phase \in Phases
  PROVE  LET m == [c EXCEPT !.phase = phase]
         IN  /\ CallShape(m) /\ m.id = c.id /\ m.acts = c.acts /\ m.version = c.version
             /\ m.phase = phase
  BY DEF CallShape

LEMMA ChooseOnly ==
  ASSUME NEW S, NEW c, S = {c}
  PROVE  (CHOOSE x \in S : TRUE) = c
  BY Zenon

LEMMA NothingUnderWay ==
  ASSUME \A c \in calls : ~UnderWay(c)
  PROVE  Acting = {} /\ Asked = NoVersion /\ Verified = FALSE
  BY DEF Acting, Asked, Verified, UnderWay

LEMMA OneUnderWay ==
  ASSUME CallsInv, NEW c \in calls, UnderWay(c)
  PROVE  Acting = {c} /\ Asked = c.version /\ Verified = (c.phase = "checked")
<1>1. Acting = {c}
 BY DEF Acting, CallsInv, UnderWay
<1>2. Asked = c.version
 BY <1>1, ChooseOnly DEF Asked
<1> QED BY <1>1, <1>2 DEF Verified

(* The calls stay and the dialog at most lets go of a look-up. *)
LEMMA CallsKept ==
  ASSUME CallsInv, UNCHANGED <<calls, nextRequest>>,
         \/ pending' = pending
         \/ ~pending.saving /\ pending' = NoPending
  PROVE  CallsInv' /\ UNCHANGED <<Asked, Verified>>
<1>1. UNCHANGED <<Asked, Verified>>
 BY DEF Asked, Verified, Acting
<1>2. CASE pending' = pending
 BY <1>1, <1>2 DEF CallsInv
<1>3. CASE ~pending.saving /\ pending' = NoPending
 <2>1. pending' = [id |-> 0, saving |-> FALSE] /\ pending'.id = 0 /\ pending'.saving = FALSE
  BY <1>3 DEF NoPending
 <2>2. \A c \in calls : ~UnderWay(c)
  BY <1>3 DEF CallsInv
 <2> QED BY <1>1, <2>1, <2>2 DEF CallsInv
<1> QED BY <1>2, <1>3

(* A look-up is asked for. *)
LEMMA LooksUp ==
  ASSUME CallsInv, ~pending.saving, NEW d, Submit(FALSE, NoVersion, d)
  PROVE  CallsInv' /\ UNCHANGED <<Asked, Verified>>
<1> DEFINE c == [id |-> nextRequest + 1, acts |-> FALSE, phase |-> "sent",
                 version |-> NoVersion, detail |-> d]
<1>1. calls' = calls \cup {c} /\ nextRequest' = nextRequest + 1
      /\ pending' = [id |-> nextRequest + 1, saving |-> FALSE]
 BY DEF Submit
<1>2. c.id = nextRequest + 1 /\ c.acts = FALSE /\ c.phase = "sent" /\ c.version = NoVersion
      /\ c.detail = d
 OBVIOUS
<1>3. CallShape(c)
 BY <1>2 DEF CallsInv, CallShape, Phases, MaybeVersion
<1> HIDE DEF c
<1>4. \A x \in calls : ~UnderWay(x)
 BY DEF CallsInv
<1>5. \A x \in calls' : ~UnderWay(x)
 BY <1>1, <1>2, <1>4 DEF UnderWay
<1>6. CallsInv'
 BY <1>1, <1>2, <1>3, <1>5 DEF CallsInv, CallShape, UnderWay
<1>7. Acting' = {} /\ Asked' = NoVersion /\ Verified' = FALSE
 BY <1>5 DEF Acting, Asked, Verified, UnderWay
<1> QED BY <1>4, <1>6, <1>7, NothingUnderWay

(* A version is confirmed. *)
LEMMA Confirmed ==
  ASSUME CallsInv, Idle, NEW v \in Version, NEW d, Submit(TRUE, v, d)
  PROVE  CallsInv' /\ Asked = NoVersion /\ Verified = FALSE /\ Asked' = v /\ Verified' = FALSE
<1> DEFINE c == [id |-> nextRequest + 1, acts |-> TRUE, phase |-> "sent",
                 version |-> v, detail |-> d]
<1>1. calls' = calls \cup {c} /\ nextRequest' = nextRequest + 1
      /\ pending' = [id |-> nextRequest + 1, saving |-> TRUE]
 BY DEF Submit
<1>2. c.id = nextRequest + 1 /\ c.acts = TRUE /\ c.phase = "sent" /\ c.version = v
      /\ c.detail = d
 OBVIOUS
<1>3. CallShape(c)
 BY <1>2 DEF CallsInv, CallShape, Phases, MaybeVersion
<1> HIDE DEF c
<1>4. \A x \in calls : ~UnderWay(x)
 BY DEF CallsInv, Idle, NoPending
<1>5. UnderWay(c) /\ c \in calls'
 BY <1>1, <1>2 DEF UnderWay
<1>6. CallsInv'
 BY <1>1, <1>2, <1>3, <1>4 DEF CallsInv, CallShape, UnderWay
<1>7. Acting' = {c}
 BY <1>1, <1>4, <1>5 DEF Acting, UnderWay
<1>8. Asked' = c.version
 BY <1>7, ChooseOnly DEF Asked
<1>9. Verified' = FALSE
 BY <1>7, <1>2 DEF Verified
<1> QED BY <1>2, <1>4, <1>6, <1>8, <1>9, NothingUnderWay

(* A look-up moves on, or an acting call does. *)
LEMMA LookUpMoves ==
  ASSUME CallsInv, NEW c \in calls, ~c.acts, NEW m, CallShape(m), m.id = c.id, ~m.acts,
         m.phase = "done" => m.version \in Version,
         Becomes(c, m), UNCHANGED <<pending, nextRequest>>
  PROVE  CallsInv' /\ UNCHANGED <<Asked, Verified>>
<1>1. calls' = (calls \ {c}) \cup {m}
 BY DEF Becomes
<1>2. ~UnderWay(c) /\ ~UnderWay(m)
 BY DEF UnderWay
<1>3. Acting' = Acting
 BY <1>1, <1>2 DEF Acting, UnderWay
<1>4. UNCHANGED <<Asked, Verified>>
 BY <1>3 DEF Asked, Verified
<1>5. CallsInv'
 BY <1>1, <1>2 DEF CallsInv
<1> QED BY <1>4, <1>5

LEMMA ActionMoves ==
  ASSUME CallsInv, NEW c \in calls, UnderWay(c), NEW m, CallShape(m), m.id = c.id, m.acts,
         m.version = c.version, Becomes(c, m), UNCHANGED <<pending, nextRequest>>
  PROVE  /\ CallsInv'
         /\ Asked = c.version /\ c.version \in Version
         /\ Verified = (c.phase = "checked")
         /\ m.phase = "checked" => Asked' = Asked /\ Verified' = TRUE
         /\ m.phase \in {"done", "failed"} => Asked' = NoVersion /\ Verified' = FALSE
<1>1. calls' = (calls \ {c}) \cup {m}
 BY DEF Becomes
<1>2. Acting = {c} /\ Asked = c.version /\ Verified = (c.phase = "checked")
 BY OneUnderWay
<1>3. CallsInv'
 BY <1>1 DEF CallsInv, UnderWay
<1>4. ASSUME m.phase = "checked" PROVE Asked' = Asked /\ Verified' = TRUE
 <2>1. Acting' = {m}
  BY <1>1, <1>2, <1>4 DEF Acting
 <2>2. Asked' = m.version
  BY <2>1, ChooseOnly DEF Asked
 <2> QED BY <1>2, <1>4, <2>1, <2>2 DEF Verified
<1>5. ASSUME m.phase \in {"done", "failed"} PROVE Asked' = NoVersion /\ Verified' = FALSE
 <2>1. Acting' = {}
  BY <1>1, <1>2, <1>5 DEF Acting
 <2> QED BY <2>1 DEF Asked, Verified
<1>6. c.version \in Version
 BY DEF CallsInv
<1> QED BY <1>2, <1>3, <1>4, <1>5, <1>6

(* An answer is read: the dialog stops waiting, or goes on waiting for another. *)
LEMMA AnswerRead ==
  ASSUME CallsInv, NEW c \in Answers, calls' = calls \ {c}, UNCHANGED nextRequest,
         \/ pending' = pending
         \/ AwaitedBy(pending, c) /\ pending' = NoPending
  PROVE  CallsInv' /\ UNCHANGED <<Asked, Verified>>
<1>1. ~UnderWay(c) /\ c \in calls
 BY DEF Answers, UnderWay
<1>2. Acting' = Acting
 BY <1>1 DEF Acting, UnderWay
<1>3. UNCHANGED <<Asked, Verified>>
 BY <1>2 DEF Asked, Verified
<1>4. CASE pending' = pending
 BY <1>3, <1>4 DEF CallsInv
<1>5. CASE AwaitedBy(pending, c) /\ pending' = NoPending
 <2>1. pending' = [id |-> 0, saving |-> FALSE] /\ pending'.id = 0 /\ pending'.saving = FALSE
  BY <1>5 DEF NoPending
 <2>2. \A x \in calls : ~UnderWay(x)
  BY <1>1, <1>5 DEF CallsInv, AwaitedBy
 <2>3. CallsInv'
  BY <2>1, <2>2 DEF CallsInv
 <2> QED BY <1>3, <2>3
<1> QED BY <1>4, <1>5

(* The awaited answer is read and another look-up follows at once. *)
LEMMA AnswerReadAndLookUp ==
  ASSUME CallsInv, NEW c \in Answers, AwaitedBy(pending, c), NEW d,
         nextRequest' = nextRequest + 1,
         pending' = [id |-> nextRequest + 1, saving |-> FALSE],
         calls' = (calls \ {c}) \cup
                  {[id |-> nextRequest + 1, acts |-> FALSE, phase |-> "sent",
                    version |-> NoVersion, detail |-> d]}
  PROVE  CallsInv' /\ UNCHANGED <<Asked, Verified>>
<1> DEFINE n == [id |-> nextRequest + 1, acts |-> FALSE, phase |-> "sent",
                 version |-> NoVersion, detail |-> d]
<1>1. calls' = (calls \ {c}) \cup {n}
 OBVIOUS
<1>2. n.id = nextRequest + 1 /\ n.acts = FALSE /\ n.phase = "sent" /\ n.version = NoVersion
      /\ n.detail = d
 OBVIOUS
<1>3. CallShape(n)
 BY <1>2 DEF CallsInv, CallShape, Phases, MaybeVersion
<1> HIDE DEF n
<1>4. \A x \in calls : ~UnderWay(x)
 BY DEF CallsInv, AwaitedBy, Answers, UnderWay
<1>5. \A x \in calls' : ~UnderWay(x)
 BY <1>1, <1>2, <1>4 DEF UnderWay
<1>6. CallsInv'
 BY <1>1, <1>2, <1>3, <1>5 DEF CallsInv, CallShape, UnderWay
<1>7. Acting' = {} /\ Asked' = NoVersion /\ Verified' = FALSE
 BY <1>5 DEF Acting, Asked, Verified, UnderWay
<1> QED BY <1>4, <1>6, <1>7, NothingUnderWay

(* The dialog starts over and the worker's tasks are gone. *)
LEMMA StartsOver ==
  ASSUME calls' = {}, pending' = NoPending, nextRequest' = 0
  PROVE  CallsInv' /\ Asked' = NoVersion /\ Verified' = FALSE
<1>1. Acting' = {}
 BY DEF Acting
<1>2. Asked' = NoVersion /\ Verified' = FALSE
 BY <1>1 DEF Asked, Verified
<1>3. pending' = [id |-> 0, saving |-> FALSE] /\ pending'.id = 0 /\ pending'.saving = FALSE
 BY DEF NoPending
<1> QED BY <1>2, <1>3 DEF CallsInv

-----------------------------------------------------------------------------
(* The state of a dialog, and its steps as steps of ReviewedAction.          *)

HoldsVersion(s) ==
    /\ {"version", "gone", "text"} \subseteq DOMAIN s
    /\ s.version \in Version
    /\ s.gone \in BOOLEAN

ServerShape == HoldsVersion(server)

Planned(p) == "plan" \in DOMAIN p /\ p.plan \in MaybeVersion

DialogInv ==
    /\ CallsInv
    /\ ServerShape
    /\ told \in Nat \ {0}
    /\ carried \in Nat
    /\ Planned(prompt)

Steps == DialogInv' /\ Reviewed!Next

LEMMA CurrentType ==
  ASSUME NEW s, HoldsVersion(s)
  PROVE  Current(s) \in MaybeVersion
  BY DEF HoldsVersion, Current, MaybeVersion

LEMMA StartsReviewed ==
  ASSUME NEW p, DialogInit(p), Planned(p), p.plan = NoVersion
  PROVE  DialogInv /\ Reviewed!Init
<1>1. 1 \in Version /\ NoVersion \in MaybeVersion
 BY DialogBounds DEF Version, MaybeVersion
<1>2. calls = {} /\ pending = [id |-> 0, saving |-> FALSE] /\ nextRequest = 0
      /\ pending.id = 0 /\ pending.saving = FALSE
 BY DEF DialogInit, NoPending
<1>3. CallsInv
 BY <1>2 DEF CallsInv
<1>4. server = [version |-> 1, gone |-> FALSE, text |-> Theirs]
 BY DEF DialogInit
<1>5. ServerShape
 BY <1>1, <1>4 DEF ServerShape, HoldsVersion
<1>6. Asked = NoVersion /\ Verified = FALSE
 BY <1>2, NothingUnderWay
<1>7. prompt.plan = NoVersion /\ Planned(prompt) /\ told = 1 /\ carried = 0
 BY DEF DialogInit
<1>8. Current(server) \in MaybeVersion
 BY <1>5, CurrentType DEF ServerShape
<1>9. Reviewed!Init
 BY <1>1, <1>6, <1>7, <1>8 DEF Reviewed!Init, Reviewed!MaybeVersion, MaybeVersion
<1> QED BY <1>1, <1>3, <1>5, <1>7, <1>9 DEF DialogInv

LEMMA StepShows ==
  ASSUME DialogInv, CallsInv', UNCHANGED <<Asked, Verified, server, carried>>,
         told' \in Nat \ {0}, Planned(prompt')
  PROVE  Steps
<1>1. Reviewed!Shows
 BY DEF Reviewed!Shows, Reviewed!MaybeVersion, MaybeVersion, Planned
<1>2. DialogInv'
 BY DEF DialogInv, ServerShape, HoldsVersion
<1> QED BY <1>1, <1>2 DEF Steps, Reviewed!Next

LEMMA StepConfirms ==
  ASSUME DialogInv, Idle, prompt.plan # NoVersion, NEW d,
         Submit(TRUE, prompt.plan, d), UNCHANGED <<server, told, carried, prompt>>
  PROVE  Steps
<1>1. prompt.plan \in Version
 BY DEF DialogInv, MaybeVersion, Planned
<1>2. CallsInv' /\ Asked = NoVersion /\ Verified = FALSE /\ Asked' = prompt.plan
      /\ Verified' = FALSE
 BY <1>1, Confirmed DEF DialogInv
<1>3. Reviewed!Confirms
 BY <1>1, <1>2 DEF Reviewed!Confirms
<1>4. DialogInv'
 BY <1>2 DEF DialogInv, ServerShape, HoldsVersion
<1> QED BY <1>3, <1>4 DEF Steps, Reviewed!Next

LEMMA StepVerifies ==
  ASSUME DialogInv, NEW c \in calls, c.acts, c.phase = "sent", ~server.gone,
         c.version = server.version, Becomes(c, [c EXCEPT !.phase = "checked"]),
         UNCHANGED <<terminalVars, serverVars>>
  PROVE  Steps
<1> DEFINE m == [c EXCEPT !.phase = "checked"]
<1>1. CallShape(c) /\ UnderWay(c)
 BY DEF DialogInv, CallsInv, UnderWay
<1>2. CallShape(m) /\ m.id = c.id /\ m.acts = c.acts /\ m.version = c.version
      /\ m.phase = "checked"
 BY <1>1, PhaseChanges DEF Phases
<1>3. Becomes(c, m)
 OBVIOUS
<1> HIDE DEF m
<1>4. /\ CallsInv'
      /\ Asked = c.version /\ c.version \in Version
      /\ Asked' = Asked /\ Verified' = TRUE
 BY <1>1, <1>2, <1>3, ActionMoves DEF DialogInv, terminalVars
<1>5. Current(server) = c.version
 BY DEF Current
<1>6. UNCHANGED <<server, told, carried, prompt>>
 BY DEF terminalVars, serverVars
<1>7. Reviewed!Verifies
 BY <1>4, <1>5, <1>6 DEF Reviewed!Verifies
<1>8. DialogInv'
 BY <1>4, <1>6 DEF DialogInv, ServerShape, HoldsVersion
<1> QED BY <1>7, <1>8 DEF Steps, Reviewed!Next

LEMMA StepCarriesOut ==
  ASSUME DialogInv, NEW c \in calls, c.acts, c.phase = "checked",
         NEW m, CallShape(m), m.id = c.id, m.acts, m.version = c.version,
         m.phase \in {"done", "failed"}, Becomes(c, m),
         UNCHANGED <<terminalVars, told>>, ServerShape', carried' = carried + 1
  PROVE  Steps
<1>1. UnderWay(c)
 BY DEF UnderWay
<1>2. CallsInv' /\ Verified = TRUE /\ Asked' = NoVersion /\ Verified' = FALSE
 BY <1>1, ActionMoves DEF DialogInv, terminalVars
<1>3. Current(server') \in MaybeVersion
 BY CurrentType DEF ServerShape
<1>4. UNCHANGED prompt
 BY DEF terminalVars
<1>5. Reviewed!CarriesOut
 BY <1>2, <1>3, <1>4 DEF Reviewed!CarriesOut, Reviewed!MaybeVersion, MaybeVersion
<1>6. DialogInv'
 BY <1>2, <1>4 DEF DialogInv
<1> QED BY <1>5, <1>6 DEF Steps, Reviewed!Next

LEMMA StepGivesUp ==
  ASSUME DialogInv, NEW c \in calls, UnderWay(c),
         NEW m, CallShape(m), m.id = c.id, m.acts, m.version = c.version,
         m.phase \in {"done", "failed"}, Becomes(c, m),
         UNCHANGED <<terminalVars, server, told, carried>>
  PROVE  Steps
<1>1. CallsInv' /\ Asked' = NoVersion /\ Verified' = FALSE
 BY ActionMoves DEF DialogInv, terminalVars
<1>2. UNCHANGED prompt
 BY DEF terminalVars
<1>3. Reviewed!GivesUp
 BY <1>1, <1>2 DEF Reviewed!GivesUp, Reviewed!MaybeVersion, MaybeVersion, Planned, DialogInv
<1>4. DialogInv'
 BY <1>1, <1>2 DEF DialogInv, ServerShape, HoldsVersion
<1> QED BY <1>3, <1>4 DEF Steps, Reviewed!Next

LEMMA StepLooksUp ==
  ASSUME DialogInv, ~pending.saving, NEW d, Submit(FALSE, NoVersion, d),
         UNCHANGED <<server, told, carried>>, Planned(prompt')
  PROVE  Steps
<1>1. CallsInv' /\ UNCHANGED <<Asked, Verified>>
 BY LooksUp DEF DialogInv
<1> QED BY <1>1, StepShows DEF DialogInv

LEMMA StepLookUpMoves ==
  ASSUME DialogInv, NEW c \in calls, ~c.acts, NEW m, CallShape(m), m.id = c.id, ~m.acts,
         m.phase = "done" => m.version \in Version,
         Becomes(c, m), UNCHANGED <<terminalVars, serverVars>>
  PROVE  Steps
<1>1. CallsInv' /\ UNCHANGED <<Asked, Verified>>
 BY LookUpMoves DEF DialogInv, terminalVars
<1>2. UNCHANGED <<server, told, carried, prompt>>
 BY DEF terminalVars, serverVars
<1> QED BY <1>1, <1>2, StepShows DEF DialogInv

(* The dialog keeps its calls, shows what it likes, and waits on or lets go of
   a look-up. *)
LEMMA StepKeepsCalls ==
  ASSUME DialogInv, UNCHANGED <<calls, nextRequest, server, carried>>,
         \/ pending' = pending
         \/ ~pending.saving /\ pending' = NoPending,
         told' \in Nat \ {0}, Planned(prompt')
  PROVE  Steps
<1>1. CallsInv' /\ UNCHANGED <<Asked, Verified>>
 BY CallsKept DEF DialogInv
<1> QED BY <1>1, StepShows

LEMMA StepReads ==
  ASSUME DialogInv, NEW c \in Answers, calls' = calls \ {c}, UNCHANGED nextRequest,
         \/ pending' = pending
         \/ AwaitedBy(pending, c) /\ pending' = NoPending,
         UNCHANGED <<server, told, carried>>, Planned(prompt')
  PROVE  Steps
<1>1. CallsInv' /\ UNCHANGED <<Asked, Verified>>
 BY AnswerRead DEF DialogInv
<1> QED BY <1>1, StepShows DEF DialogInv

LEMMA StepSwitches ==
  ASSUME DialogInv, NEW p, Planned(p), AccountSwitch(p)
  PROVE  Steps
<1>1. /\ calls' = {} /\ pending' = NoPending /\ nextRequest' = 0 /\ prompt' = p
      /\ UNCHANGED <<server, told, carried>>
 BY DEF AccountSwitch
<1>2. CallsInv' /\ Asked' = NoVersion /\ Verified' = FALSE
 BY <1>1, StartsOver
<1>3. Reviewed!GivesUp
 BY <1>1, <1>2 DEF Reviewed!GivesUp, Reviewed!MaybeVersion, MaybeVersion, Planned
<1>4. DialogInv'
 BY <1>1, <1>2 DEF DialogInv, ServerShape, HoldsVersion
<1> QED BY <1>3, <1>4 DEF Steps, Reviewed!Next

LEMMA StepLetsGo ==
  ASSUME DialogInv, NEW p, Planned(p), LetGo(p)
  PROVE  Steps
<1>1. /\ UNCHANGED <<calls, nextRequest, server, told, carried>>
      /\ \/ pending' = pending /\ prompt' = prompt
         \/ ~pending.saving /\ pending' = NoPending /\ prompt' = p
 BY DEF LetGo, serverVars
<1>2. Planned(prompt')
 BY <1>1 DEF DialogInv
<1> QED BY <1>1, <1>2, StepKeepsCalls DEF DialogInv

LEMMA StepOfSurroundings ==
  ASSUME DialogInv, Surroundings
  PROVE  Steps
<1>1. CASE ConnectionChanges \/ ModeReset
 <2>1. UNCHANGED <<prompt, pending, nextRequest, calls, server, told, carried>>
  BY <1>1 DEF ConnectionChanges, ModeReset, serverVars
 <2> QED BY <2>1, StepKeepsCalls DEF DialogInv
<1>2. CASE OthersChange
 <2>1. UNCHANGED <<prompt, pending, nextRequest, calls, told, carried>>
  BY <1>2 DEF OthersChange, terminalVars
 <2>2. ServerShape'
  <3>1. CASE /\ server.version < MaxVersion
             /\ server' = [server EXCEPT !.version = @ + 1, !.text = Theirs]
   <4>1. /\ server'.version = server.version + 1 /\ server'.gone = server.gone
         /\ {"version", "gone", "text"} \subseteq DOMAIN server'
    BY <3>1 DEF DialogInv, ServerShape, HoldsVersion
   <4>2. server.version + 1 \in Version
    BY <3>1, DialogBounds DEF DialogInv, ServerShape, HoldsVersion, Version
   <4> QED BY <4>1, <4>2 DEF ServerShape, HoldsVersion, DialogInv
  <3>2. CASE server' = [server EXCEPT !.gone = TRUE]
   BY <3>2 DEF ServerShape, HoldsVersion, DialogInv
  <3> QED BY <1>2, <3>1, <3>2 DEF OthersChange
 <2>3. CallsInv' /\ UNCHANGED <<Asked, Verified>>
  BY <2>1, CallsKept DEF DialogInv
 <2>4. Current(server') \in MaybeVersion
  BY <2>2, CurrentType DEF ServerShape
 <2>5. Reviewed!Changes
  BY <2>1, <2>3, <2>4 DEF Reviewed!Changes, Reviewed!MaybeVersion, MaybeVersion
 <2>6. DialogInv'
  BY <2>1, <2>2, <2>3 DEF DialogInv
 <2> QED BY <2>5, <2>6 DEF Steps, Reviewed!Next
<1>3. ASSUME NEW c \in calls, CallFails(c) PROVE Steps
 <2> DEFINE m == [c EXCEPT !.phase = "failed"]
 <2>1. CallShape(c)
  BY DEF DialogInv, CallsInv
 <2>2. CallShape(m) /\ m.id = c.id /\ m.acts = c.acts /\ m.version = c.version
       /\ m.phase = "failed"
  BY <2>1, PhaseChanges DEF Phases
 <2>3. Becomes(c, m) /\ UNCHANGED <<terminalVars, serverVars>>
  BY <1>3 DEF CallFails
 <2>4. c.phase \in {"sent", "checked"} /\ c.acts \in BOOLEAN
  BY <1>3, <2>1 DEF CallFails, CallShape
 <2> HIDE DEF m
 <2>5. CASE c.acts
  BY <2>2, <2>3, <2>4, <2>5, StepGivesUp DEF UnderWay, serverVars
 <2>6. CASE ~c.acts
  BY <2>2, <2>3, <2>6, StepLookUpMoves
 <2> QED BY <2>4, <2>5, <2>6
<1>4. ASSUME NEW c \in calls, AnswerIgnored(c) PROVE Steps
 <2>1. c \in Answers /\ calls' = calls \ {c} /\ UNCHANGED <<terminalVars, serverVars>>
  BY <1>4 DEF AnswerIgnored
 <2>2. UNCHANGED <<prompt, pending, nextRequest, server, told, carried>>
  BY <2>1 DEF terminalVars, serverVars
 <2> QED BY <2>1, <2>2, StepReads DEF DialogInv
<1> QED BY <1>1, <1>2, <1>3, <1>4 DEF Surroundings

(* What a task makes of its call keeps the number and the kind of it. *)
Answered(c, v, d) == [c EXCEPT !.phase = "done", !.version = v, !.detail = d]
InPhase(c, phase) == [c EXCEPT !.phase = phase]

LEMMA CallAnswered ==
  ASSUME NEW c, CallShape(c), NEW v \in Version, NEW d
  PROVE  /\ CallShape(Answered(c, v, d)) /\ Answered(c, v, d).id = c.id
         /\ Answered(c, v, d).acts = c.acts /\ Answered(c, v, d).version = v
  BY DEF CallShape, Answered, MaybeVersion, Phases

LEMMA CallInPhase ==
  ASSUME NEW c, CallShape(c), NEW phase \in Phases
  PROVE  /\ CallShape(InPhase(c, phase)) /\ InPhase(c, phase).id = c.id
         /\ InPhase(c, phase).acts = c.acts /\ InPhase(c, phase).version = c.version
         /\ InPhase(c, phase).phase = phase
  BY PhaseChanges DEF InPhase

LEMMA StepAnswers ==
  ASSUME DialogInv, NEW c \in calls, ~c.acts, NEW d,
         Becomes(c, [c EXCEPT !.phase = "done", !.version = server.version, !.detail = d]),
         UNCHANGED <<terminalVars, serverVars>>
  PROVE  Steps
<1> DEFINE m == Answered(c, server.version, d)
<1>1. CallShape(c) /\ server.version \in Version
 BY DEF DialogInv, CallsInv, ServerShape, HoldsVersion
<1>2. CallShape(m) /\ m.id = c.id /\ m.acts = c.acts /\ m.version = server.version
 BY <1>1, CallAnswered
<1>3. Becomes(c, m)
 BY DEF Answered
<1> HIDE DEF m
<1> QED BY <1>1, <1>2, <1>3, StepLookUpMoves

(* The actions of all dialogs on a server that only its own clients change. *)
LEMMA StepActs ==
  ASSUME DialogInv, NEW c \in calls, c.acts, c.phase = "checked",
         NEW phase \in {"done", "failed"}, Becomes(c, [c EXCEPT !.phase = phase]),
         UNCHANGED <<terminalVars, told>>, ServerShape', carried' = carried + 1
  PROVE  Steps
<1> DEFINE m == InPhase(c, phase)
<1>1. CallShape(c) /\ phase \in Phases
 BY DEF DialogInv, CallsInv, Phases
<1>2. CallShape(m) /\ m.id = c.id /\ m.acts = c.acts /\ m.version = c.version
      /\ m.phase = phase
 BY <1>1, CallInPhase
<1>3. Becomes(c, m)
 BY DEF InPhase
<1> HIDE DEF m
<1> QED BY <1>2, <1>3, StepCarriesOut

(* The awaited answer of an action, or of a look-up, settles the dialog; it may
   look the object up again at once. *)
LEMMA StepSettles ==
  ASSUME DialogInv, NEW c, NEW p, Planned(p), NEW l, Planned(l), NEW d,
         Settles(c, p) \/ SettlesAndLooks(c, p, l, d), UNCHANGED <<server, told, carried>>
  PROVE  Steps
<1>1. CASE Settles(c, p)
 BY <1>1, StepReads DEF Settles
<1>2. CASE SettlesAndLooks(c, p, l, d) /\ ~Settles(c, p)
 <2>1. /\ c \in Answers /\ AwaitedBy(pending, c) /\ nextRequest' = nextRequest + 1
       /\ pending' = [id |-> nextRequest + 1, saving |-> FALSE]
       /\ calls' = (calls \ {c}) \cup
                   {[id |-> nextRequest + 1, acts |-> FALSE, phase |-> "sent",
                     version |-> NoVersion, detail |-> d]}
       /\ prompt' = l
  BY <1>2 DEF SettlesAndLooks
 <2>2. CallsInv' /\ UNCHANGED <<Asked, Verified>>
  BY <2>1, AnswerReadAndLookUp DEF DialogInv
 <2> QED BY <2>1, <2>2, StepShows DEF DialogInv
<1> QED BY <1>1, <1>2

(* The steps of the surroundings leave the prompt alone. *)
LEMMA SurroundingsKeepPrompt ==
  ASSUME Surroundings
  PROVE  UNCHANGED prompt
  BY DEF Surroundings, ConnectionChanges, OthersChange, ModeReset, CallFails, AnswerIgnored,
         terminalVars

LEMMA PlanKept ==
  ASSUME NEW p, Planned(p)
  PROVE  /\ \A b : Planned([p EXCEPT !.ready = b])
         /\ \A b : Planned([p EXCEPT !.selected = b])
         /\ \A b : Planned([p EXCEPT !.error = b])
         /\ \A b : Planned([p EXCEPT !.settled = b])
         /\ \A b, c : Planned([p EXCEPT !.invalid = b, !.error = c])
         /\ \A b, c : Planned([p EXCEPT !.invalid = b, !.selected = c])
  BY DEF Planned

LEMMA NothingPlanned == NoVersion \in MaybeVersion
  BY DEF MaybeVersion

LEMMA Unchanging ==
  ASSUME DialogInv, UNCHANGED dialogVars
  PROVE  DialogInv' /\ UNCHANGED Reviewed!reviewedVars
  BY DEF dialogVars, DialogInv, CallsInv, ServerShape, Reviewed!reviewedVars, Asked, Verified,
         Acting

-----------------------------------------------------------------------------
(* Deletion.                                                                 *)

DeletionSpec == DeletionInit /\ [][DeletionNext]_dialogVars

LEMMA DeletionClosedPlan == Planned(DeletionClosed) /\ DeletionClosed.plan = NoVersion
  BY NothingPlanned DEF Planned, DeletionClosed

LEMMA DeletionStep ==
  ASSUME DialogInv, DeletionNext
  PROVE  Steps
<1>0. Planned(prompt) /\ told \in Nat \ {0}
 BY DEF DialogInv
<1>1. CASE BeginDeletion
 <2>1. Planned(prompt')
  BY <1>1, NothingPlanned DEF BeginDeletion, DeletionClosed, Planned
 <2>2. ~pending.saving /\ Submit(FALSE, NoVersion, 0) /\ UNCHANGED <<server, told, carried>>
  BY <1>1 DEF BeginDeletion, Idle, NoPending, serverVars
 <2> QED BY <2>1, <2>2, StepLooksUp
<1>2. CASE SelectScope
 <2>1. PICK n : prompt' = [prompt EXCEPT !.selected = n]
  BY <1>2 DEF SelectScope
 <2>2. Planned(prompt')
  BY <1>0, <2>1, PlanKept
 <2> QED BY <1>0, <1>2, <2>2, StepKeepsCalls DEF SelectScope, serverVars
<1>3. CASE ConfirmDeletion
 BY <1>3, StepConfirms DEF ConfirmDeletion, serverVars
<1>4. CASE CloseDeletion
 BY <1>4, DeletionClosedPlan, StepLetsGo DEF CloseDeletion
<1>5. CASE DeletionTold
 <2>1. Planned(prompt')
  BY <1>0, <1>5, PlanKept DEF DeletionTold, Invalidated
 <2>2. told' \in Nat \ {0}
  BY <1>0, <1>5 DEF DeletionTold
 <2> QED BY <1>5, <2>1, <2>2, StepKeepsCalls DEF DeletionTold
<1>6. CASE DeletionInvalidated
 <2>1. Planned(prompt')
  BY <1>0, <1>6, PlanKept DEF DeletionInvalidated, Invalidated
 <2> QED BY <1>0, <1>6, <2>1, StepKeepsCalls DEF DeletionInvalidated, serverVars
<1>7. CASE AccountSwitch(DeletionClosed)
 BY <1>7, DeletionClosedPlan, StepSwitches
<1>8. CASE Surroundings
 BY <1>8, StepOfSurroundings
<1>9. ASSUME NEW call \in calls, DeletionReady(call) PROVE Steps
 <2>1. call.version \in Version \/ call.phase = "failed"
  BY <1>9 DEF DeletionReady, Takes, Answers, DialogInv, CallsInv
 <2>2. Planned(prompt')
  BY <1>0, <1>9, <2>1 DEF DeletionReady, Planned, MaybeVersion
 <2> QED BY <1>9, <2>2, StepReads DEF DeletionReady, Takes, serverVars
<1>10. ASSUME NEW call \in calls, DeletionFinished(call) PROVE Steps
 <2>1. \/ prompt' = [prompt EXCEPT !.selected = 0]
       \/ prompt' = DeletionClosed
  BY <1>10 DEF DeletionFinished
 <2>2. Planned(prompt')
  <3>1. CASE prompt' = [prompt EXCEPT !.selected = 0]
   BY <1>0, <3>1, PlanKept
  <3>2. CASE prompt' = DeletionClosed
   BY <3>2, DeletionClosedPlan
  <3> QED BY <2>1, <3>1, <3>2
 <2> QED BY <1>10, <2>2, StepReads DEF DeletionFinished, Takes, serverVars
<1>11. ASSUME NEW call \in calls, ReviewDeletion(call) PROVE Steps
 BY <1>11, StepAnswers DEF ReviewDeletion
<1>12. ASSUME NEW call \in calls, RecheckDeletion(call) PROVE Steps
 BY <1>12, StepVerifies DEF RecheckDeletion
<1>13. ASSUME NEW call \in calls, DeleteMessage(call) PROVE Steps
 <2>1. ServerShape'
  BY <1>13 DEF DeleteMessage, DialogInv, ServerShape, HoldsVersion
 <2> QED BY <1>13, <2>1, StepActs DEF DeleteMessage
<1> QED BY <1>1, <1>2, <1>3, <1>4, <1>5, <1>6, <1>7, <1>8, <1>9, <1>10, <1>11, <1>12, <1>13
        DEF DeletionNext

(* A message is deleted only as the user confirmed it, after the revision that
   he saw was found current again, and at most once for a confirmation
   (app/deletion.rs, telegram/deletion.rs). *)
THEOREM DeletionActsAsReviewed == DeletionSpec => ActsAsReviewed
<1>1. DeletionInit => DialogInv /\ Reviewed!Init
 BY DeletionClosedPlan, StartsReviewed DEF DeletionInit
<1>2. DialogInv /\ [DeletionNext]_dialogVars
        => DialogInv' /\ [Reviewed!Next]_(Reviewed!reviewedVars)
 BY DeletionStep, Unchanging DEF Steps
<1> QED BY <1>1, <1>2, PTL DEF DeletionSpec, ActsAsReviewed, Reviewed!Spec

-----------------------------------------------------------------------------
(* Forwarding.                                                               *)

ForwardSpec == ForwardInit /\ [][ForwardNext]_dialogVars

LEMMA ForwardClosedPlan == Planned(ForwardClosed) /\ ForwardClosed.plan = NoVersion
  BY NothingPlanned DEF Planned, ForwardClosed

LEMMA ForwardStep ==
  ASSUME DialogInv, ForwardNext
  PROVE  Steps
<1>0. Planned(prompt) /\ told \in Nat \ {0}
 BY DEF DialogInv
<1>1. CASE ReviewForward
 <2>1. Planned(prompt')
  BY <1>1, NothingPlanned DEF ReviewForward, ForwardClosed, Planned
 <2>2. ~pending.saving /\ Submit(FALSE, NoVersion, <<0, 0>>)
       /\ UNCHANGED <<server, told, carried>>
  BY <1>1 DEF ReviewForward, Idle, NoPending, serverVars
 <2> QED BY <2>1, <2>2, StepLooksUp
<1>2. CASE ReopenForward
 BY <1>0, <1>2, StepKeepsCalls DEF ReopenForward, serverVars
<1>3. CASE SendForward
 BY <1>3, StepConfirms DEF SendForward, serverVars
<1>4. CASE CancelForward
 BY <1>4, ForwardClosedPlan, StepLetsGo DEF CancelForward
<1>5. CASE ForwardTold
 <2>1. Planned(prompt')
  BY <1>0, <1>5, PlanKept DEF ForwardTold
 <2>2. told' \in Nat \ {0}
  BY <1>0, <1>5 DEF ForwardTold
 <2> QED BY <1>5, <2>1, <2>2, StepKeepsCalls DEF ForwardTold
<1>6. CASE ForwardInvalidated
 <2>1. Planned(prompt')
  BY <1>0, <1>6, PlanKept DEF ForwardInvalidated
 <2> QED BY <1>0, <1>6, <2>1, StepKeepsCalls DEF ForwardInvalidated, serverVars
<1>7. CASE AccountSwitch(ForwardClosed)
 BY <1>7, ForwardClosedPlan, StepSwitches
<1>8. CASE Surroundings
 BY <1>8, StepOfSurroundings
<1>9. ASSUME NEW call \in calls, ForwardReady(call) PROVE Steps
 <2>1. call.version \in Version \/ call.phase = "failed"
  BY <1>9 DEF ForwardReady, Takes, Answers, DialogInv, CallsInv
 <2>2. \/ prompt' = prompt
       \/ prompt' = [prompt EXCEPT !.error = TRUE]
       \/ /\ call.version \in Version
          /\ prompt' = [prompt EXCEPT !.plan = call.version, !.random = call.detail[2]]
  BY <1>9, <2>1 DEF ForwardReady
 <2>3. Planned(prompt')
  BY <1>0, <2>2 DEF Planned, MaybeVersion
 <2> QED BY <1>9, <2>3, StepReads DEF ForwardReady, Takes, serverVars
<1>10. ASSUME NEW call \in calls, ForwardFinished(call) PROVE Steps
 <2>1. \/ \E b : prompt' = [prompt EXCEPT !.error = b]
       \/ prompt' = ForwardClosed
  BY <1>10 DEF ForwardFinished
 <2>2. Planned(prompt')
  <3>1. ASSUME NEW b, prompt' = [prompt EXCEPT !.error = b] PROVE Planned(prompt')
   BY <1>0, <3>1, PlanKept
  <3>2. CASE prompt' = ForwardClosed
   BY <3>2, ForwardClosedPlan
  <3> QED BY <2>1, <3>1, <3>2
 <2> QED BY <1>10, <2>2, StepReads DEF ForwardFinished, Takes, serverVars
<1>11. ASSUME NEW call \in calls, OriginalFetched(call) PROVE Steps
 BY <1>11, StepAnswers DEF OriginalFetched
<1>12. ASSUME NEW call \in calls, RecheckOriginal(call) PROVE Steps
 BY <1>12, StepVerifies DEF RecheckOriginal
<1>13. ASSUME NEW call \in calls, ForwardMessage(call) PROVE Steps
 <2>1. ServerShape'
  BY <1>13 DEF ForwardMessage, DialogInv, ServerShape
 <2> QED BY <1>13, <2>1, StepActs DEF ForwardMessage, terminalVars
<1> QED BY <1>1, <1>2, <1>3, <1>4, <1>5, <1>6, <1>7, <1>8, <1>9, <1>10, <1>11, <1>12, <1>13
        DEF ForwardNext

(* A message is forwarded only as it was reviewed, after its revision was found
   current again (app/forwarding.rs, telegram/forwarding.rs). *)
THEOREM ForwardActsAsReviewed == ForwardSpec => ActsAsReviewed
<1>1. ForwardInit => DialogInv /\ Reviewed!Init
 BY ForwardClosedPlan, StartsReviewed DEF ForwardInit
<1>2. DialogInv /\ [ForwardNext]_dialogVars
        => DialogInv' /\ [Reviewed!Next]_(Reviewed!reviewedVars)
 BY ForwardStep, Unchanging DEF Steps
<1> QED BY <1>1, <1>2, PTL DEF ForwardSpec, ActsAsReviewed, Reviewed!Spec

-----------------------------------------------------------------------------
(* Editing. An edit that is kept has the revision of the text it began with. *)

EditSpec == EditInit /\ [][EditNext]_dialogVars

EditInv ==
    /\ DialogInv
    /\ "text" \in DOMAIN prompt
    /\ Kept => prompt.plan \in Version

KeptEdit(p) ==
    /\ Planned(p)
    /\ "text" \in DOMAIN p
    /\ p.text # NoEdit => p.plan \in Version

LEMMA NothingKeptPlan == KeptEdit(NothingKept) /\ NothingKept.plan = NoVersion
  BY NothingPlanned DEF KeptEdit, Planned, NothingKept

LEMMA LookUpAnswered ==
  ASSUME NEW c, CallShape(c), NEW v \in Version
  PROVE  LET m == [c EXCEPT !.phase = "done", !.version = v]
         IN  CallShape(m) /\ m.id = c.id /\ m.acts = c.acts /\ m.version = v
  BY DEF CallShape, MaybeVersion, Phases

(* A look-up that answers with what it was asked for and the current version. *)
LEMMA StepAnswersVersion ==
  ASSUME DialogInv, NEW c \in calls, ~c.acts,
         Becomes(c, [c EXCEPT !.phase = "done", !.version = server.version]),
         UNCHANGED <<terminalVars, serverVars>>
  PROVE  Steps
<1>1. CallShape(c) /\ server.version \in Version
 BY DEF DialogInv, CallsInv, ServerShape, HoldsVersion
<1>2. PICK m : m = [c EXCEPT !.phase = "done", !.version = server.version]
 OBVIOUS
<1>3. CallShape(m) /\ m.id = c.id /\ m.acts = c.acts /\ m.version = server.version
 BY <1>1, <1>2, LookUpAnswered
<1> QED BY <1>1, <1>2, <1>3, StepLookUpMoves

LEMMA EditStep ==
  ASSUME EditInv, EditNext
  PROVE  Steps /\ KeptEdit(prompt')
<1>0. DialogInv /\ KeptEdit(prompt) /\ told \in Nat \ {0}
 BY DEF EditInv, DialogInv, KeptEdit, Kept
<1>1. CASE ResumeEdit
 BY <1>0, <1>1, StepKeepsCalls DEF ResumeEdit, serverVars, KeptEdit
<1>2. CASE LoadEdit
 <2>1. ~pending.saving /\ Submit(FALSE, NoVersion, NoEdit)
       /\ UNCHANGED <<prompt, server, told, carried>>
  BY <1>2 DEF LoadEdit, Idle, NoPending, serverVars
 <2> QED BY <1>0, <2>1, StepLooksUp DEF KeptEdit
<1>3. CASE TypeEdit
 <2>1. PICK text : prompt' = [prompt EXCEPT !.text = text]
  BY <1>3 DEF TypeEdit
 <2>2. KeptEdit(prompt')
  BY <1>0, <1>3, <2>1 DEF TypeEdit, Kept, KeptEdit, Planned
 <2> QED BY <1>0, <1>3, <2>2, StepKeepsCalls DEF TypeEdit, serverVars, KeptEdit
<1>4. CASE SaveUnchanged
 BY <1>0, <1>4, NothingKeptPlan, StepKeepsCalls DEF SaveUnchanged, serverVars, KeptEdit
<1>5. CASE SaveEdit
 <2>1. prompt.plan \in Version /\ prompt.plan # NoVersion
  BY <1>0, <1>5, TypedIsText DEF SaveEdit, KeptEdit, Version, NoVersion
 <2> QED BY <1>0, <1>5, <2>1, StepConfirms DEF SaveEdit, serverVars
<1>6. CASE DiscardEdit
 BY <1>0, <1>6, NothingKeptPlan, StepKeepsCalls DEF DiscardEdit, serverVars, KeptEdit
<1>7. CASE LeaveEdit
 BY <1>0, <1>7, StepKeepsCalls DEF LeaveEdit, serverVars, KeptEdit
<1>8. CASE AccountSwitch(prompt)
 <2>1. prompt' = prompt
  BY <1>8 DEF AccountSwitch
 <2> QED BY <1>0, <1>8, <2>1, StepSwitches DEF KeptEdit
<1>9. CASE Surroundings
 BY <1>0, <1>9, StepOfSurroundings, SurroundingsKeepPrompt
<1>10. ASSUME NEW call \in calls, EditLoaded(call) PROVE Steps /\ KeptEdit(prompt')
 <2>1. call.version \in Version \/ call.phase = "failed"
  BY <1>0, <1>10 DEF EditLoaded, Takes, Answers, DialogInv, CallsInv
 <2>2. KeptEdit(prompt')
  BY <1>0, <1>10, <2>1 DEF EditLoaded, KeptEdit, Planned, MaybeVersion
 <2> QED BY <1>0, <1>10, <2>2, StepReads DEF EditLoaded, Takes, serverVars, KeptEdit
<1>11. ASSUME NEW call \in calls, EditFinished(call) PROVE Steps /\ KeptEdit(prompt')
 <2>1. KeptEdit(prompt')
  BY <1>0, <1>11, NothingKeptPlan DEF EditFinished
 <2> QED BY <1>0, <1>11, <2>1, StepReads DEF EditFinished, Takes, serverVars, KeptEdit
<1>12. ASSUME NEW call \in calls, OriginalLoaded(call) PROVE Steps /\ KeptEdit(prompt')
 BY <1>0, <1>12, StepAnswersVersion DEF OriginalLoaded, terminalVars
<1>13. ASSUME NEW call \in calls, AlreadySaved(call) PROVE Steps /\ KeptEdit(prompt')
 <2>1. Becomes(call, InPhase(call, "done")) /\ UnderWay(call)
  BY <1>13 DEF AlreadySaved, InPhase, UnderWay
 <2>2. CallShape(call)
  BY <1>0 DEF DialogInv, CallsInv
 <2>3. /\ CallShape(InPhase(call, "done")) /\ InPhase(call, "done").id = call.id
       /\ InPhase(call, "done").acts = call.acts
       /\ InPhase(call, "done").version = call.version
       /\ InPhase(call, "done").phase = "done"
  BY <2>2, CallInPhase DEF Phases
 <2>4. UNCHANGED <<terminalVars, server, told, carried>> /\ call.acts
  BY <1>13 DEF AlreadySaved
 <2>5. Steps
  BY <1>0, <2>1, <2>3, <2>4, StepGivesUp
 <2> QED BY <1>0, <2>4, <2>5 DEF terminalVars
<1>14. ASSUME NEW call \in calls, RecheckEdit(call) PROVE Steps /\ KeptEdit(prompt')
 BY <1>0, <1>14, StepVerifies DEF RecheckEdit, terminalVars
<1>15. ASSUME NEW call \in calls, EditMessage(call) PROVE Steps /\ KeptEdit(prompt')
 <2>1. server' = [server EXCEPT !.version = @ + 1, !.text = call.detail]
       /\ server.version < MaxVersion
  BY <1>15 DEF EditMessage
 <2>2. ServerShape'
  BY <1>0, <2>1, DialogBounds DEF DialogInv, ServerShape, HoldsVersion, Version
 <2> QED BY <1>0, <1>15, <2>2, StepActs DEF EditMessage, terminalVars
<1> QED BY <1>1, <1>2, <1>3, <1>4, <1>5, <1>6, <1>7, <1>8, <1>9, <1>10, <1>11, <1>12, <1>13,
<1>14, <1>15 DEF EditNext

(* An edit replaces only the revision of the message that the user began it
   from, found current again before the server is asked, and a save that was
   confirmed once is carried out once (app/editing.rs, telegram/editing.rs). *)
THEOREM EditActsAsReviewed == EditSpec => ActsAsReviewed
<1>1. EditInit => EditInv /\ Reviewed!Init
 BY NothingKeptPlan, StartsReviewed DEF EditInit, EditInv, KeptEdit, Kept, DialogInit
<1>2. EditInv /\ [EditNext]_dialogVars
        => EditInv' /\ [Reviewed!Next]_(Reviewed!reviewedVars)
 <2>1. CASE EditNext
  BY <2>1, EditStep DEF EditInv, KeptEdit, Kept, Steps
 <2>2. CASE UNCHANGED dialogVars
  BY <2>2, Unchanging DEF EditInv, Kept, dialogVars
 <2> QED BY <2>1, <2>2
<1> QED BY <1>1, <1>2, PTL DEF EditSpec, ActsAsReviewed, Reviewed!Spec

-----------------------------------------------------------------------------
(* Invites.                                                                  *)

InviteSpec == InviteInit /\ [][InviteNext]_dialogVars

LEMMA InviteClosedPlan == Planned(InviteClosed) /\ InviteClosed.plan = NoVersion
  BY NothingPlanned DEF Planned, InviteClosed

LEMMA InviteStep ==
  ASSUME DialogInv, InviteNext
  PROVE  Steps
<1>0. Planned(prompt) /\ told \in Nat \ {0}
 BY DEF DialogInv
<1>1. CASE BeginInvite
 <2>1. PICK link : /\ prompt' = [InviteClosed EXCEPT !.open = TRUE, !.link = link,
                                                   !.review = nextRequest + 1]
                   /\ Submit(FALSE, NoVersion, [link |-> link, member |-> FALSE, review |-> 0])
  BY <1>1 DEF BeginInvite
 <2>2. Planned(prompt')
  BY <2>1, InviteClosedPlan DEF Planned
 <2>3. ~pending.saving /\ UNCHANGED <<server, told, carried>>
  BY <1>1 DEF BeginInvite, serverVars
 <2> QED BY <2>1, <2>2, <2>3, StepLooksUp
<1>2. CASE CloseInvite
 BY <1>2, InviteClosedPlan, StepLetsGo DEF CloseInvite
<1>3. CASE OpenJoined
 BY <1>0, <1>3, InviteClosedPlan, StepKeepsCalls DEF OpenJoined, serverVars
<1>4. CASE JoinInvite
 BY <1>4, StepConfirms DEF JoinInvite, serverVars
<1>5. CASE AccountSwitch(InviteClosed)
 BY <1>5, InviteClosedPlan, StepSwitches
<1>6. CASE Surroundings
 BY <1>6, StepOfSurroundings
<1>7. ASSUME NEW call \in calls, InviteReady(call) PROVE Steps
 <2>1. call.version \in Version \/ call.phase = "failed"
  BY <1>7 DEF InviteReady, Takes, Answers, DialogInv, CallsInv
 <2>2. Planned(prompt')
  BY <1>0, <1>7, <2>1 DEF InviteReady, Planned, MaybeVersion
 <2> QED BY <1>7, <2>2, StepReads DEF InviteReady, Takes, serverVars
<1>8. ASSUME NEW call \in calls, InviteJoined(call) PROVE Steps
 <2>1. \/ prompt' = InviteClosed
       \/ prompt' = [prompt EXCEPT !.settled = TRUE]
  BY <1>8 DEF InviteJoined
 <2>2. Planned(prompt')
  <3>1. CASE prompt' = InviteClosed
   BY <3>1, InviteClosedPlan
  <3>2. CASE prompt' = [prompt EXCEPT !.settled = TRUE]
   BY <1>0, <3>2, PlanKept
  <3> QED BY <2>1, <3>1, <3>2
 <2> QED BY <1>8, <2>2, StepReads DEF InviteJoined, Takes, serverVars
<1>9. ASSUME NEW call \in calls, InvitePreviewed(call) PROVE Steps
 <2>1. PICK m : m = [call EXCEPT !.phase = "done", !.version = server.version,
                                 !.detail.member = server.text = Member]
  OBVIOUS
 <2>2. CallShape(call) /\ server.version \in Version
  BY DEF DialogInv, CallsInv, ServerShape, HoldsVersion
 <2>3. CallShape(m) /\ m.id = call.id /\ m.acts = call.acts /\ m.version = server.version
  BY <2>1, <2>2 DEF CallShape, MaybeVersion, Phases
 <2>4. Becomes(call, m) /\ ~call.acts /\ UNCHANGED <<terminalVars, serverVars>>
  BY <1>9, <2>1 DEF InvitePreviewed
 <2> QED BY <2>2, <2>3, <2>4, StepLookUpMoves
<1>10. ASSUME NEW call \in calls, AlreadyMember(call) PROVE Steps
 <2>1. PICK m : m = [call EXCEPT !.phase = "done", !.detail.member = TRUE]
  OBVIOUS
 <2>2. CallShape(call)
  BY DEF DialogInv, CallsInv
 <2>3. CallShape(m) /\ m.id = call.id /\ m.acts = call.acts /\ m.version = call.version
       /\ m.phase = "done"
  BY <2>1, <2>2 DEF CallShape, Phases
 <2>4. Becomes(call, m) /\ call.acts /\ UnderWay(call)
       /\ UNCHANGED <<terminalVars, server, told, carried>>
  BY <1>10, <2>1 DEF AlreadyMember, UnderWay, serverVars
 <2> QED BY <2>3, <2>4, StepGivesUp
<1>11. ASSUME NEW call \in calls, RecheckInvite(call) PROVE Steps
 BY <1>11, StepVerifies DEF RecheckInvite
<1>12. ASSUME NEW call \in calls, ImportChatInvite(call) PROVE Steps
 <2>1. PICK b \in BOOLEAN, phase \in {"done", "failed"} :
         /\ Becomes(call, [call EXCEPT !.phase = phase, !.detail.member = b])
         /\ server' = [server EXCEPT !.text = IF b THEN Member ELSE @]
  BY <1>12 DEF ImportChatInvite
 <2>2. PICK m : m = [call EXCEPT !.phase = phase, !.detail.member = b]
  OBVIOUS
 <2>3. CallShape(call) /\ phase \in Phases
  BY DEF DialogInv, CallsInv, Phases
 <2>4. CallShape(m) /\ m.id = call.id /\ m.acts = call.acts /\ m.version = call.version
       /\ m.phase = phase
  BY <2>2, <2>3 DEF CallShape
 <2>5. ServerShape'
  BY <2>1 DEF DialogInv, ServerShape, HoldsVersion
 <2>6. Becomes(call, m) /\ call.acts /\ call.phase = "checked" /\ carried' = carried + 1
       /\ UNCHANGED <<terminalVars, told>>
  BY <1>12, <2>1, <2>2 DEF ImportChatInvite
 <2> QED BY <2>4, <2>5, <2>6, StepCarriesOut
<1> QED BY <1>1, <1>2, <1>3, <1>4, <1>5, <1>6, <1>7, <1>8, <1>9, <1>10, <1>11, <1>12
        DEF InviteNext

(* A chat is joined only by the preview that the user saw, previewed again
   before the server is asked, and at most once for a confirmation
   (app/invites.rs, telegram/invites.rs). *)
THEOREM InviteActsAsReviewed == InviteSpec => ActsAsReviewed
<1>1. InviteInit => DialogInv /\ Reviewed!Init
 BY InviteClosedPlan, StartsReviewed DEF InviteInit
<1>2. DialogInv /\ [InviteNext]_dialogVars
        => DialogInv' /\ [Reviewed!Next]_(Reviewed!reviewedVars)
 BY InviteStep, Unchanging DEF Steps
<1> QED BY <1>1, <1>2, PTL DEF InviteSpec, ActsAsReviewed, Reviewed!Spec

-----------------------------------------------------------------------------
(* Polls.                                                                    *)

PollSpec == PollInit /\ [][PollNext]_dialogVars

(* A review that is open shows a definition of the poll. *)
Reviewing(p) ==
    /\ Planned(p)
    /\ {"open", "picked", "ready"} \subseteq DOMAIN p
    /\ p.open => p.plan \in Version

PollInv == DialogInv /\ Reviewing(prompt)

LEMMA PollClosedPlan == Reviewing(PollClosed) /\ PollClosed.plan = NoVersion
  BY NothingPlanned DEF Reviewing, Planned, PollClosed

LEMMA ReviewKept ==
  ASSUME NEW p, Reviewing(p)
  PROVE  /\ Reviewing([p EXCEPT !.ready = FALSE])
         /\ Reviewing([p EXCEPT !.picked = NoVersion])
         /\ Reviewing([p EXCEPT !.picked = NoVersion, !.ready = FALSE])
         /\ Reviewing([p EXCEPT !.picked = p.plan])
  BY DEF Reviewing, Planned

LEMMA ShownPlan ==
  ASSUME NEW p, Reviewing(p), NEW v \in Version, NEW loaded \in BOOLEAN
  PROVE  /\ Reviewing(Shown(p, v, loaded))
         /\ \A b \in BOOLEAN : Reviewing([Shown(p, v, loaded) EXCEPT !.ready = b])
  BY DEF Reviewing, Planned, Shown, MaybeVersion

LEMMA StepLoadsPoll ==
  ASSUME DialogInv, NEW p, Reviewing(p), ~pending.saving, LoadPoll(p),
         UNCHANGED <<server, told, carried>>
  PROVE  Steps /\ Reviewing(prompt')
<1>1. CASE online
 <2>1. Reviewing(prompt') /\ Submit(FALSE, NoVersion, told)
  BY <1>1, ReviewKept DEF LoadPoll
 <2> QED BY <2>1, StepLooksUp DEF Reviewing
<1>2. CASE ~online
 BY <1>2, StepKeepsCalls DEF LoadPoll, DialogInv, Reviewing
<1> QED BY <1>1, <1>2

LEMMA PollStep ==
  ASSUME PollInv, PollNext
  PROVE  Steps /\ Reviewing(prompt')
<1>0. /\ DialogInv /\ Reviewing(prompt) /\ told \in Nat \ {0}
      /\ server.version \in Version /\ Version \subseteq Nat
      /\ server.gone \in BOOLEAN
 BY DEF PollInv, DialogInv, ServerShape, HoldsVersion, Version
<1>1. CASE BeginPoll
 <2>1. PICK row \in told..server.version :
         LoadPoll([PollClosed EXCEPT !.open = TRUE, !.plan = row])
  BY <1>1 DEF BeginPoll
 <2>2. row \in Version
  BY <1>0, DialogBounds DEF Version
 <2>3. Reviewing([PollClosed EXCEPT !.open = TRUE, !.plan = row])
  BY <2>2 DEF Reviewing, Planned, PollClosed, MaybeVersion
 <2>4. ~pending.saving /\ UNCHANGED <<server, told, carried>>
  BY <1>1 DEF BeginPoll, serverVars
 <2> QED BY <1>0, <2>1, <2>3, <2>4, StepLoadsPoll
<1>2. CASE RefreshReview
 <2>1. ~pending.saving /\ LoadPoll(prompt) /\ UNCHANGED <<server, told, carried>>
  BY <1>2 DEF RefreshReview, Idle, NoPending, serverVars
 <2> QED BY <1>0, <2>1, StepLoadsPoll
<1>3. CASE PickAnswers
 <2>1. Reviewing(prompt')
  BY <1>0, <1>3, ReviewKept DEF PickAnswers
 <2> QED BY <1>0, <1>3, <2>1, StepKeepsCalls DEF Reviewing, PickAnswers, serverVars
<1>4. CASE SubmitVote
 <2>1. prompt.plan # NoVersion
  BY <1>0, <1>4 DEF SubmitVote, Reviewing, Version, NoVersion
 <2> QED BY <1>0, <1>4, <2>1, StepConfirms DEF SubmitVote, serverVars
<1>5. CASE ClosePoll
 <2>1. Reviewing(prompt')
  BY <1>0, <1>5, PollClosedPlan DEF ClosePoll, LetGo
 <2> QED BY <1>0, <1>5, <2>1, PollClosedPlan, StepLetsGo DEF ClosePoll, Reviewing
<1>6. CASE PollTold
 <2>1. told' = told + 1 /\ UNCHANGED <<nextRequest, calls, server, carried>>
       /\ told' \in Nat \ {0}
  BY <1>0, <1>6 DEF PollTold
 <2>2. CASE ~prompt.open
  BY <1>0, <1>6, <2>1, <2>2, StepKeepsCalls DEF Reviewing, PollTold
 <2>3. CASE prompt.open /\ told' > server.version
  <3>1. Reviewing(prompt') /\ (pending' = pending \/ (~pending.saving /\ pending' = NoPending))
   BY <1>0, <1>6, <2>3, ReviewKept DEF PollTold
  <3> QED BY <1>0, <2>1, <3>1, StepKeepsCalls DEF Reviewing
 <2>4. CASE prompt.open /\ ~(told' > server.version)
  <3>1. told' \in Version
   BY <1>0, <2>1, <2>4, DialogBounds DEF Version
  <3>2. prompt' = Shown(prompt, told', FALSE) /\ pending' = pending
   BY <1>6, <2>4 DEF PollTold
  <3>3. Reviewing(prompt')
   BY <1>0, <3>1, <3>2, ShownPlan
  <3> QED BY <1>0, <2>1, <3>2, <3>3, StepKeepsCalls DEF Reviewing
 <2> QED BY <2>2, <2>3, <2>4
<1>7. CASE PollInvalidated
 <2>1. Reviewing(prompt') /\ (pending' = pending \/ (~pending.saving /\ pending' = NoPending))
  BY <1>0, <1>7, ReviewKept DEF PollInvalidated
 <2> QED BY <1>0, <1>7, <2>1, StepKeepsCalls DEF Reviewing, PollInvalidated, serverVars
<1>8. CASE AccountSwitch(PollClosed)
 BY <1>0, <1>8, PollClosedPlan, StepSwitches DEF Reviewing, AccountSwitch
<1>9. CASE Surroundings
 BY <1>0, <1>9, StepOfSurroundings, SurroundingsKeepPrompt
<1>10. ASSUME NEW call \in calls, PollLoaded(call) PROVE Steps /\ Reviewing(prompt')
 <2>1. call.version \in Version \/ call.phase = "failed"
  BY <1>0, <1>10 DEF PollLoaded, Takes, Answers, DialogInv, CallsInv
 <2>2. ~ToldGone => told \in Version
  BY <1>0, DialogBounds DEF ToldGone, Version
 <2>3. Reviewing(prompt')
  <3>1. CASE call.phase = "failed"
   BY <1>0, <1>10, <3>1 DEF PollLoaded
  <3>2. CASE call.phase # "failed"
   <4>1. PICK v \in Version, b \in BOOLEAN : prompt' = [Shown(prompt, v, TRUE) EXCEPT !.ready = b]
    BY <1>10, <2>1, <2>2, <3>2 DEF PollLoaded
   <4> QED BY <1>0, <4>1, ShownPlan
  <3> QED BY <3>1, <3>2
 <2> QED BY <1>0, <1>10, <2>3, StepReads DEF PollLoaded, Takes, serverVars, Reviewing
<1>11. ASSUME NEW call \in calls, VoteFinished(call) PROVE Steps /\ Reviewing(prompt')
 <2>1. PICK p, l : Reviewing(p) /\ Reviewing(l)
                   /\ (Settles(call, p) \/ SettlesAndLooks(call, p, l, told))
  <3>1. CASE Settles(call, [prompt EXCEPT !.ready = FALSE])
   BY <1>0, <3>1, ReviewKept
  <3>2. CASE Settles(call, PollClosed)
   BY <3>2, PollClosedPlan
  <3>3. CASE SettlesAndLooks(call, [prompt EXCEPT !.picked = NoVersion],
                             [prompt EXCEPT !.picked = NoVersion, !.ready = FALSE], told)
   BY <1>0, <3>3, ReviewKept
  <3> QED BY <1>11, <3>1, <3>2, <3>3 DEF VoteFinished
 <2>2. UNCHANGED <<server, told, carried>>
  BY <1>11 DEF VoteFinished, serverVars
 <2>3. Steps
  BY <1>0, <2>1, <2>2, StepSettles DEF Reviewing
 <2>4. prompt' \in {p, l}
  BY <2>1 DEF Settles, SettlesAndLooks
 <2> QED BY <2>1, <2>3, <2>4
<1>12. ASSUME NEW call \in calls, PollFetched(call) PROVE Steps /\ Reviewing(prompt')
 BY <1>0, <1>12, StepAnswersVersion DEF PollFetched, terminalVars
<1>13. ASSUME NEW call \in calls, RecheckPoll(call) PROVE Steps /\ Reviewing(prompt')
 BY <1>0, <1>13, StepVerifies DEF RecheckPoll, terminalVars
<1>14. ASSUME NEW call \in calls, SendVote(call) PROVE Steps /\ Reviewing(prompt')
 <2>1. ServerShape'
  BY <1>0, <1>14 DEF SendVote, DialogInv, ServerShape
 <2> QED BY <1>0, <1>14, <2>1, StepActs DEF SendVote, terminalVars
<1> QED BY <1>1, <1>2, <1>3, <1>4, <1>5, <1>6, <1>7, <1>8, <1>9, <1>10, <1>11, <1>12, <1>13,
<1>14 DEF PollNext

(* A vote is sent only for the definition of the poll that the user saw, found
   current again, and at most once for a confirmation (app/polls.rs,
   telegram/polls.rs). *)
THEOREM PollActsAsReviewed == PollSpec => ActsAsReviewed
<1>1. PollInit => PollInv /\ Reviewed!Init
 BY PollClosedPlan, StartsReviewed DEF PollInit, PollInv, Reviewing, DialogInit
<1>2. PollInv /\ [PollNext]_dialogVars
        => PollInv' /\ [Reviewed!Next]_(Reviewed!reviewedVars)
 <2>1. CASE PollNext
  BY <2>1, PollStep DEF PollInv, Steps
 <2>2. CASE UNCHANGED dialogVars
  BY <2>2, Unchanging DEF PollInv, dialogVars
 <2> QED BY <2>1, <2>2
<1> QED BY <1>1, <1>2, PTL DEF PollSpec, ActsAsReviewed, Reviewed!Spec

-----------------------------------------------------------------------------
(* Reactions.                                                                *)

ReactionSpec == ReactionInit /\ [][ReactionNext]_dialogVars

LEMMA PanelClosedPlan == Planned(PanelClosed) /\ PanelClosed.plan = NoVersion
  BY NothingPlanned DEF Planned, PanelClosed

LEMMA StepLoadsReactions ==
  ASSUME DialogInv, NEW p, Planned(p), ~pending.saving, LoadReactions(p),
         UNCHANGED <<server, told, carried>>
  PROVE  Steps
<1>1. Planned(prompt')
 BY DEF LoadReactions, Planned
<1>2. CASE online
 BY <1>1, <1>2, StepLooksUp DEF LoadReactions
<1>3. CASE ~online
 BY <1>1, <1>3, StepKeepsCalls DEF LoadReactions, DialogInv
<1> QED BY <1>2, <1>3

LEMMA ReactionStep ==
  ASSUME DialogInv, ReactionNext
  PROVE  Steps
<1>0. Planned(prompt) /\ told \in Nat \ {0} /\ server.version \in Version
      /\ Version \subseteq Nat /\ server.gone \in BOOLEAN
 BY DEF DialogInv, ServerShape, HoldsVersion, Version
<1>1. CASE BeginReactions
 <2>1. Planned([PanelClosed EXCEPT !.open = TRUE])
  BY NothingPlanned DEF Planned, PanelClosed
 <2>2. ~pending.saving /\ UNCHANGED <<server, told, carried>>
       /\ LoadReactions([PanelClosed EXCEPT !.open = TRUE])
  BY <1>1 DEF BeginReactions, serverVars
 <2> QED BY <2>1, <2>2, StepLoadsReactions
<1>2. CASE RefreshPanel
 <2>1. ~pending.saving /\ LoadReactions(prompt) /\ UNCHANGED <<server, told, carried>>
  BY <1>2 DEF RefreshPanel, Idle, NoPending, serverVars
 <2> QED BY <1>0, <2>1, StepLoadsReactions
<1>3. CASE ChangeReaction
 BY <1>3, StepConfirms DEF ChangeReaction, serverVars
<1>4. CASE CloseReactions
 BY <1>4, PanelClosedPlan, StepLetsGo DEF CloseReactions
<1>5. CASE ReactionsTold
 <2>1. told' = told + 1 /\ UNCHANGED <<nextRequest, calls, server, carried>>
       /\ told' \in Nat \ {0}
  BY <1>0, <1>5 DEF ReactionsTold
 <2>2. pending' = pending \/ (~pending.saving /\ pending' = NoPending)
  BY <1>5 DEF ReactionsTold
 <2>3. Planned(prompt')
  <3>1. CASE ~prompt.open
   BY <1>0, <1>5, <3>1 DEF ReactionsTold
  <3>2. CASE prompt.open /\ told' > server.version
   BY <1>0, <1>5, <3>2 DEF ReactionsTold, Planned
  <3>3. CASE prompt.open /\ ~(told' > server.version)
   <4>1. told' \in Version
    BY <1>0, <2>1, <3>3, DialogBounds DEF Version
   <4> QED BY <1>0, <1>5, <3>3, <4>1 DEF ReactionsTold, Planned, MaybeVersion
  <3> QED BY <3>1, <3>2, <3>3
 <2> QED BY <2>1, <2>2, <2>3, StepKeepsCalls
<1>6. CASE ReactionsInvalidated
 <2>1. Planned(prompt') /\ (pending' = pending \/ (~pending.saving /\ pending' = NoPending))
  BY <1>0, <1>6 DEF ReactionsInvalidated, Planned
 <2> QED BY <1>0, <1>6, <2>1, StepKeepsCalls DEF ReactionsInvalidated, serverVars
<1>7. CASE AccountSwitch(PanelClosed)
 BY <1>7, PanelClosedPlan, StepSwitches
<1>8. CASE Surroundings
 BY <1>8, StepOfSurroundings
<1>9. ASSUME NEW call \in calls, ReactionsLoaded(call) PROVE Steps
 <2>1. call.version \in Version \/ call.phase = "failed"
  BY <1>9 DEF ReactionsLoaded, Takes, Answers, DialogInv, CallsInv
 <2>2. ~ToldGone => told \in Version
  BY <1>0, DialogBounds DEF ToldGone, Version
 <2>3. Planned(prompt')
  BY <1>0, <1>9, <2>1, <2>2 DEF ReactionsLoaded, Replayed, Planned, MaybeVersion
 <2> QED BY <1>9, <2>3, StepReads DEF ReactionsLoaded, Takes, serverVars
<1>10. ASSUME NEW call \in calls, ReactionsFinished(call) PROVE Steps
 <2>1. PICK p, l : Planned(p) /\ Planned(l)
                   /\ (Settles(call, p) \/ SettlesAndLooks(call, p, l, told))
  <3>1. Planned([prompt EXCEPT !.ready = FALSE])
   BY <1>0 DEF Planned
  <3> QED BY <1>10, <3>1, PanelClosedPlan DEF ReactionsFinished
 <2>2. UNCHANGED <<server, told, carried>>
  BY <1>10 DEF ReactionsFinished, serverVars
 <2> QED BY <2>1, <2>2, StepSettles
<1>11. ASSUME NEW call \in calls, ReactionsReviewed(call) PROVE Steps
 BY <1>11, StepAnswersVersion DEF ReactionsReviewed
<1>12. ASSUME NEW call \in calls, RecheckReactions(call) PROVE Steps
 BY <1>12, StepVerifies DEF RecheckReactions
<1>14. ASSUME NEW call \in calls, ReactionsAnswered(call) PROVE Steps
 <2>1. Replayed(call) \in MaybeVersion
  BY <1>0, <1>14, DialogBounds
     DEF ReactionsAnswered, Replayed, DialogInv, CallsInv, ToldGone, Version, MaybeVersion
 <2> QED BY <1>0, <1>14, <2>1, StepReads DEF ReactionsAnswered, Planned, serverVars
<1>13. ASSUME NEW call \in calls, SendReactions(call) PROVE Steps
 <2>1. server' = [server EXCEPT !.version = @ + 1] /\ server.version < MaxVersion
  BY <1>13 DEF SendReactions
 <2>2. ServerShape'
  BY <2>1, DialogBounds DEF DialogInv, ServerShape, HoldsVersion, Version
 <2> QED BY <1>13, <2>2, StepActs DEF SendReactions
<1> QED BY <1>1, <1>2, <1>3, <1>4, <1>5, <1>6, <1>7, <1>8, <1>9, <1>10, <1>11, <1>12, <1>13, <1>14
        DEF ReactionNext

(* Reactions are changed only for the choices that the user saw, found current
   again, and a change is carried out at most once for a confirmation, so that
   no toggle undoes itself (app/reactions.rs, telegram/reactions.rs). *)
THEOREM ReactionActsAsReviewed == ReactionSpec => ActsAsReviewed
<1>1. ReactionInit => DialogInv /\ Reviewed!Init
 BY PanelClosedPlan, StartsReviewed DEF ReactionInit
<1>2. DialogInv /\ [ReactionNext]_dialogVars
        => DialogInv' /\ [Reviewed!Next]_(Reviewed!reviewedVars)
 BY ReactionStep, Unchanging DEF Steps
<1> QED BY <1>1, <1>2, PTL DEF ReactionSpec, ActsAsReviewed, Reviewed!Spec

-----------------------------------------------------------------------------
(* Pasting. Whatever carries a paste also carries the place it is meant for,  *)
(* and the read that the broker waits for has a number that no other had.     *)

Places == [account : Owner, place : Spot]
Reservation == [at : Places \cup {NoSpot}, id : Nat]
Read == [id : Nat, wants : {"none", "types", "data"}, for : Reservation, paste : Nat]
PasteOrder == [at : Places, id : Nat, paste : Nat, input : {"paths", "clipboard", "payload"}]
Outcome == [at : Places, id : Nat, ok : BOOLEAN, paste : Nat]
Task == [order : PasteOrder \cup {NoJob}, expired : BOOLEAN, timed : BOOLEAN]

PastesAreCounted ==
    /\ account \in Owner /\ place \in Spot
    /\ meant \in Seq(Places) /\ Len(meant) = pastes
WorkShape ==
    /\ orders \in Seq(PasteOrder) /\ results \in Seq(Outcome)
    /\ threads \subseteq PasteOrder /\ job \in Task
ReadsShape == nextDraft \in Nat /\ nextRead \in Nat /\ broker \in Read /\ reads \subseteq Read

Meant(spots, at, paste) == paste \in 1 .. Len(spots) /\ at = spots[paste]
OrderMeant(spots, order) == Meant(spots, order.at, order.paste)

ReadsAreMeant(spots) ==
    /\ \A read \in reads :
          /\ read.id \in 1 .. nextRead
          /\ read.id = broker.id => read.paste = broker.paste
    /\ \/ broker.id = 0
       \/ broker.id \in 1 .. nextRead /\ Meant(spots, broker.for.at, broker.paste)

WorkIsMeant(spots) ==
    /\ \A i \in 1 .. Len(orders) : OrderMeant(spots, orders[i])
    /\ \A i \in 1 .. Len(results) : OrderMeant(spots, results[i])
    /\ \A order \in threads : OrderMeant(spots, order)
    /\ job = NoTask \/ OrderMeant(spots, job.order)

LandedAsMeant(spots) ==
    \A l \in landed : \E paste \in 1 .. Len(spots) : l = <<paste, spots[paste]>>

PastingInv ==
    /\ PastesAreCounted /\ ReadsShape /\ WorkShape
    /\ ReadsAreMeant(meant) /\ WorkIsMeant(meant) /\ LandedAsMeant(meant)

LEMMA PasteIsMeant ==
  ASSUME PastesAreCounted, Pasted, UNCHANGED hereVars
  PROVE  /\ PastesAreCounted' /\ Here \in Places
         /\ pastes + 1 \in Nat /\ Meant(meant', Here, pastes + 1)
<1>1. meant \in Seq(Places) /\ Len(meant) = pastes /\ Here \in Places
 BY DEF PastesAreCounted, Places, Here
<1>2. meant' = Append(meant, Here) /\ pastes' = pastes + 1
 BY DEF Pasted
<1>3. /\ meant' \in Seq(Places) /\ Len(meant') = Len(meant) + 1 /\ Len(meant) \in Nat
      /\ meant'[Len(meant) + 1] = Here
 BY <1>1, <1>2
<1> QED BY <1>1, <1>2, <1>3 DEF PastesAreCounted, Meant, hereVars

LEMMA MeantStays ==
  ASSUME PastesAreCounted, meant' = meant \/ Pasted,
         NEW at, NEW paste, Meant(meant, at, paste)
  PROVE  Meant(meant', at, paste)
<1>1. meant \in Seq(Places) /\ Here \in Places
 BY DEF PastesAreCounted, Places, Here
<1>2. CASE Pasted
 <2>1. Len(Append(meant, Here)) = Len(meant) + 1 /\ Len(meant) \in Nat
       /\ \A i \in 1 .. Len(meant) : Append(meant, Here)[i] = meant[i]
  BY <1>1
 <2> QED BY <1>2, <2>1 DEF Pasted, Meant
<1> QED BY <1>2

LEMMA WorkIsLeft ==
  ASSUME PastesAreCounted, meant' = meant \/ Pasted, WorkShape, WorkIsMeant(meant),
         UNCHANGED workerPasteVars
  PROVE  WorkShape' /\ WorkIsMeant(meant)'
BY MeantStays DEF WorkShape, WorkIsMeant, OrderMeant, workerPasteVars

LEMMA ReadsAreLeft ==
  ASSUME PastesAreCounted, meant' = meant \/ Pasted, ReadsShape, ReadsAreMeant(meant),
         nextDraft' \in Nat, UNCHANGED <<broker, nextRead, reads>>
  PROVE  ReadsShape' /\ ReadsAreMeant(meant)'
BY MeantStays DEF ReadsShape, ReadsAreMeant

LEMMA LandedIsLeft ==
  ASSUME PastesAreCounted, meant' = meant \/ Pasted, LandedAsMeant(meant),
         NEW at, NEW paste, landed' = landed \/ landed' = landed \cup {<<paste, at>>},
         landed' # landed => Meant(meant', at, paste)
  PROVE  LandedAsMeant(meant)'
<1>1. \A l \in landed : \E p \in 1 .. Len(meant') : l = <<p, meant'[p]>>
 <2> SUFFICES ASSUME NEW l \in landed PROVE \E p \in 1 .. Len(meant') : l = <<p, meant'[p]>>
  OBVIOUS
 <2>1. PICK p \in 1 .. Len(meant) : l = <<p, meant[p]>>
  BY DEF LandedAsMeant
 <2>2. Meant(meant', meant[p], p)
  BY MeantStays DEF Meant
 <2> QED BY <2>1, <2>2 DEF Meant
<1>2. CASE landed' = landed
 BY <1>1, <1>2 DEF LandedAsMeant
<1>3. CASE landed' # landed
 BY <1>1, <1>3 DEF LandedAsMeant, Meant
<1> QED BY <1>2, <1>3

LEMMA NotLanded ==
  ASSUME PastesAreCounted, meant' = meant \/ Pasted, LandedAsMeant(meant), UNCHANGED landed
  PROVE  LandedAsMeant(meant)'
BY LandedIsLeft

LEMMA FailureLands == \A read : FailDestination(read) => UNCHANGED landed
BY DEF FailDestination, AttachmentsArePrepared

(* A queue of orders or results, of which one is taken or added. *)
LEMMA Queued ==
  ASSUME NEW S, NEW s \in Seq(S), NEW a \in S
  PROVE  /\ Append(s, a) \in Seq(S) /\ Len(Append(s, a)) = Len(s) + 1 /\ Len(s) \in Nat
         /\ \A i \in 1 .. Len(Append(s, a)) : Append(s, a)[i] = IF i <= Len(s) THEN s[i] ELSE a
OBVIOUS

LEMMA Taken ==
  ASSUME NEW S, NEW s \in Seq(S), s # <<>>
  PROVE  /\ Tail(s) \in Seq(S) /\ Len(Tail(s)) = Len(s) - 1 /\ Len(s) \in Nat /\ Len(s) >= 1
         /\ Head(s) = s[1] /\ Head(s) \in S
         /\ \A i \in 1 .. Len(Tail(s)) : Tail(s)[i] = s[i + 1]
OBVIOUS

LEMMA OrderedIsMeant ==
  ASSUME PastesAreCounted, meant' = meant \/ Pasted, WorkShape, WorkIsMeant(meant),
         NEW order \in PasteOrder, OrderMeant(meant', order), orders' = Append(orders, order),
         UNCHANGED <<job, threads, results>>
  PROVE  WorkShape' /\ WorkIsMeant(meant)'
<1>1. orders \in Seq(PasteOrder)
 BY DEF WorkShape
<1>2. WorkShape'
 BY <1>1, Queued DEF WorkShape
<1>3. \A i \in 1 .. Len(orders') : OrderMeant(meant', orders'[i])
 <2> SUFFICES ASSUME NEW i \in 1 .. Len(orders') PROVE OrderMeant(meant', orders'[i])
  OBVIOUS
 <2>1. Len(orders') = Len(orders) + 1 /\ Len(orders) \in Nat
       /\ orders'[i] = IF i <= Len(orders) THEN orders[i] ELSE order
  BY <1>1, Queued
 <2>2. CASE i <= Len(orders)
  <3>1. OrderMeant(meant, orders[i])
   BY <2>1, <2>2 DEF WorkIsMeant
  <3> QED BY <2>1, <2>2, <3>1, MeantStays DEF OrderMeant
 <2>3. CASE ~(i <= Len(orders))
  BY <2>1, <2>3
 <2> QED BY <2>2, <2>3
<1> QED BY <1>2, <1>3, MeantStays DEF WorkIsMeant, OrderMeant

LEMMA ResultIsMeant ==
  ASSUME NEW spots, WorkShape, WorkIsMeant(spots), NEW result \in Outcome,
         OrderMeant(spots, result)
  PROVE  /\ Append(results, result) \in Seq(Outcome)
         /\ \A i \in 1 .. Len(Append(results, result)) :
               OrderMeant(spots, Append(results, result)[i])
<1>1. results \in Seq(Outcome)
 BY DEF WorkShape
<1>2. /\ Append(results, result) \in Seq(Outcome) /\ Len(results) \in Nat
      /\ Len(Append(results, result)) = Len(results) + 1
      /\ \A i \in 1 .. Len(Append(results, result)) :
            Append(results, result)[i] = IF i <= Len(results) THEN results[i] ELSE result
 BY <1>1, Queued
<1>3. \A i \in 1 .. Len(results) : OrderMeant(spots, results[i])
 BY DEF WorkIsMeant
<1> QED BY <1>2, <1>3

LEMMA PastingBegins == PastingInit => PastingInv
<1> SUFFICES ASSUME PastingInit PROVE PastingInv
 OBVIOUS
<1>1. PastesAreCounted
 BY DEF PastingInit, PastesAreCounted
<1>2. ReadsShape /\ ReadsAreMeant(meant)
 <2>1. NoReservation \in Reservation
  BY DEF NoReservation, Reservation
 <2>2. NoRead \in Read
  BY <2>1 DEF NoRead, Read
 <2> QED BY <2>2 DEF PastingInit, ReadsShape, ReadsAreMeant, NoRead
<1>3. WorkShape /\ WorkIsMeant(meant)
 <2>1. NoTask \in Task
  BY DEF NoTask, Task
 <2> QED BY <2>1 DEF PastingInit, WorkShape, WorkIsMeant
<1>4. LandedAsMeant(meant)
 BY DEF PastingInit, LandedAsMeant
<1> QED BY <1>1, <1>2, <1>3, <1>4 DEF PastingInv

(* The user pastes. *)
LEMMA PastingKeeps ==
  ASSUME PastingInv, AttachInput \/ PasteAsText \/ PasteRemotely \/ PasteAnnounced
  PROVE  PastingInv'
<1>0. /\ PastesAreCounted /\ ReadsShape /\ WorkShape
      /\ ReadsAreMeant(meant) /\ WorkIsMeant(meant) /\ LandedAsMeant(meant)
 BY DEF PastingInv
<1>1. Pasted /\ UNCHANGED hereVars
 BY DEF AttachInput, PasteAsText, PasteRemotely, PasteAnnounced
<1>2. /\ PastesAreCounted' /\ Here \in Places
      /\ pastes + 1 \in Nat /\ Meant(meant', Here, pastes + 1)
 BY <1>0, <1>1, PasteIsMeant
<1>3. nextDraft + 1 \in Nat /\ nextDraft \in Nat
 BY <1>0 DEF ReadsShape
<1>4. CASE AttachInput
 <2>1. PICK input \in {"paths", "clipboard"} : orders' = Append(orders, Preparation(input))
  BY <1>4 DEF AttachInput
 <2>2. Preparation(input) \in PasteOrder
  BY <1>2, <1>3 DEF Preparation, PasteOrder
 <2>3. OrderMeant(meant', Preparation(input))
  BY <1>2 DEF OrderMeant, Preparation
 <2>4. UNCHANGED <<job, threads, results, landed, broker, nextRead, reads>>
       /\ nextDraft' = nextDraft + 1
  BY <1>4 DEF AttachInput, Reserves
 <2> QED BY <1>0, <1>1, <1>2, <1>3, <2>1, <2>2, <2>3, <2>4, OrderedIsMeant, ReadsAreLeft,
         NotLanded DEF PastingInv
<1>5. CASE PasteAsText
 <2>1. UNCHANGED <<nextDraft, broker, nextRead, reads, workerPasteVars>>
       /\ landed' = landed \cup {<<pastes + 1, Here>>}
  BY <1>5 DEF PasteAsText, appPasteVars
 <2>2. LandedAsMeant(meant)'
  BY <1>0, <1>1, <1>2, <2>1, LandedIsLeft
 <2> QED BY <1>0, <1>1, <1>2, <1>3, <2>1, <2>2, WorkIsLeft, ReadsAreLeft DEF PastingInv
<1>6. CASE PasteRemotely \/ PasteAnnounced
 <2>1. UNCHANGED <<workerPasteVars, landed>> /\ nextDraft' \in {nextDraft, nextDraft + 1}
  BY <1>6 DEF PasteRemotely, PasteAnnounced, Reserves, appPasteVars
 <2>2. \/ UNCHANGED <<broker, nextRead, reads>>
       \/ \E wants \in {"types", "data"}, id \in {0, nextDraft + 1} :
             Enqueue(wants, [at |-> Here, id |-> id], pastes + 1)
  BY <1>6 DEF PasteRemotely, PasteAnnounced, Reserves
 <2>3. ReadsShape' /\ ReadsAreMeant(meant)'
  <3>1. CASE UNCHANGED <<broker, nextRead, reads>>
   BY <1>0, <1>1, <1>3, <2>1, <3>1, ReadsAreLeft
  <3>2. ASSUME NEW wants \in {"types", "data"}, NEW id \in {0, nextDraft + 1},
               Enqueue(wants, [at |-> Here, id |-> id], pastes + 1)
        PROVE  ReadsShape' /\ ReadsAreMeant(meant)'
   <4> DEFINE for == [at |-> Here, id |-> id]
   <4>1. /\ nextRead' = nextRead + 1 /\ reads' = reads \cup {broker'}
         /\ broker' = [id |-> nextRead + 1, wants |-> wants, for |-> for, paste |-> pastes + 1]
    BY <3>2 DEF Enqueue
   <4>2. id \in Nat /\ nextRead \in Nat
    BY <1>0, <1>3 DEF ReadsShape
   <4>3. for \in Reservation
    BY <1>2, <4>2 DEF Reservation
   <4> HIDE DEF for
   <4>4. broker' \in Read /\ broker'.id = nextRead + 1 /\ broker'.paste = pastes + 1
         /\ broker'.for = for
    BY <1>2, <4>1, <4>2, <4>3 DEF Read
   <4>5. ReadsShape'
    BY <1>0, <1>3, <2>1, <4>1, <4>2, <4>4 DEF ReadsShape
   <4>6. for.at = Here
    BY DEF for
   <4> QED BY <1>0, <1>2, <4>1, <4>2, <4>4, <4>5, <4>6 DEF ReadsAreMeant
  <3> QED BY <2>2, <3>1, <3>2
 <2> QED BY <1>0, <1>1, <1>2, <2>1, <2>3, WorkIsLeft, NotLanded DEF PastingInv
<1> QED BY <1>4, <1>5, <1>6

(* The emulator answers, or does not. *)
LEMMA BrokerKeeps ==
  ASSUME PastingInv, TypesArrive \/ DataArrives \/ LateAnswer \/ PasteFails
  PROVE  PastingInv'
<1>0. /\ PastesAreCounted /\ ReadsShape /\ WorkShape
      /\ ReadsAreMeant(meant) /\ WorkIsMeant(meant) /\ LandedAsMeant(meant)
 BY DEF PastingInv
<1>1. /\ UNCHANGED <<account, place, meant, pastes, nextDraft, job, threads, results>>
      /\ UNCHANGED pasteBounds
 BY DEF TypesArrive, DataArrives, LateAnswer, PasteFails, hereVars, appPasteVars, workerPasteVars,
    pasteBounds
<1>2. PastesAreCounted'
 BY <1>0, <1>1 DEF PastesAreCounted
<1>3. NoRead \in Read /\ NoRead.id = 0
 BY DEF NoRead, Read, Reservation, NoReservation
<1>4. ASSUME broker' \in {broker, NoRead}, reads' \subseteq reads, UNCHANGED nextRead
      PROVE  ReadsShape' /\ ReadsAreMeant(meant)'
 <2>1. nextRead \in Nat
  BY <1>0 DEF ReadsShape
 <2> QED BY <1>0, <1>1, <1>3, <1>4, <2>1 DEF ReadsShape, ReadsAreMeant
<1>5. CASE LateAnswer \/ PasteFails
 <2>1. /\ broker' \in {broker, NoRead} /\ reads' \subseteq reads
       /\ UNCHANGED <<nextRead, workerPasteVars, landed>>
  BY <1>5, FailureLands DEF LateAnswer, PasteFails
 <2> QED BY <1>0, <1>1, <1>2, <1>4, <2>1, WorkIsLeft, NotLanded DEF PastingInv
<1>6. CASE TypesArrive
 <2>1. UNCHANGED <<workerPasteVars, landed>>
  BY <1>6, FailureLands DEF TypesArrive
 <2>2. PICK read \in reads :
         /\ broker.id = read.id
         /\ \/ /\ nextRead' = nextRead + 1
               /\ broker' = [broker EXCEPT !.id = nextRead + 1, !.wants = "data"]
               /\ reads' = (reads \ {read}) \cup {broker'}
            \/ /\ broker' = NoRead /\ reads' = reads \ {read} /\ UNCHANGED nextRead
  BY <1>6 DEF TypesArrive, Awaited
 <2>3. ReadsShape' /\ ReadsAreMeant(meant)'
  <3>1. CASE broker' = NoRead /\ reads' = reads \ {read} /\ UNCHANGED nextRead
   BY <1>4, <3>1
  <3>2. CASE /\ nextRead' = nextRead + 1
             /\ broker' = [broker EXCEPT !.id = nextRead + 1, !.wants = "data"]
             /\ reads' = (reads \ {read}) \cup {broker'}
   <4>1. nextRead \in Nat /\ broker \in Read /\ reads \subseteq Read
    BY <1>0 DEF ReadsShape
   <4>2. broker' \in Read /\ broker'.id = nextRead + 1 /\ broker'.paste = broker.paste
         /\ broker'.for = broker.for
    <5> DEFINE R == Reservation
    <5>1. broker \in [id : Nat, wants : {"none", "types", "data"}, for : R, paste : Nat]
     BY <4>1 DEF Read
    <5> HIDE DEF R
    <5> DEFINE next == [id |-> nextRead + 1, wants |-> "data", for |-> broker.for,
                        paste |-> broker.paste]
    <5>2. broker' = next
     BY <3>2, <5>1
    <5>3. broker.for \in R /\ broker.paste \in Nat /\ nextRead + 1 \in Nat
     BY <4>1, <5>1
    <5>4. next \in [id : Nat, wants : {"none", "types", "data"}, for : R, paste : Nat]
     BY <5>3
    <5>5. broker' \in [id : Nat, wants : {"none", "types", "data"}, for : R, paste : Nat]
     BY <5>2, <5>4
    <5>6. broker' \in Read
     BY <5>5 DEF Read, R
    <5>7. broker'.id = nextRead + 1 /\ broker'.paste = broker.paste /\ broker'.for = broker.for
     BY <3>2, <5>1
    <5> QED BY <5>6, <5>7
   <4>3. ReadsShape'
    BY <1>0, <1>1, <3>2, <4>1, <4>2 DEF ReadsShape
   <4>4. read.id \in 1 .. nextRead
    BY <1>0 DEF ReadsAreMeant
   <4>5. Meant(meant, broker.for.at, broker.paste)
    BY <1>0, <2>2, <4>1, <4>4 DEF ReadsAreMeant
   <4>6. ASSUME NEW r \in reads'
         PROVE  r.id \in 1 .. nextRead' /\ (r.id = broker'.id => r.paste = broker'.paste)
    <5>1. CASE r = broker'
     BY <3>2, <4>1, <4>2, <5>1
    <5>2. CASE r \in reads
     BY <1>0, <3>2, <4>1, <4>2, <5>2 DEF ReadsAreMeant
    <5> QED BY <3>2, <5>1, <5>2
   <4>7. broker'.id \in 1 .. nextRead' /\ Meant(meant', broker'.for.at, broker'.paste)
    BY <1>1, <3>2, <4>1, <4>2, <4>5
   <4> QED BY <4>3, <4>6, <4>7 DEF ReadsAreMeant
  <3> QED BY <2>2, <3>1, <3>2
 <2> QED BY <1>0, <1>1, <1>2, <2>1, <2>3, WorkIsLeft, NotLanded DEF PastingInv
<1>7. CASE DataArrives
 <2>1. PICK read \in reads :
         /\ broker.id = read.id /\ reads' = reads \ {read} /\ broker' = NoRead
         /\ \/ /\ broker.for.id # 0
               /\ orders' = Append(orders, [at |-> broker.for.at, id |-> broker.for.id,
                                            paste |-> read.paste, input |-> "payload"])
               /\ UNCHANGED landed
            \/ /\ broker.for.at = Here /\ landed' = landed \cup {<<read.paste, Here>>}
               /\ UNCHANGED orders
            \/ UNCHANGED <<landed, orders>>
  BY <1>7, FailureLands DEF DataArrives, Awaited
 <2>2. UNCHANGED nextRead
  BY <1>7 DEF DataArrives
 <2>3. ReadsShape' /\ ReadsAreMeant(meant)'
  BY <1>4, <2>1, <2>2
 <2>4. nextRead \in Nat /\ broker \in Read /\ reads \subseteq Read
  BY <1>0 DEF ReadsShape
 <2>5. read.id \in 1 .. nextRead /\ read.paste = broker.paste
  BY <1>0, <2>1 DEF ReadsAreMeant
 <2>6. Meant(meant, broker.for.at, read.paste)
  BY <1>0, <2>1, <2>4, <2>5 DEF ReadsAreMeant
 <2>7. CASE UNCHANGED orders
  <3>1. UNCHANGED workerPasteVars
   BY <1>1, <2>7 DEF workerPasteVars
  <3>2. LandedAsMeant(meant)'
   BY <1>0, <1>1, <2>1, <2>6, LandedIsLeft, NotLanded
  <3> QED BY <1>0, <1>1, <1>2, <2>3, <3>1, <3>2, WorkIsLeft DEF PastingInv
 <2>8. CASE /\ orders' = Append(orders, [at |-> broker.for.at, id |-> broker.for.id,
                                         paste |-> read.paste, input |-> "payload"])
            /\ UNCHANGED landed
  <3> DEFINE order == [at |-> broker.for.at, id |-> broker.for.id,
                       paste |-> read.paste, input |-> "payload"]
  <3>1. broker.for.at \in Places
   BY <1>0, <2>6 DEF PastesAreCounted, Meant
  <3>2. read.paste \in Nat /\ broker.for.id \in Nat
   BY <2>4 DEF Read, Reservation
  <3>3. order \in PasteOrder
   BY <3>1, <3>2 DEF PasteOrder
  <3>4. OrderMeant(meant', order)
   BY <1>1, <2>6 DEF OrderMeant
  <3> HIDE DEF order
  <3>5. orders' = Append(orders, order)
   BY <2>8 DEF order
  <3>6. WorkShape' /\ WorkIsMeant(meant)'
   BY <1>0, <1>1, <3>3, <3>4, <3>5, OrderedIsMeant
  <3> QED BY <1>0, <1>1, <1>2, <2>3, <2>8, <3>6, NotLanded DEF PastingInv
 <2> QED BY <2>1, <2>7, <2>8
<1> QED BY <1>5, <1>6, <1>7

(* The worker and its threads. *)
LEMMA PreparationsKeep ==
  ASSUME PastingInv,
         \/ StartPreparation \/ PreparationExpires
         \/ \E order \in threads : PreparationEnds(order)
  PROVE  PastingInv'
<1>0. /\ PastesAreCounted /\ ReadsShape /\ WorkShape
      /\ ReadsAreMeant(meant) /\ WorkIsMeant(meant) /\ LandedAsMeant(meant)
 BY DEF PastingInv
<1>1. UNCHANGED <<account, place, meant, pastes, nextDraft, broker, nextRead, reads, landed>>
 BY DEF StartPreparation, PreparationExpires, PreparationEnds, hereVars, appPasteVars, pasteBounds
<1>2. /\ PastesAreCounted'
      /\ ReadsShape' /\ ReadsAreMeant(meant)' /\ LandedAsMeant(meant)'
 BY <1>0, <1>1 DEF PastesAreCounted, ReadsShape, ReadsAreMeant, LandedAsMeant
<1>3. /\ orders \in Seq(PasteOrder) /\ results \in Seq(Outcome) /\ threads \subseteq PasteOrder
      /\ job \in Task
 BY <1>0 DEF WorkShape
<1>4. NoTask \in Task
 BY DEF NoTask, Task
<1>5. ASSUME NEW order \in PasteOrder, OrderMeant(meant, order), NEW ok \in BOOLEAN,
             results' = Append(results, Result(order, ok))
      PROVE  /\ results' \in Seq(Outcome)
             /\ \A i \in 1 .. Len(results') : OrderMeant(meant, results'[i])
 <2>1. Result(order, ok) \in Outcome
  BY DEF Result, Outcome, PasteOrder
 <2>2. OrderMeant(meant, Result(order, ok))
  BY <1>5 DEF Result, OrderMeant
 <2> QED BY <1>0, <1>5, <2>1, <2>2, ResultIsMeant
<1>6. CASE StartPreparation
 <2> DEFINE order == Head(orders)
 <2>1. /\ Tail(orders) \in Seq(PasteOrder) /\ Len(Tail(orders)) = Len(orders) - 1
       /\ Len(orders) \in Nat /\ Len(orders) >= 1 /\ order = orders[1] /\ order \in PasteOrder
       /\ \A i \in 1 .. Len(Tail(orders)) : Tail(orders)[i] = orders[i + 1]
  BY <1>3, <1>6, Taken DEF StartPreparation
 <2>2. OrderMeant(meant, order)
  BY <1>0, <2>1 DEF WorkIsMeant
 <2>3. orders' = Tail(orders) /\ \A i \in 1 .. Len(orders') : OrderMeant(meant, orders'[i])
  BY <1>0, <1>6, <2>1 DEF WorkIsMeant, StartPreparation
 <2>4. CASE job # NoTask \/ threads # {}
  <3>1. PICK ok \in BOOLEAN : results' = Append(results, Result(order, ok))
   BY <1>6, <2>4 DEF StartPreparation
  <3>2. UNCHANGED <<job, threads>>
   BY <1>6, <2>4 DEF StartPreparation
  <3>3. WorkShape' /\ WorkIsMeant(meant)'
   BY <1>0, <1>1, <1>3, <1>5, <2>1, <2>2, <2>3, <3>1, <3>2 DEF WorkShape, WorkIsMeant
  <3> QED BY <1>2, <3>3 DEF PastingInv
 <2>5. CASE ~(job # NoTask \/ threads # {})
  <3>1. /\ \E timed \in BOOLEAN : job' = [order |-> order, expired |-> FALSE, timed |-> timed]
        /\ threads' = {order} /\ UNCHANGED results
   BY <1>6, <2>5 DEF StartPreparation
  <3>2. job' \in Task /\ job'.order = order
   BY <2>1, <3>1 DEF Task
  <3>3. WorkShape' /\ WorkIsMeant(meant)'
   BY <1>0, <1>1, <1>3, <2>1, <2>2, <2>3, <3>1, <3>2 DEF WorkShape, WorkIsMeant
  <3> QED BY <1>2, <3>3 DEF PastingInv
 <2> QED BY <2>4, <2>5
<1>7. CASE PreparationExpires
 <2>1. /\ job # NoTask /\ job' = [job EXCEPT !.expired = TRUE]
       /\ results' = Append(results, Result(job.order, FALSE)) /\ UNCHANGED <<orders, threads>>
  BY <1>7 DEF PreparationExpires
 <2>2. OrderMeant(meant, job.order) /\ job' \in Task /\ job'.order = job.order
  BY <1>0, <1>3, <2>1 DEF WorkIsMeant, Task
 <2>3. job.order # NoJob
  <3>1. job.order.paste \in 1 .. Len(meant)
   BY <2>2 DEF OrderMeant, Meant
  <3>2. NoJob.paste = 0
   BY DEF NoJob
  <3> QED BY <3>1, <3>2
 <2>4. job.order \in PasteOrder
  BY <1>3, <2>3 DEF Task
 <2>5. WorkShape' /\ WorkIsMeant(meant)'
  BY <1>0, <1>1, <1>3, <1>5, <2>1, <2>2, <2>4 DEF WorkShape, WorkIsMeant
 <2> QED BY <1>2, <2>5 DEF PastingInv
<1>8. ASSUME NEW order \in threads, PreparationEnds(order)
      PROVE  PastingInv'
 <2>1. threads' = threads \ {order} /\ UNCHANGED orders
  BY <1>8 DEF PreparationEnds
 <2>2. order \in PasteOrder /\ OrderMeant(meant, order)
  BY <1>0, <1>3 DEF WorkIsMeant
 <2>3. job' \in {job, NoTask}
  BY <1>8 DEF PreparationEnds
 <2>4. \/ UNCHANGED results
       \/ \E ok \in BOOLEAN : results' = Append(results, Result(order, ok))
  BY <1>8 DEF PreparationEnds
 <2>5. results' \in Seq(Outcome) /\ \A i \in 1 .. Len(results') : OrderMeant(meant, results'[i])
  BY <1>0, <1>3, <1>5, <2>2, <2>4 DEF WorkIsMeant
 <2>6. WorkShape' /\ WorkIsMeant(meant)'
  BY <1>0, <1>1, <1>3, <1>4, <2>1, <2>3, <2>5 DEF WorkShape, WorkIsMeant
 <2> QED BY <1>2, <2>6 DEF PastingInv
<1> QED BY <1>6, <1>7, <1>8

LEMMA PastingSteps == PastingInv /\ [PastingNext]_pasteVars => PastingInv'
<1> SUFFICES ASSUME PastingInv, [PastingNext]_pasteVars PROVE PastingInv'
 OBVIOUS
<1>0. /\ PastesAreCounted /\ ReadsShape /\ WorkShape
      /\ ReadsAreMeant(meant) /\ WorkIsMeant(meant) /\ LandedAsMeant(meant)
 BY DEF PastingInv
<1>1. CASE AttachInput \/ PasteAsText \/ PasteRemotely \/ PasteAnnounced
 BY <1>1, PastingKeeps
<1>2. CASE TypesArrive \/ DataArrives \/ LateAnswer \/ PasteFails
 BY <1>2, BrokerKeeps
<1>3. CASE StartPreparation \/ PreparationExpires \/ \E order \in threads : PreparationEnds(order)
 BY <1>3, PreparationsKeep
<1>4. CASE TakePrepared
 <2>1. /\ UNCHANGED <<account, place, meant, pastes, nextDraft, broker, nextRead, reads, orders,
                      job, threads>>
       /\ results # <<>> /\ results' = Tail(results)
  BY <1>4 DEF TakePrepared, hereVars, pasteBounds
 <2>2. PastesAreCounted' /\ ReadsShape' /\ ReadsAreMeant(meant)'
  BY <1>0, <2>1 DEF PastesAreCounted, ReadsShape, ReadsAreMeant
 <2>3. results \in Seq(Outcome)
  BY <1>0 DEF WorkShape
 <2>4. /\ Tail(results) \in Seq(Outcome) /\ Len(Tail(results)) = Len(results) - 1
       /\ Len(results) \in Nat /\ Len(results) >= 1 /\ Head(results) = results[1]
       /\ \A i \in 1 .. Len(Tail(results)) : Tail(results)[i] = results[i + 1]
  BY <2>1, <2>3, Taken
 <2>5. OrderMeant(meant, Head(results))
  BY <1>0, <2>4 DEF WorkIsMeant
 <2>6. WorkShape' /\ WorkIsMeant(meant)'
  BY <1>0, <2>1, <2>4 DEF WorkShape, WorkIsMeant
 <2>7. \/ landed' = landed
       \/ landed' = landed \cup {<<Head(results).paste, Head(results).at>>}
  BY <1>4 DEF TakePrepared, AttachmentsArePrepared
 <2>8. LandedAsMeant(meant)'
  BY <1>0, <2>1, <2>5, <2>7, LandedIsLeft DEF OrderMeant
 <2> QED BY <2>2, <2>6, <2>8 DEF PastingInv
<1>5. CASE GoTo \/ GiveUpPreparation \/ UNCHANGED pasteVars
 <2>1. /\ UNCHANGED <<account, meant, pastes, nextDraft, broker, nextRead, reads, workerPasteVars,
                      landed>>
       /\ place' \in Spot
  BY <1>0, <1>5 DEF GoTo, GiveUpPreparation, pasteVars, hereVars, appPasteVars, pasteBounds,
     PastesAreCounted
 <2>2. PastesAreCounted' /\ ReadsShape' /\ ReadsAreMeant(meant)'
  BY <1>0, <2>1 DEF PastesAreCounted, ReadsShape, ReadsAreMeant
 <2> QED BY <1>0, <2>1, <2>2, WorkIsLeft, NotLanded DEF PastingInv
<1>6. CASE SwitchPasting
 <2>1. /\ UNCHANGED <<place, meant, pastes, nextRead, reads, threads, landed>>
       /\ account' \in Owner /\ nextDraft' = 0 /\ broker' = NoRead
       /\ orders' = <<>> /\ results' = <<>> /\ job' = NoTask
  BY <1>6 DEF SwitchPasting
 <2>2. NoRead \in Read /\ NoRead.id = 0 /\ NoTask \in Task
  BY DEF NoRead, Read, Reservation, NoReservation, NoTask, Task
 <2>3. PastesAreCounted'
  BY <1>0, <2>1 DEF PastesAreCounted
 <2>4. ReadsShape' /\ ReadsAreMeant(meant)'
  BY <1>0, <2>1, <2>2 DEF ReadsShape, ReadsAreMeant
 <2>5. WorkShape' /\ WorkIsMeant(meant)'
  BY <1>0, <2>1, <2>2 DEF WorkShape, WorkIsMeant
 <2> QED BY <1>0, <2>1, <2>3, <2>4, <2>5, NotLanded DEF PastingInv
<1> QED BY <1>1, <1>2, <1>3, <1>4, <1>5, <1>6 DEF PastingNext

(* PastesGoWhereMeant, for any places, accounts, pastes, moves and switches: whichever
   answers are late, cancelled or lost, what arrives is inserted where the user pasted it
   (attachments_prepared, app/staging.rs; Broker.received, terminal/clipboard.rs). *)
THEOREM PastesAreRight == PastingSpec => []PastesGoWhereMeant
<1>1. PastingInit => PastingInv
 BY PastingBegins
<1>2. PastingInv /\ [PastingNext]_pasteVars => PastingInv'
 BY PastingSteps
<1>3. PastingInv => PastesGoWhereMeant
 BY DEF PastingInv, LandedAsMeant, PastesGoWhereMeant
<1> QED BY <1>1, <1>2, <1>3, PTL DEF PastingSpec

-----------------------------------------------------------------------------
(* What was carried out, and what is on the screen. The calls of a step are   *)
(* those it began with, but for the one it makes, answers or removes.         *)

Same(a, b) ==
    a.id = b.id /\ a.acts = b.acts /\ a.version = b.version /\ a.detail = b.detail

CallsAreOld == \A c \in calls' : \E b \in calls : Same(c, b)

LEMMA MovedIsOld ==
  ASSUME DialogInv, NEW c \in calls, NEW phase, Becomes(c, [c EXCEPT !.phase = phase])
  PROVE  CallsAreOld
<1>1. Same([c EXCEPT !.phase = phase], c)
 BY DEF Same, DialogInv, CallsInv, CallShape
<1>2. \A b \in calls : Same(b, b)
 BY DEF Same
<1> QED BY <1>1, <1>2 DEF CallsAreOld, Becomes

LEMMA FewerAreOld ==
  ASSUME calls' \subseteq calls
  PROVE  CallsAreOld
  BY DEF CallsAreOld, Same

LEMMA SurroundingsAreOld ==
  ASSUME DialogInv, Surroundings
  PROVE  CallsAreOld /\ UNCHANGED <<prompt, pending, nextRequest, effects, told>>
<1>1. CASE ConnectionChanges \/ OthersChange \/ ModeReset
 BY <1>1, FewerAreOld DEF ConnectionChanges, OthersChange, ModeReset, serverVars, terminalVars
<1>2. ASSUME NEW c \in calls, CallFails(c)
      PROVE  CallsAreOld /\ UNCHANGED <<prompt, pending, nextRequest, effects, told>>
 BY <1>2, MovedIsOld DEF CallFails, serverVars, terminalVars
<1>3. ASSUME NEW c \in calls, AnswerIgnored(c)
      PROVE  CallsAreOld /\ UNCHANGED <<prompt, pending, nextRequest, effects, told>>
 BY <1>3, FewerAreOld DEF AnswerIgnored, serverVars, terminalVars
<1> QED BY <1>1, <1>2, <1>3 DEF Surroundings

(* Every attempt to send a copy carries the id drawn by its review. *)
OneIdPerReview ==
    /\ \A c \in calls : c.acts => \E r : c.detail = <<r, r>>
    /\ \A copy \in effects : \E r : copy = <<r, r>>

LEMMA IdsStay ==
  ASSUME OneIdPerReview, CallsAreOld, UNCHANGED effects
  PROVE  OneIdPerReview'
  BY DEF OneIdPerReview, CallsAreOld, Same

LEMMA ForwardKeepsIds ==
  ASSUME DialogInv, OneIdPerReview, ForwardNext
  PROVE  OneIdPerReview'
<1>1. CASE ReviewForward
 BY <1>1 DEF ReviewForward, Submit, serverVars, OneIdPerReview
<1>2. CASE SendForward
 <2>1. calls' = calls \cup {[id |-> nextRequest + 1, acts |-> TRUE, phase |-> "sent",
                             version |-> prompt.plan,
                             detail |-> <<prompt.random, prompt.random>>]}
       /\ effects' = effects
  BY <1>2 DEF SendForward, Submit, serverVars
 <2> QED BY <2>1 DEF OneIdPerReview
<1>3. CASE \/ ReopenForward \/ CancelForward \/ ForwardTold \/ ForwardInvalidated
           \/ AccountSwitch(ForwardClosed)
 <2>1. calls' \subseteq calls /\ effects' = effects
  BY <1>3 DEF ReopenForward, CancelForward, LetGo, ForwardTold, ForwardInvalidated,
              AccountSwitch, serverVars
 <2> QED BY <2>1, FewerAreOld, IdsStay
<1>4. CASE Surroundings
 BY <1>4, SurroundingsAreOld, IdsStay
<1>5. ASSUME NEW call \in calls, ForwardReady(call) \/ ForwardFinished(call)
      PROVE  OneIdPerReview'
 <2>1. calls' \subseteq calls /\ effects' = effects
  BY <1>5 DEF ForwardReady, ForwardFinished, Takes, serverVars
 <2> QED BY <2>1, FewerAreOld, IdsStay
<1>6. ASSUME NEW call \in calls, OriginalFetched(call) PROVE OneIdPerReview'
 <2>1. PICK m : m = [call EXCEPT !.phase = "done", !.version = server.version,
                                 !.detail = <<0, Fresh>>]
  OBVIOUS
 <2>2. ~m.acts
  BY <1>6, <2>1 DEF OriginalFetched, DialogInv, CallsInv, CallShape
 <2>3. calls' = (calls \ {call}) \cup {m} /\ effects' = effects
  BY <1>6, <2>1 DEF OriginalFetched, Becomes, serverVars
 <2> QED BY <2>2, <2>3 DEF OneIdPerReview
<1>7. ASSUME NEW call \in calls, RecheckOriginal(call) PROVE OneIdPerReview'
 BY <1>7, MovedIsOld, IdsStay DEF RecheckOriginal, serverVars
<1>8. ASSUME NEW call \in calls, ForwardMessage(call) PROVE OneIdPerReview'
 <2>1. CallsAreOld /\ call.acts /\ effects' = effects \cup {call.detail}
  BY <1>8, MovedIsOld DEF ForwardMessage
 <2>2. \A copy \in effects' : \E r : copy = <<r, r>>
  BY <2>1 DEF OneIdPerReview
 <2>3. \A c \in calls' : c.acts => \E r : c.detail = <<r, r>>
  BY <2>1 DEF OneIdPerReview, CallsAreOld, Same
 <2> QED BY <2>2, <2>3 DEF OneIdPerReview
<1> QED BY <1>1, <1>2, <1>3, <1>4, <1>5, <1>6, <1>7, <1>8 DEF ForwardNext

LEMMA IdsForwardOnce == OneIdPerReview => ForwardsOnce
  BY DEF OneIdPerReview, ForwardsOnce

(* The answers picked are those of the definition shown, and a vote that is   *)
(* under way carries the two alike.                                           *)
PicksMatch(p) == p.picked \in {NoVersion, p.plan}

VotesMatch ==
    /\ \A c \in calls : c.acts => c.detail = c.version
    /\ \A vote \in effects : \E v : vote = <<v, v>>

PollPicks == PicksMatch(prompt) /\ VotesMatch

LEMMA VotesStay ==
  ASSUME VotesMatch, CallsAreOld, UNCHANGED effects
  PROVE  VotesMatch'
  BY DEF VotesMatch, CallsAreOld, Same

LEMMA PicksKept ==
  ASSUME NEW p, Reviewing(p), PicksMatch(p)
  PROVE  /\ PicksMatch([p EXCEPT !.ready = FALSE])
         /\ PicksMatch([p EXCEPT !.picked = NoVersion])
         /\ PicksMatch([p EXCEPT !.picked = NoVersion, !.ready = FALSE])
         /\ PicksMatch([p EXCEPT !.picked = p.plan])
         /\ \A v, loaded, b : /\ PicksMatch(Shown(p, v, loaded))
                              /\ PicksMatch([Shown(p, v, loaded) EXCEPT !.ready = b])
  BY DEF Reviewing, Planned, PicksMatch, Shown

LEMMA ClosedPicks == PicksMatch(PollClosed)
  BY DEF PicksMatch, PollClosed

LEMMA LoadPollPicks ==
  ASSUME VotesMatch, NEW p, Reviewing(p), PicksMatch(p), LoadPoll(p), UNCHANGED effects
  PROVE  PollPicks'
<1>1. PicksMatch(prompt')
 BY PicksKept DEF LoadPoll
<1>2. VotesMatch'
 <2>1. CASE online
  BY <2>1 DEF LoadPoll, Submit, VotesMatch
 <2>2. CASE ~online
  BY <2>2 DEF LoadPoll, VotesMatch
 <2> QED BY <2>1, <2>2
<1> QED BY <1>1, <1>2 DEF PollPicks, PicksMatch

LEMMA PollKeepsPicks ==
  ASSUME PollInv, PollPicks, PollNext
  PROVE  PollPicks'
<1>0. DialogInv /\ Reviewing(prompt) /\ PicksMatch(prompt) /\ VotesMatch
 BY DEF PollInv, PollPicks
<1>1. CASE BeginPoll
 <2>1. PICK row \in told..server.version :
         LoadPoll([PollClosed EXCEPT !.open = TRUE, !.plan = row])
  BY <1>1 DEF BeginPoll
 <2>2. row \in Version
  BY <1>0, DialogBounds DEF Version, DialogInv, ServerShape, HoldsVersion
 <2>3. Reviewing([PollClosed EXCEPT !.open = TRUE, !.plan = row])
       /\ PicksMatch([PollClosed EXCEPT !.open = TRUE, !.plan = row])
  BY <2>2 DEF Reviewing, Planned, PollClosed, MaybeVersion, PicksMatch
 <2> QED BY <1>0, <1>1, <2>1, <2>3, LoadPollPicks DEF BeginPoll, serverVars
<1>2. CASE RefreshReview
 BY <1>0, <1>2, LoadPollPicks DEF RefreshReview, serverVars
<1>3. CASE \/ PickAnswers \/ ClosePoll \/ PollTold \/ PollInvalidated
           \/ AccountSwitch(PollClosed)
 <2>1. calls' \subseteq calls /\ effects' = effects
  BY <1>3 DEF PickAnswers, ClosePoll, LetGo, PollTold, PollInvalidated, AccountSwitch,
              serverVars
 <2>2. \/ prompt' \in {prompt, PollClosed, [prompt EXCEPT !.ready = FALSE],
                       [prompt EXCEPT !.picked = prompt.plan]}
       \/ prompt' = Shown(prompt, told', FALSE)
  BY <1>3 DEF PickAnswers, ClosePoll, LetGo, PollTold, PollInvalidated, AccountSwitch
 <2>3. PicksMatch(prompt')
  <3>1. CASE prompt' = Shown(prompt, told', FALSE)
   BY <1>0, <3>1, PicksKept
  <3> QED BY <1>0, <2>2, <3>1, PicksKept, ClosedPicks
 <2> QED BY <1>0, <2>1, <2>3, FewerAreOld, VotesStay DEF PollPicks, PicksMatch
<1>4. CASE SubmitVote
 <2>1. calls' = calls \cup {[id |-> nextRequest + 1, acts |-> TRUE, phase |-> "sent",
                             version |-> prompt.plan, detail |-> prompt.picked]}
       /\ UNCHANGED <<effects, prompt>> /\ prompt.picked = prompt.plan
  BY <1>0, <1>4 DEF SubmitVote, Submit, serverVars, PicksMatch
 <2> QED BY <1>0, <2>1 DEF PollPicks, VotesMatch, PicksMatch
<1>5. CASE Surroundings
 BY <1>0, <1>5, SurroundingsAreOld, VotesStay DEF PollPicks, PicksMatch
<1>6. ASSUME NEW call \in calls, PollLoaded(call) PROVE PollPicks'
 <2>1. calls' \subseteq calls /\ effects' = effects
  BY <1>6 DEF PollLoaded, Takes, serverVars
 <2>2. \/ prompt' = prompt
       \/ \E v, b : prompt' = [Shown(prompt, v, TRUE) EXCEPT !.ready = b]
  BY <1>6 DEF PollLoaded
 <2>3. PicksMatch(prompt')
  <3>1. ASSUME NEW v, NEW b, prompt' = [Shown(prompt, v, TRUE) EXCEPT !.ready = b]
        PROVE  PicksMatch(prompt')
   BY <1>0, <3>1, PicksKept
  <3> QED BY <1>0, <2>2, <3>1
 <2> QED BY <1>0, <2>1, <2>3, FewerAreOld, VotesStay DEF PollPicks, PicksMatch
<1>7. ASSUME NEW call \in calls, VoteFinished(call) PROVE PollPicks'
 <2>1. PICK p, l : /\ PicksMatch(p) /\ PicksMatch(l)
                   /\ Settles(call, p) \/ SettlesAndLooks(call, p, l, told)
  <3>1. CASE Settles(call, [prompt EXCEPT !.ready = FALSE])
   BY <1>0, <3>1, PicksKept
  <3>2. CASE Settles(call, PollClosed)
   BY <3>2, ClosedPicks
  <3>3. CASE SettlesAndLooks(call, [prompt EXCEPT !.picked = NoVersion],
                             [prompt EXCEPT !.picked = NoVersion, !.ready = FALSE], told)
   BY <1>0, <3>3, PicksKept
  <3> QED BY <1>7, <3>1, <3>2, <3>3 DEF VoteFinished
 <2>2. effects' = effects
  BY <1>7 DEF VoteFinished, serverVars
 <2>3. PicksMatch(prompt')
  BY <2>1 DEF Settles, SettlesAndLooks
 <2>4. VotesMatch'
  BY <1>0, <2>1, <2>2 DEF Settles, SettlesAndLooks, VotesMatch
 <2> QED BY <2>3, <2>4 DEF PollPicks, PicksMatch
<1>8. ASSUME NEW call \in calls, PollFetched(call) PROVE PollPicks'
 <2>1. PICK m : m = [call EXCEPT !.phase = "done", !.version = server.version]
  OBVIOUS
 <2>2. ~m.acts
  BY <1>0, <1>8, <2>1 DEF PollFetched, DialogInv, CallsInv, CallShape
 <2>3. calls' = (calls \ {call}) \cup {m} /\ UNCHANGED <<effects, prompt>>
  BY <1>8, <2>1 DEF PollFetched, Becomes, serverVars, terminalVars
 <2> QED BY <1>0, <2>2, <2>3 DEF PollPicks, VotesMatch, PicksMatch
<1>9. ASSUME NEW call \in calls, RecheckPoll(call) PROVE PollPicks'
 BY <1>0, <1>9, MovedIsOld, VotesStay
    DEF RecheckPoll, serverVars, terminalVars, PollPicks, PicksMatch
<1>10. ASSUME NEW call \in calls, SendVote(call) PROVE PollPicks'
 <2>1. CallsAreOld /\ call.acts /\ effects' = effects \cup {<<call.detail, call.version>>}
       /\ prompt' = prompt
  BY <1>0, <1>10, MovedIsOld DEF SendVote, terminalVars
 <2> QED BY <1>0, <2>1 DEF PollPicks, VotesMatch, PicksMatch, CallsAreOld, Same
<1> QED BY <1>1, <1>2, <1>3, <1>4, <1>5, <1>6, <1>7, <1>8, <1>9, <1>10 DEF PollNext

LEMMA PicksAreVotes == PollPicks => VotesAsPicked
  BY DEF PollPicks, VotesMatch, VotesAsPicked

(* An invite. While a preview is awaited the prompt is that of the link it was *)
(* asked for, and until it is joined by no later request was made: the join   *)
(* has the number that follows the preview's.                                 *)
InviteShape(p) ==
    {"plan", "link", "of", "joined", "settled", "review", "open"} \subseteq DOMAIN p

DetailShape(c) == {"link", "member", "review"} \subseteq DOMAIN c.detail

Awaits(p, review, number) ==
    p.plan = NoVersion /\ ~p.settled /\ p.review = number /\ review = number

PromptFollows ==
    /\ InviteShape(prompt)
    /\ ~pending.saving /\ pending.id # 0 => Awaits(prompt, nextRequest, pending.id)
    /\ Idle /\ prompt.plan # NoVersion /\ ~prompt.settled => prompt.review = nextRequest
    /\ prompt.plan # NoVersion => prompt.of = prompt.link

JoinsFollow ==
    /\ \A c \in calls : DetailShape(c)
    /\ \A c \in calls : c.acts => c.detail.review \in Nat /\ c.id = c.detail.review + 1
    /\ \A join \in effects : \E n \in Nat : join = <<n, n + 1>>

LinksFollow ==
    \A c \in calls : ~c.acts /\ AwaitedBy(pending, c) => c.detail.link = prompt.link

InviteFollows == PromptFollows /\ JoinsFollow /\ LinksFollow

LEMMA InviteClosedShape ==
  /\ InviteShape(InviteClosed) /\ InviteClosed.plan = NoVersion
  /\ ~InviteClosed.settled
  BY DEF InviteShape, InviteClosed

LEMMA InviteBegins == InviteInit => InviteFollows
<1> SUFFICES ASSUME InviteInit PROVE InviteFollows
 OBVIOUS
<1>1. prompt = InviteClosed /\ pending = NoPending /\ calls = {} /\ effects = {}
 BY DEF InviteInit, DialogInit
<1> QED BY <1>1, InviteClosedShape
        DEF InviteFollows, PromptFollows, JoinsFollow, LinksFollow, NoPending

(* Nothing but the phases of the calls changes, or answers go. *)
LEMMA InviteStays ==
  ASSUME DialogInv, InviteFollows, CallsAreOld,
         UNCHANGED <<prompt, pending, nextRequest, effects>>
  PROVE  InviteFollows'
<1>1. PromptFollows'
 BY DEF InviteFollows, PromptFollows, Idle, NoPending
<1>2. JoinsFollow'
 BY DEF InviteFollows, JoinsFollow, CallsAreOld, Same, DetailShape
<1>3. LinksFollow'
 BY DEF InviteFollows, LinksFollow, CallsAreOld, Same, AwaitedBy
<1> QED BY <1>1, <1>2, <1>3 DEF InviteFollows

(* The dialog lets go of its prompt, or keeps it settled. *)
LEMMA InviteEnds ==
  ASSUME DialogInv, InviteFollows, calls' \subseteq calls, effects' = effects,
         pending' = NoPending,
         \/ prompt' = InviteClosed
         \/ prompt' = [prompt EXCEPT !.settled = TRUE]
  PROVE  InviteFollows'
<1>1. pending'.id = 0 /\ \A c \in calls' : c.id # 0
 BY DEF NoPending, DialogInv, CallsInv, CallShape
<1>2. PromptFollows'
 <2>1. CASE prompt' = InviteClosed
  BY <1>1, <2>1, InviteClosedShape DEF PromptFollows
 <2>2. CASE prompt' = [prompt EXCEPT !.settled = TRUE]
  BY <1>1, <2>2 DEF PromptFollows, InviteFollows, InviteShape
 <2> QED BY <2>1, <2>2
<1>3. JoinsFollow'
 BY DEF InviteFollows, JoinsFollow
<1>4. LinksFollow'
 BY <1>1 DEF LinksFollow, AwaitedBy
<1> QED BY <1>2, <1>3, <1>4 DEF InviteFollows

(* The call moves on with another idea of the membership. *)
LEMMA MembershipMoves ==
  ASSUME DialogInv, InviteFollows, NEW c \in calls, NEW m,
         CallShape(m), m.id = c.id, m.acts = c.acts, DetailShape(m),
         m.detail.link = c.detail.link, m.detail.review = c.detail.review,
         Becomes(c, m), UNCHANGED <<prompt, pending, nextRequest>>,
         \/ effects' = effects
         \/ c.acts /\ effects' = effects \cup {<<c.detail.review, c.id>>}
  PROVE  InviteFollows'
<1>1. calls' = (calls \ {c}) \cup {m}
 BY DEF Becomes
<1>2. PromptFollows'
 BY DEF InviteFollows, PromptFollows, Idle, NoPending
<1>3. JoinsFollow'
 <2>1. \A x \in calls' : DetailShape(x)
  BY <1>1 DEF InviteFollows, JoinsFollow
 <2>2. \A x \in calls' : x.acts => x.detail.review \in Nat /\ x.id = x.detail.review + 1
  BY <1>1 DEF InviteFollows, JoinsFollow
 <2>3. \A join \in effects' : \E n \in Nat : join = <<n, n + 1>>
  BY DEF InviteFollows, JoinsFollow
 <2> QED BY <2>1, <2>2, <2>3 DEF JoinsFollow
<1>4. LinksFollow'
 BY <1>1 DEF InviteFollows, LinksFollow, AwaitedBy
<1> QED BY <1>2, <1>3, <1>4 DEF InviteFollows

LEMMA InviteKeepsFollowing ==
  ASSUME DialogInv, InviteFollows, InviteNext
  PROVE  InviteFollows'
<1>0. pending.id \in Nat /\ nextRequest \in Nat
 BY DEF DialogInv, CallsInv
<1>1. CASE BeginInvite
 <2> DEFINE n == nextRequest + 1
 <2>1. PICK link :
         /\ prompt' = [InviteClosed EXCEPT !.open = TRUE, !.link = link, !.review = n]
         /\ Submit(FALSE, NoVersion, [link |-> link, member |-> FALSE, review |-> 0])
  BY <1>1 DEF BeginInvite
 <2>2. /\ pending' = [id |-> n, saving |-> FALSE] /\ nextRequest' = n
       /\ calls' = calls \cup
            {[id |-> n, acts |-> FALSE, phase |-> "sent", version |-> NoVersion,
              detail |-> [link |-> link, member |-> FALSE, review |-> 0]]}
       /\ effects' = effects
  BY <1>1, <2>1 DEF Submit, BeginInvite, serverVars
 <2>3. InviteShape(prompt') /\ prompt'.plan = NoVersion /\ ~prompt'.settled
       /\ prompt'.link = link /\ prompt'.review = n
  BY <2>1 DEF InviteShape, InviteClosed
 <2>4. pending'.id = n /\ pending'.saving = FALSE /\ n # 0
  BY <1>0, <2>2
 <2>5. PromptFollows'
  BY <2>2, <2>3, <2>4 DEF PromptFollows, Awaits, Idle, NoPending
 <2>6. JoinsFollow'
  BY <2>2 DEF InviteFollows, JoinsFollow, DetailShape
 <2>7. LinksFollow'
  <3>1. \A c \in calls : c.id < n
   BY <1>0 DEF DialogInv, CallsInv, CallShape
  <3> QED BY <2>2, <2>3, <2>4, <3>1 DEF LinksFollow, AwaitedBy
 <2> QED BY <2>5, <2>6, <2>7 DEF InviteFollows
<1>2. CASE CloseInvite
 <2>1. CASE pending.saving
  BY <1>2, <2>1, FewerAreOld, InviteStays DEF CloseInvite, LetGo, serverVars
 <2>2. CASE ~pending.saving
  BY <1>2, <2>2, InviteEnds DEF CloseInvite, LetGo, serverVars
 <2> QED BY <2>1, <2>2
<1>3. CASE OpenJoined
 BY <1>3, InviteEnds DEF OpenJoined, serverVars, Idle
<1>4. CASE JoinInvite
 <2> DEFINE n == nextRequest + 1
 <2>1. /\ pending' = [id |-> n, saving |-> TRUE] /\ nextRequest' = n
       /\ calls' = calls \cup
            {[id |-> n, acts |-> TRUE, phase |-> "sent", version |-> prompt.plan,
              detail |-> [link |-> prompt.link, member |-> FALSE,
                          review |-> prompt.review]]}
       /\ UNCHANGED <<effects, prompt>>
  BY <1>4 DEF Submit, JoinInvite, serverVars
 <2>2. prompt.review = nextRequest
  BY <1>4 DEF JoinInvite, InviteFollows, PromptFollows
 <2>3. pending'.id = n /\ pending'.saving = TRUE
  BY <2>1
 <2>4. PromptFollows'
  BY <2>1, <2>3 DEF InviteFollows, PromptFollows, Idle, NoPending
 <2>5. JoinsFollow'
  BY <1>0, <2>1, <2>2 DEF InviteFollows, JoinsFollow, DetailShape
 <2>6. LinksFollow'
  BY <2>3 DEF LinksFollow, AwaitedBy
 <2> QED BY <2>4, <2>5, <2>6 DEF InviteFollows
<1>5. CASE AccountSwitch(InviteClosed)
 <2>1. calls' \subseteq calls /\ effects' = effects /\ pending' = NoPending
       /\ prompt' = InviteClosed
  BY <1>5 DEF AccountSwitch
 <2> QED BY <2>1, InviteEnds
<1>6. CASE Surroundings
 BY <1>6, SurroundingsAreOld, InviteStays
<1>7. ASSUME NEW call \in calls, InviteReady(call) PROVE InviteFollows'
 <2>1. /\ calls' \subseteq calls /\ pending' = NoPending
       /\ UNCHANGED <<effects, nextRequest>>
       /\ ~call.acts /\ AwaitedBy(pending, call)
  BY <1>7 DEF InviteReady, Takes, serverVars
 <2>2. ~pending.saving /\ pending.id # 0
  BY <2>1 DEF AwaitedBy, DialogInv, CallsInv, CallShape
 <2>3. /\ Awaits(prompt, nextRequest, pending.id) /\ InviteShape(prompt)
       /\ call.detail.link = prompt.link
  BY <2>1, <2>2 DEF InviteFollows, PromptFollows, LinksFollow
 <2>4. /\ InviteShape(prompt') /\ prompt'.review = nextRequest'
       /\ prompt'.plan # NoVersion => prompt'.of = prompt'.link
  BY <1>7, <2>1, <2>3 DEF InviteReady, InviteShape, Awaits
 <2>5. pending'.id = 0 /\ \A c \in calls' : c.id # 0
  BY <2>1 DEF NoPending, DialogInv, CallsInv, CallShape
 <2>6. PromptFollows'
  BY <2>4, <2>5 DEF PromptFollows
 <2>7. JoinsFollow'
  BY <2>1 DEF InviteFollows, JoinsFollow
 <2>8. LinksFollow'
  BY <2>5 DEF LinksFollow, AwaitedBy
 <2> QED BY <2>6, <2>7, <2>8 DEF InviteFollows
<1>8. ASSUME NEW call \in calls, InviteJoined(call) PROVE InviteFollows'
 BY <1>8, InviteEnds DEF InviteJoined, Takes, serverVars
<1>9. ASSUME NEW call \in calls, InvitePreviewed(call) PROVE InviteFollows'
 <2>1. PICK m : m = [call EXCEPT !.phase = "done", !.version = server.version,
                                 !.detail.member = server.text = Member]
  OBVIOUS
 <2>2. CallShape(call) /\ server.version \in Version /\ DetailShape(call)
  BY DEF DialogInv, CallsInv, ServerShape, HoldsVersion, InviteFollows, JoinsFollow
 <2>3. CallShape(m) /\ m.id = call.id /\ m.acts = call.acts
  BY <2>1, <2>2 DEF CallShape, MaybeVersion, Phases
 <2>4. DetailShape(m) /\ m.detail.link = call.detail.link
       /\ m.detail.review = call.detail.review
  BY <2>1, <2>2 DEF CallShape, DetailShape
 <2>5. Becomes(call, m) /\ UNCHANGED <<prompt, pending, nextRequest, effects>>
  BY <1>9, <2>1 DEF InvitePreviewed, terminalVars, serverVars
 <2> QED BY <2>3, <2>4, <2>5, MembershipMoves
<1>10. ASSUME NEW call \in calls, AlreadyMember(call) PROVE InviteFollows'
 <2>1. PICK m : m = [call EXCEPT !.phase = "done", !.detail.member = TRUE]
  OBVIOUS
 <2>2. CallShape(call) /\ DetailShape(call)
  BY DEF DialogInv, CallsInv, InviteFollows, JoinsFollow
 <2>3. CallShape(m) /\ m.id = call.id /\ m.acts = call.acts
  BY <2>1, <2>2 DEF CallShape, Phases
 <2>4. DetailShape(m) /\ m.detail.link = call.detail.link
       /\ m.detail.review = call.detail.review
  BY <2>1, <2>2 DEF CallShape, DetailShape
 <2>5. Becomes(call, m) /\ UNCHANGED <<prompt, pending, nextRequest, effects>>
  BY <1>10, <2>1 DEF AlreadyMember, terminalVars, serverVars
 <2> QED BY <2>3, <2>4, <2>5, MembershipMoves
<1>11. ASSUME NEW call \in calls, RecheckInvite(call) PROVE InviteFollows'
 BY <1>11, MovedIsOld, InviteStays DEF RecheckInvite, terminalVars, serverVars
<1>12. ASSUME NEW call \in calls, ImportChatInvite(call) PROVE InviteFollows'
 <2>1. PICK b \in BOOLEAN, phase \in {"done", "failed"} :
         Becomes(call, [call EXCEPT !.phase = phase, !.detail.member = b])
  BY <1>12 DEF ImportChatInvite
 <2>2. PICK m : m = [call EXCEPT !.phase = phase, !.detail.member = b]
  OBVIOUS
 <2>3. CallShape(call) /\ phase \in Phases /\ DetailShape(call)
  BY DEF DialogInv, CallsInv, Phases, InviteFollows, JoinsFollow
 <2>4. CallShape(m) /\ m.id = call.id /\ m.acts = call.acts
  BY <2>2, <2>3 DEF CallShape
 <2>5. DetailShape(m) /\ m.detail.link = call.detail.link
       /\ m.detail.review = call.detail.review
  BY <2>2, <2>3 DEF CallShape, DetailShape
 <2>6. Becomes(call, m) /\ call.acts /\ UNCHANGED <<prompt, pending, nextRequest>>
       /\ effects' = effects \cup {<<call.detail.review, call.id>>}
  BY <1>12, <2>1, <2>2 DEF ImportChatInvite, terminalVars
 <2> QED BY <2>4, <2>5, <2>6, MembershipMoves
<1> QED BY <1>1, <1>2, <1>3, <1>4, <1>5, <1>6, <1>7, <1>8, <1>9, <1>10, <1>11, <1>12
        DEF InviteNext

LEMMA FollowersJoinOnce == InviteFollows => JoinsOncePerPreview /\ PreviewIsOfTheLink
  BY DEF InviteFollows, JoinsFollow, PromptFollows, JoinsOncePerPreview, PreviewIsOfTheLink

(* Chat information. A valid look-up that is awaited read the server after    *)
(* the last change that the terminal was told of.                             *)
InfoShape(p) == {"plan", "entry", "valid"} \subseteq DOMAIN p

AnswersFresh ==
    \A c \in calls : (AwaitedBy(pending, c) /\ c.phase = "done" /\ prompt.valid)
                        => c.version >= told

InfoInv ==
    /\ DialogInv
    /\ InfoShape(prompt)
    /\ told <= Changes(server)
    /\ \A c \in calls : ~c.acts
    /\ AnswersFresh
    /\ FreshInfoIsCurrent

LEMMA NoEntryPlan == Planned(NoEntry) /\ InfoShape(NoEntry) /\ NoEntry.plan = NoVersion
  BY NothingPlanned DEF Planned, NoEntry, InfoShape

LEMMA InfoBegins == InfoInit => InfoInv
<1> SUFFICES ASSUME InfoInit PROVE InfoInv
 OBVIOUS
<1>1. DialogInv
 BY NoEntryPlan, StartsReviewed DEF InfoInit
<1>2. prompt = NoEntry /\ calls = {} /\ told = 1 /\ server.version = 1 /\ server.gone = FALSE
 BY DEF InfoInit, DialogInit
<1> QED BY <1>1, <1>2, NoEntryPlan DEF InfoInv, AnswersFresh, FreshInfoIsCurrent, Changes

(* The terminal is told nothing, and what the entry says stays or goes. *)
LEMMA InfoStays ==
  ASSUME InfoInv, Steps, calls' \subseteq calls, UNCHANGED <<told, server>>, InfoShape(prompt'),
         prompt'.valid => prompt.valid,
         \/ pending' = pending
         \/ pending' = NoPending,
         \/ FreshInfoIsCurrent'
         \/ prompt'.entry = prompt.entry /\ prompt'.plan = prompt.plan
         \/ prompt'.entry # "fresh"
  PROVE  InfoInv'
<1>1. DialogInv' /\ told' <= Changes(server') /\ \A c \in calls' : ~c.acts
 BY DEF InfoInv, Steps, Changes
<1>2. AnswersFresh'
 <2>1. CASE pending' = pending
  BY <2>1 DEF InfoInv, AnswersFresh, AwaitedBy
 <2>2. CASE pending' = NoPending
  BY <2>2 DEF InfoInv, AnswersFresh, AwaitedBy, NoPending, DialogInv, CallsInv, CallShape
 <2> QED BY <2>1, <2>2
<1>3. FreshInfoIsCurrent'
 BY DEF InfoInv, FreshInfoIsCurrent, Known
<1> QED BY <1>1, <1>2, <1>3 DEF InfoInv

LEMMA ChangesGrow ==
  ASSUME DialogInv, OthersChange, told <= Changes(server)
  PROVE  told <= Changes(server')
<1>1. server.version \in Nat /\ server.gone = FALSE /\ told \in Nat
 BY DEF DialogInv, ServerShape, HoldsVersion, Version, OthersChange
<1>2. \/ server'.version = server.version + 1 /\ server'.gone = FALSE
      \/ server'.version = server.version /\ server'.gone = TRUE
 BY <1>1 DEF OthersChange, DialogInv, ServerShape, HoldsVersion
<1> QED BY <1>1, <1>2 DEF Changes

LEMMA InfoKeepsCurrent ==
  ASSUME InfoInv, InfoNext
  PROVE  InfoInv'
<1>0. DialogInv /\ Planned(prompt) /\ InfoShape(prompt) /\ told \in Nat \ {0}
 BY DEF InfoInv, DialogInv
<1>1. CASE ChatShown
 <2>1. UNCHANGED <<calls, nextRequest, server, carried, pending, told, prompt>>
  BY <1>1 DEF ChatShown, serverVars
 <2>2. Steps
  BY <1>0, <2>1, StepKeepsCalls
 <2> QED BY <1>0, <2>1, <2>2, InfoStays
<1>2. CASE InfoAges
 <2>1. UNCHANGED <<calls, nextRequest, server, carried, pending, told>>
       /\ prompt' = [prompt EXCEPT !.entry = "stale"]
  BY <1>2 DEF InfoAges, serverVars
 <2>2. Planned(prompt') /\ InfoShape(prompt') /\ prompt'.entry = "stale"
       /\ prompt'.valid = prompt.valid
  BY <1>0, <2>1 DEF Planned, InfoShape
 <2>3. Steps
  BY <1>0, <2>1, <2>2, StepKeepsCalls
 <2> QED BY <2>1, <2>2, <2>3, InfoStays
<1>3. CASE RequestVisibleChatInfo
 <2>1. /\ pending = NoPending /\ ~Known
       /\ prompt' = [prompt EXCEPT !.valid = TRUE]
       /\ Submit(FALSE, NoVersion, 0)
       /\ UNCHANGED <<server, told, carried>>
  BY <1>3 DEF RequestVisibleChatInfo, Idle, serverVars
 <2>2. Planned(prompt') /\ InfoShape(prompt') /\ prompt'.entry = prompt.entry
  BY <1>0, <2>1 DEF Planned, InfoShape
 <2>3. ~pending.saving
  BY <2>1 DEF NoPending
 <2>4. DialogInv'
  BY <1>0, <2>1, <2>2, <2>3, StepLooksUp DEF Steps
 <2>5. /\ pending'.id = nextRequest + 1 /\ nextRequest \in Nat
       /\ calls' = calls \cup {[id |-> nextRequest + 1, acts |-> FALSE, phase |-> "sent",
                                version |-> NoVersion, detail |-> 0]}
  BY <1>0, <2>1 DEF Submit, DialogInv, CallsInv
 <2>6. \A c \in calls : c.id # nextRequest + 1
  BY <1>0, <2>5 DEF DialogInv, CallsInv, CallShape
 <2>7. AnswersFresh'
  BY <2>5, <2>6 DEF AnswersFresh, AwaitedBy
 <2>8. FreshInfoIsCurrent' /\ \A c \in calls' : ~c.acts
  BY <2>1, <2>2, <2>5 DEF FreshInfoIsCurrent, Known, InfoInv
 <2> QED BY <2>1, <2>2, <2>4, <2>7, <2>8 DEF InfoInv, Changes
<1>4. CASE ChatInfoInvalidated
 <2>1. /\ told' \in Nat \ {0} /\ told' <= Changes(server)
       /\ prompt' = [NoEntry EXCEPT !.valid = FALSE]
       /\ UNCHANGED <<pending, nextRequest, calls, server, carried>>
  BY <1>0, <1>4 DEF ChatInfoInvalidated
 <2>2. /\ Planned(prompt') /\ InfoShape(prompt') /\ prompt'.plan = NoVersion
       /\ prompt'.valid = FALSE
  BY <2>1, NoEntryPlan DEF Planned, InfoShape
 <2>3. DialogInv'
  BY <1>0, <2>1, <2>2, StepKeepsCalls DEF Steps
 <2> QED BY <2>1, <2>2, <2>3 DEF InfoInv, AnswersFresh, FreshInfoIsCurrent, Changes
<1>5. CASE InfoOnline
 <2>1. UNCHANGED <<calls, nextRequest, server, carried, pending, told>>
  BY <1>5 DEF InfoOnline, serverVars
 <2>2. \/ prompt' = prompt
       \/ \E e \in {"none", "stale"} : prompt' = [prompt EXCEPT !.entry = e, !.valid = FALSE]
  BY <1>5 DEF InfoOnline
 <2>3. /\ Planned(prompt') /\ InfoShape(prompt') /\ (prompt'.valid => prompt.valid)
       /\ \/ prompt'.entry = prompt.entry /\ prompt'.plan = prompt.plan
          \/ prompt'.entry # "fresh"
  BY <1>0, <2>2 DEF Planned, InfoShape
 <2>4. Steps
  BY <1>0, <2>1, <2>3, StepKeepsCalls
 <2> QED BY <2>1, <2>3, <2>4, InfoStays
<1>6. CASE OthersChange
 <2>1. UNCHANGED <<prompt, pending, calls, told>>
  BY <1>6 DEF OthersChange, terminalVars
 <2>2. DialogInv'
  BY <1>0, <1>6, StepOfSurroundings DEF Steps, Surroundings
 <2>3. told' <= Changes(server')
  BY <1>0, <1>6, <2>1, ChangesGrow DEF InfoInv
 <2> QED BY <2>1, <2>2, <2>3 DEF InfoInv, AnswersFresh, FreshInfoIsCurrent, Known, AwaitedBy
<1>7. CASE AccountSwitch(NoEntry)
 <2>1. /\ calls' = {} /\ prompt' = NoEntry /\ UNCHANGED <<told, server>>
  BY <1>7 DEF AccountSwitch
 <2>2. DialogInv'
  BY <1>0, <1>7, NoEntryPlan, StepSwitches DEF Steps
 <2> QED BY <2>1, <2>2, NoEntryPlan DEF InfoInv, AnswersFresh, FreshInfoIsCurrent, Changes
<1>8. ASSUME NEW call \in calls, CallFails(call) PROVE InfoInv'
 <2>1. PICK m : m = [call EXCEPT !.phase = "failed"]
  OBVIOUS
 <2>2. calls' = (calls \ {call}) \cup {m} /\ UNCHANGED <<prompt, pending, told, server>>
  BY <1>8, <2>1 DEF CallFails, Becomes, terminalVars, serverVars
 <2>3. DialogInv'
  BY <1>0, <1>8, StepOfSurroundings DEF Steps, Surroundings
 <2>4. m.phase = "failed" /\ m.acts = call.acts
  BY <1>0, <2>1 DEF DialogInv, CallsInv, CallShape
 <2> QED BY <2>2, <2>3, <2>4
         DEF InfoInv, AnswersFresh, FreshInfoIsCurrent, Known, AwaitedBy, Changes
<1>9. ASSUME NEW call \in calls, AnswerIgnored(call) PROVE InfoInv'
 <2>1. calls' \subseteq calls /\ UNCHANGED <<prompt, pending, told, server>>
  BY <1>9 DEF AnswerIgnored, terminalVars, serverVars
 <2>2. Steps
  BY <1>0, <1>9, StepOfSurroundings DEF Surroundings
 <2> QED BY <1>0, <2>1, <2>2, InfoStays
<1>10. ASSUME NEW call \in calls, ChatInfoReady(call) PROVE InfoInv'
 <2>1. /\ call \in Answers /\ AwaitedBy(pending, call) /\ calls' = calls \ {call}
       /\ pending' = NoPending /\ UNCHANGED <<nextRequest, told, server, carried>>
  BY <1>10 DEF ChatInfoReady, Takes, serverVars
 <2>2. ~call.acts /\ (call.phase = "done" => call.version \in Version)
  BY <1>0 DEF InfoInv, DialogInv, CallsInv
 <2>3. call.phase # "failed" => call.phase = "done"
  BY <2>1 DEF Answers
 <2>4. /\ Planned(prompt') /\ InfoShape(prompt') /\ prompt'.valid = prompt.valid
       /\ FreshInfoIsCurrent'
  <3>1. CASE ~prompt.valid
   <4>1. prompt' = prompt
    BY <1>10, <3>1 DEF ChatInfoReady
   <4> QED BY <1>0, <2>1, <4>1 DEF InfoInv, FreshInfoIsCurrent, Known
  <3>2. CASE prompt.valid
   <4>1. prompt' = [prompt EXCEPT !.entry = "fresh",
                                  !.plan = IF call.phase = "failed" THEN NoVersion
                                           ELSE call.version]
    BY <1>10, <3>2 DEF ChatInfoReady
   <4>2. call.phase = "done" => call.version >= told
    BY <2>1, <3>2 DEF InfoInv, AnswersFresh
   <4>3. prompt'.plan = NoVersion \/ (prompt'.plan \in Version /\ prompt'.plan >= told)
    BY <1>0, <2>2, <2>3, <4>1, <4>2 DEF InfoShape
   <4> QED BY <1>0, <2>1, <4>1, <4>3
           DEF FreshInfoIsCurrent, Planned, InfoShape, MaybeVersion
  <3> QED BY <3>1, <3>2
 <2>5. Steps
  BY <1>0, <2>1, <2>4, StepReads
 <2> QED BY <2>1, <2>4, <2>5, InfoStays
<1>11. ASSUME NEW call \in calls, ChatInfoFetched(call) PROVE InfoInv'
 <2>1. PICK m : m = [call EXCEPT !.phase = "done", !.version = server.version]
  OBVIOUS
 <2>2. calls' = (calls \ {call}) \cup {m} /\ UNCHANGED <<prompt, pending, told, server>>
       /\ UNCHANGED <<terminalVars, serverVars>>
  BY <1>11, <2>1 DEF ChatInfoFetched, Becomes, terminalVars, serverVars
 <2>3. ~call.acts
  BY DEF InfoInv
 <2>4. DialogInv'
  BY <1>0, <1>11, <2>2, <2>3, StepAnswersVersion DEF Steps, ChatInfoFetched
 <2>5. ~m.acts /\ m.version = server.version /\ server.version >= told
  BY <1>0, <1>11, <2>1, <2>3
     DEF DialogInv, CallsInv, CallShape, ChatInfoFetched, InfoInv, Changes, ServerShape,
         HoldsVersion, Version
 <2> QED BY <2>2, <2>4, <2>5
         DEF InfoInv, AnswersFresh, FreshInfoIsCurrent, Known, AwaitedBy, Changes
<1> QED BY <1>1, <1>2, <1>3, <1>4, <1>5, <1>6, <1>7, <1>8, <1>9, <1>10, <1>11 DEF InfoNext

(* Stickers. The pictures under way are those of the downloads that count     *)
(* against the budget, one each.                                              *)
PanelShape(p) ==
    {"plan", "error", "documents", "set", "thumbs", "queued", "flying"} \subseteq DOMAIN p

Fields == {"id", "acts", "phase", "version", "detail"}
Thumbs(some) == {c \in some : c.detail \in Sticker}

\* What the prompt says of the pictures p.flying, and the calls for them.
PicturesUnderWay(p, some) ==
    /\ \A c \in some : Fields \subseteq DOMAIN c
    /\ \A a, b \in Thumbs(some) : a.detail = b.detail => a = b
    /\ p.flying = {c.detail : c \in Thumbs(some)}

PicturesInBudget(p) ==
    /\ PanelShape(p)
    /\ p.queued \subseteq Sticker /\ p.queued \cap p.flying = {}
    /\ IsFiniteSet(p.flying) /\ Cardinality(p.flying) <= MaxThumbs
    /\ DOMAIN p.thumbs = Sticker
    /\ \A s \in Sticker : p.thumbs[s] = "loading" <=> s \in p.flying

SetUnderWay(p, some) ==
    p.documents \in {"loading", "validating"} =>
        \E c \in some : c.detail = "set" /\ c.id = p.set

StickersInv ==
    /\ PicturesUnderWay(prompt, calls)
    /\ PicturesInBudget(prompt)
    /\ SetUnderWay(prompt, calls)

\* The step leaves the pictures of the prompt and their calls as they are.
SamePictures(p, q) ==
    /\ PanelShape(q)
    /\ UNCHANGED calls \/ Thumbs(calls') = Thumbs(calls)
    /\ \A c \in calls' : Fields \subseteq DOMAIN c
    /\ q.flying = p.flying /\ q.thumbs = p.thumbs
    /\ q.queued \subseteq p.queued

LEMMA PicturesStay ==
  ASSUME PicturesUnderWay(prompt, calls), PicturesInBudget(prompt),
         NEW q, SamePictures(prompt, q)
  PROVE  PicturesUnderWay(q, calls') /\ PicturesInBudget(q)
  BY DEF PicturesUnderWay, PicturesInBudget, SamePictures, Thumbs

LEMMA NoStickersShape ==
  /\ PanelShape(NoStickers) /\ PicturesUnderWay(NoStickers, {})
  /\ PicturesInBudget(NoStickers) /\ SetUnderWay(NoStickers, {})
<1>1. /\ NoStickers.flying = {} /\ NoStickers.queued = {} /\ NoStickers.documents = "none"
      /\ NoStickers.thumbs = [s \in Sticker |-> "none"] /\ PanelShape(NoStickers)
 BY DEF NoStickers, PanelShape
<1>2. IsFiniteSet({}) /\ Cardinality({}) <= MaxThumbs
 BY FS_EmptySet, StickerConstants
<1> QED BY <1>1, <1>2 DEF PicturesUnderWay, PicturesInBudget, SetUnderWay, Thumbs

(* A call for something else than a picture comes or goes, or any call moves on. *)
LEMMA OrderShape ==
  ASSUME NEW id, NEW d
  PROVE  Fields \subseteq DOMAIN Order(id, d) /\ Order(id, d).detail = d
         /\ Order(id, d).id = id
  BY DEF Order, Fields

LEMMA PictureMoves ==
  ASSUME NEW c \in calls, NEW m, StickersInv, Becomes(c, m), Fields \subseteq DOMAIN m,
         m.detail = c.detail, m.id = c.id, UNCHANGED prompt
  PROVE  StickersInv'
<1>1. calls' = (calls \ {c}) \cup {m}
 BY DEF Becomes
<1>2. PicturesUnderWay(prompt, calls')
 BY <1>1 DEF StickersInv, PicturesUnderWay, Thumbs
<1>3. SetUnderWay(prompt, calls')
 BY <1>1 DEF StickersInv, SetUnderWay
<1> QED BY <1>2, <1>3 DEF StickersInv, PicturesUnderWay, SetUnderWay, PicturesInBudget,
           PanelShape, Thumbs

LEMMA EnsuresSet ==
  ASSUME StickersInv, NEW p, NEW others, Ensures(p, others), others \subseteq calls,
         \A c \in calls \ others : c.detail = "overview",
         PanelShape(p), p.flying = prompt.flying, p.thumbs = prompt.thumbs,
         p.queued = prompt.queued, p.documents = prompt.documents, p.set = prompt.set
  PROVE  StickersInv'
<1>1. CASE prompt' = p /\ calls' = others
 <2>1. SamePictures(prompt, prompt')
  BY <1>1, StickerConstants DEF SamePictures, Thumbs, StickersInv, PicturesUnderWay
 <2>2. SetUnderWay(prompt', calls')
  BY <1>1 DEF StickersInv, SetUnderWay
 <2> QED BY <2>1, <2>2, PicturesStay
         DEF StickersInv, PicturesUnderWay, SetUnderWay, PicturesInBudget, PanelShape, Thumbs
<1>2. CASE /\ prompt' = [p EXCEPT !.documents = "loading", !.set = nextRequest + 1]
           /\ calls' = others \cup {Order(nextRequest + 1, "set")}
 <2>1. SamePictures(prompt, prompt')
  BY <1>2, StickerConstants, OrderShape
     DEF SamePictures, Thumbs, StickersInv, PicturesUnderWay, PanelShape
 <2>2. SetUnderWay(prompt', calls')
  BY <1>2, OrderShape DEF SetUnderWay, PanelShape
 <2> QED BY <2>1, <2>2, PicturesStay
         DEF StickersInv, PicturesUnderWay, SetUnderWay, PicturesInBudget, PanelShape, Thumbs
<1> QED BY <1>1, <1>2 DEF Ensures

LEMMA OverviewAsked ==
  ASSUME StickersInv, Submit(FALSE, NoVersion, "overview"), PanelShape(prompt'),
         UNCHANGED <<prompt.flying, prompt.queued, prompt.documents, prompt.set>>,
         DOMAIN prompt'.thumbs = Sticker,
         \A s \in Sticker : prompt'.thumbs[s] = "loading" <=> prompt.thumbs[s] = "loading"
  PROVE  StickersInv'
<1> DEFINE n == [id |-> nextRequest + 1, acts |-> FALSE, phase |-> "sent",
                 version |-> NoVersion, detail |-> "overview"]
<1>1. calls' = calls \cup {n}
 BY DEF Submit
<1>2. Fields \subseteq DOMAIN n /\ n.detail = "overview"
 BY DEF Fields
<1> HIDE DEF n
<1>3. Thumbs(calls') = Thumbs(calls)
 BY <1>1, <1>2, StickerConstants DEF Thumbs
<1>4. PicturesUnderWay(prompt', calls')
 BY <1>1, <1>2, <1>3 DEF StickersInv, PicturesUnderWay
<1>5. PicturesInBudget(prompt')
 BY DEF StickersInv, PicturesInBudget
<1>6. SetUnderWay(prompt', calls')
 BY <1>1 DEF StickersInv, SetUnderWay
<1> QED BY <1>4, <1>5, <1>6
        DEF StickersInv, PicturesUnderWay, SetUnderWay, PicturesInBudget, PanelShape, Thumbs

(* The prompt lets go of pictures that no call was made for; an answer goes that no picture
   and no set waits for. *)
LEMMA PanelStays ==
  ASSUME StickersInv, SamePictures(prompt, prompt'), SetUnderWay(prompt', calls')
  PROVE  StickersInv'
  BY PicturesStay
     DEF StickersInv, PicturesUnderWay, SetUnderWay, PicturesInBudget, PanelShape, Thumbs

LEMMA StickersKeepBudget ==
  ASSUME StickersInv, StickersNext
  PROVE  StickersInv'
<1>0. /\ PanelShape(prompt) /\ \A c \in calls : Fields \subseteq DOMAIN c
      /\ SetUnderWay(prompt, calls) /\ DOMAIN prompt.thumbs = Sticker
 BY DEF StickersInv, PicturesUnderWay, PicturesInBudget
<1>1. CASE BeginStickers
 <2> DEFINE t == [s \in Sticker |-> IF prompt.thumbs[s] = "failed" THEN "none"
                                    ELSE prompt.thumbs[s]]
 <2>1. prompt' = [prompt EXCEPT !.plan = NoVersion, !.error = FALSE, !.thumbs = t]
       /\ Submit(FALSE, NoVersion, "overview")
  BY <1>1 DEF BeginStickers
 <2>2. \A s \in Sticker : t[s] = "loading" <=> prompt.thumbs[s] = "loading"
  OBVIOUS
 <2>3. DOMAIN t = Sticker
  OBVIOUS
 <2> HIDE DEF t
 <2> QED BY <1>0, <2>1, <2>2, <2>3, OverviewAsked DEF PanelShape
<1>2. CASE CloseStickers
 BY <1>0, <1>2, PanelStays DEF CloseStickers, SamePictures, PanelShape, SetUnderWay
<1>3. CASE RefreshStickers
 <2>1. prompt' = [prompt EXCEPT !.error = FALSE] /\ Submit(FALSE, NoVersion, "overview")
  BY <1>3 DEF RefreshStickers
 <2> QED BY <1>0, <2>1, OverviewAsked DEF PanelShape
<1>4. CASE SelectSection
 BY <1>0, <1>4, EnsuresSet DEF SelectSection
<1>5. CASE AccountSwitch(NoStickers)
 <2>1. prompt' = NoStickers /\ calls' = {}
  BY <1>5 DEF AccountSwitch
 <2> QED BY <2>1, NoStickersShape
         DEF StickersInv, PicturesUnderWay, SetUnderWay, PicturesInBudget, PanelShape, Thumbs
<1>6. ASSUME NEW s \in Sticker, QueueThumb(s) PROVE StickersInv'
 <2>1. prompt' = [prompt EXCEPT !.queued = @ \cup {s}] /\ calls' = calls
       /\ s \notin prompt.flying
  BY <1>6 DEF QueueThumb
 <2>2. /\ PanelShape(prompt') /\ prompt'.queued = prompt.queued \cup {s}
       /\ UNCHANGED <<prompt.flying, prompt.thumbs, prompt.documents, prompt.set>>
  BY <1>0, <2>1 DEF PanelShape
 <2>3. PicturesInBudget(prompt')
  BY <2>1, <2>2 DEF StickersInv, PicturesInBudget
 <2> QED BY <2>1, <2>2, <2>3 DEF StickersInv, PicturesUnderWay, SetUnderWay, Thumbs,
         PicturesInBudget, PanelShape
<1>7. ASSUME NEW s \in Sticker, RequestStickerThumb(s) PROVE StickersInv'
 <2>1. /\ prompt' = [prompt EXCEPT !.queued = @ \ {s}, !.flying = @ \cup {s},
                                   !.thumbs[s] = "loading"]
       /\ calls' = calls \cup {Order(0, s)}
       /\ s \in prompt.queued /\ Cardinality(prompt.flying) < MaxThumbs
  BY <1>7 DEF RequestStickerThumb
 <2>2. /\ PanelShape(prompt') /\ prompt'.queued = prompt.queued \ {s}
       /\ prompt'.flying = prompt.flying \cup {s}
       /\ prompt'.thumbs = [prompt.thumbs EXCEPT ![s] = "loading"]
       /\ UNCHANGED <<prompt.documents, prompt.set>>
  BY <1>0, <2>1 DEF PanelShape
 <2>3. s \notin prompt.flying
  BY <2>1 DEF StickersInv, PicturesInBudget
 <2>4. /\ IsFiniteSet(prompt.flying \cup {s})
       /\ Cardinality(prompt.flying \cup {s}) = Cardinality(prompt.flying) + 1
       /\ Cardinality(prompt.flying) \in Nat
  BY <2>3, FS_AddElement, FS_CardinalityType DEF StickersInv, PicturesInBudget
 <2>5. Cardinality(prompt'.flying) <= MaxThumbs /\ IsFiniteSet(prompt'.flying)
  BY <2>1, <2>2, <2>4, StickerConstants
 <2>6. /\ DOMAIN prompt'.thumbs = Sticker
       /\ \A x \in Sticker : prompt'.thumbs[x] = "loading" <=> x \in prompt'.flying
  BY <1>0, <2>2 DEF StickersInv, PicturesInBudget
 <2>7. PicturesInBudget(prompt')
  BY <2>2, <2>5, <2>6 DEF StickersInv, PicturesInBudget
 <2>8. \A c \in Thumbs(calls) : c.detail # s
  BY <2>3 DEF StickersInv, PicturesUnderWay
 <2>9. Thumbs(calls') = Thumbs(calls) \cup {Order(0, s)}
  BY <2>1, OrderShape DEF Thumbs
 <2>10. PicturesUnderWay(prompt', calls')
  <3>1. \A c \in calls' : Fields \subseteq DOMAIN c
   BY <1>0, <2>1, OrderShape
  <3>2. \A a, b \in Thumbs(calls') : a.detail = b.detail => a = b
   BY <2>8, <2>9, OrderShape DEF StickersInv, PicturesUnderWay
  <3>3. prompt'.flying = {c.detail : c \in Thumbs(calls')}
   BY <2>2, <2>9, OrderShape DEF StickersInv, PicturesUnderWay
  <3> QED BY <3>1, <3>2, <3>3 DEF PicturesUnderWay
 <2>11. SetUnderWay(prompt', calls')
  BY <1>0, <2>1, <2>2 DEF SetUnderWay
 <2> QED BY <2>7, <2>10, <2>11 DEF StickersInv, PicturesUnderWay, SetUnderWay, Thumbs,
         PicturesInBudget, PanelShape
<1>8. ASSUME NEW call \in calls, CallFails(call) PROVE StickersInv'
 <2>1. PICK m : m = [call EXCEPT !.phase = "failed"]
  OBVIOUS
 <2>2. Fields \subseteq DOMAIN m /\ m.detail = call.detail /\ m.id = call.id
  BY <1>0, <2>1 DEF Fields
 <2> QED BY <1>8, <2>1, <2>2, PictureMoves DEF CallFails, terminalVars
<1>9. ASSUME NEW call \in calls, call.detail = "overview", AnswerIgnored(call)
      PROVE  StickersInv'
 <2>1. calls' = calls \ {call} /\ prompt' = prompt
  BY <1>9 DEF AnswerIgnored, terminalVars
 <2>2. SamePictures(prompt, prompt')
  BY <1>0, <1>9, <2>1, StickerConstants DEF SamePictures, Thumbs
 <2>3. SetUnderWay(prompt', calls')
  BY <1>0, <1>9, <2>1 DEF SetUnderWay
 <2> QED BY <2>2, <2>3, PanelStays
<1>10. ASSUME NEW call \in calls, CachedOverview(call) PROVE StickersInv'
 BY <1>0, <1>10, EnsuresSet DEF CachedOverview, PanelShape
<1>11. ASSUME NEW call \in calls, StickersLoaded(call) PROVE StickersInv'
 <2>1. CASE call.phase = "failed"
  <3>1. calls' = calls \ {call} /\ prompt' = [prompt EXCEPT !.error = TRUE]
        /\ call.detail = "overview"
   BY <1>11, <2>1 DEF StickersLoaded
  <3>2. SamePictures(prompt, prompt')
   BY <1>0, <3>1, StickerConstants DEF SamePictures, Thumbs, PanelShape
  <3>3. SetUnderWay(prompt', calls')
   BY <1>0, <3>1 DEF SetUnderWay, PanelShape
  <3> QED BY <3>2, <3>3, PanelStays
 <2>2. CASE call.phase # "failed"
  <3>1. Ensures([prompt EXCEPT !.plan = call.version, !.error = FALSE], calls \ {call})
        /\ call.detail = "overview"
   BY <1>11, <2>2 DEF StickersLoaded
  <3> QED BY <1>0, <3>1, EnsuresSet DEF PanelShape
 <2> QED BY <2>1, <2>2
<1>12. ASSUME NEW call \in calls, CachedSet(call) PROVE StickersInv'
 <2>1. /\ calls' = calls /\ prompt' = [prompt EXCEPT !.documents = "validating"]
       /\ prompt.documents \in {"loading", "validating"}
  BY <1>12 DEF CachedSet
 <2> QED BY <1>0, <2>1, PanelStays DEF SamePictures, PanelShape, SetUnderWay
<1>13. ASSUME NEW call \in calls, StickerSetLoaded(call) PROVE StickersInv'
 <2>1. calls' = calls \ {call} /\ call.detail = "set"
  BY <1>13 DEF StickerSetLoaded
 <2>2. Thumbs(calls') = Thumbs(calls)
  BY <2>1, StickerConstants DEF Thumbs
 <2>3. CASE prompt.set # call.id
  <3>1. prompt' = prompt
   BY <1>13, <2>3 DEF StickerSetLoaded
  <3> QED BY <1>0, <2>1, <2>2, <2>3, <3>1, PanelStays DEF SamePictures, SetUnderWay
 <2>4. CASE prompt.set = call.id
  <3>1. prompt' = [prompt EXCEPT
                      !.set = 0,
                      !.error = @ \/ (call.phase = "failed"
                                      /\ prompt.documents = "validating"),
                      !.documents = IF call.phase = "failed" /\ @ = "loading"
                                    THEN "failed" ELSE "loaded"]
   BY <1>13, <2>4 DEF StickerSetLoaded
  <3>2. /\ PanelShape(prompt') /\ prompt'.documents \in {"failed", "loaded"}
        /\ UNCHANGED <<prompt.flying, prompt.thumbs, prompt.queued>>
   BY <1>0, <3>1 DEF PanelShape
  <3> QED BY <1>0, <2>1, <2>2, <3>2, PanelStays DEF SamePictures, SetUnderWay
 <2> QED BY <2>3, <2>4
<1>14. ASSUME NEW call \in calls, StickerThumbDownloaded(call) PROVE StickersInv'
 <2>1. PICK s \in Sticker, x \in {"failed", "ready"} :
         /\ calls' = calls \ {call} /\ call.detail = s
         /\ prompt' = [prompt EXCEPT !.flying = @ \ {s}, !.thumbs[s] = x]
  BY <1>14 DEF StickerThumbDownloaded
 <2>2. /\ PanelShape(prompt') /\ prompt'.queued = prompt.queued
       /\ prompt'.flying = prompt.flying \ {s}
       /\ prompt'.thumbs = [prompt.thumbs EXCEPT ![s] = x]
       /\ UNCHANGED <<prompt.documents, prompt.set>>
  BY <1>0, <2>1 DEF PanelShape
 <2>3. IsFiniteSet(prompt'.flying) /\ Cardinality(prompt'.flying) <= MaxThumbs
  <3>1. /\ IsFiniteSet(prompt.flying) /\ Cardinality(prompt.flying) <= MaxThumbs
        /\ prompt'.flying \in SUBSET prompt.flying
   BY <2>2 DEF StickersInv, PicturesInBudget
  <3>2. /\ IsFiniteSet(prompt'.flying)
        /\ Cardinality(prompt'.flying) <= Cardinality(prompt.flying)
        /\ Cardinality(prompt'.flying) \in Nat /\ Cardinality(prompt.flying) \in Nat
   BY <3>1, FS_Subset, FS_CardinalityType
  <3> QED BY <3>1, <3>2, StickerConstants
 <2>4. /\ DOMAIN prompt'.thumbs = Sticker
       /\ \A y \in Sticker : prompt'.thumbs[y] = "loading" <=> y \in prompt'.flying
  BY <1>0, <2>2 DEF StickersInv, PicturesInBudget
 <2>5. PicturesInBudget(prompt')
  BY <2>2, <2>3, <2>4 DEF StickersInv, PicturesInBudget
 <2>6. Thumbs(calls') = Thumbs(calls) \ {call} /\ call \in Thumbs(calls)
  BY <2>1 DEF Thumbs
 <2>7. PicturesUnderWay(prompt', calls')
  <3>1. /\ \A c \in calls' : Fields \subseteq DOMAIN c
        /\ \A a, b \in Thumbs(calls') : a.detail = b.detail => a = b
   BY <1>0, <2>1, <2>6 DEF StickersInv, PicturesUnderWay
  <3>2. \A c \in Thumbs(calls) : c.detail = s => c = call
   BY <2>1, <2>6 DEF StickersInv, PicturesUnderWay
  <3>3. \A c \in Thumbs(calls') : c.detail \in prompt'.flying
   BY <2>1, <2>2, <2>6, <3>2 DEF StickersInv, PicturesUnderWay
  <3>4. ASSUME NEW y \in prompt'.flying PROVE \E c \in Thumbs(calls') : y = c.detail
   <4>1. PICK c \in Thumbs(calls) : y = c.detail /\ y # s
    BY <2>2 DEF StickersInv, PicturesUnderWay
   <4> QED BY <2>1, <2>6, <4>1
  <3>5. prompt'.flying = {c.detail : c \in Thumbs(calls')}
   BY <3>3, <3>4
  <3> QED BY <3>1, <3>5 DEF PicturesUnderWay
 <2>8. SetUnderWay(prompt', calls')
  BY <1>0, <2>1, <2>2, StickerConstants DEF SetUnderWay
 <2> QED BY <2>5, <2>7, <2>8 DEF StickersInv, PicturesUnderWay, SetUnderWay, Thumbs,
         PicturesInBudget, PanelShape
<1>15. ASSUME NEW call \in calls, StickersFetched(call) PROVE StickersInv'
 <2>1. PICK m : m = [call EXCEPT !.phase = "done", !.version = server.version]
  OBVIOUS
 <2>2. Fields \subseteq DOMAIN m /\ m.detail = call.detail /\ m.id = call.id
  BY <1>0, <2>1 DEF Fields
 <2> QED BY <1>15, <2>1, <2>2, PictureMoves DEF StickersFetched, terminalVars
<1> QED BY <1>1, <1>2, <1>3, <1>4, <1>5, <1>6, <1>7, <1>8, <1>9, <1>10, <1>11, <1>12, <1>13,
<1>14, <1>15 DEF StickersNext

LEMMA PicturesAreInBudget == StickersInv => ThumbBudget /\ SetOnItsWay
<1> SUFFICES ASSUME StickersInv PROVE ThumbBudget /\ SetOnItsWay
 OBVIOUS
<1> DEFINE f == [c \in Thumbs(calls) |-> c.detail]
<1>1. f \in Injection(Thumbs(calls), prompt.flying)
 BY DEF StickersInv, PicturesUnderWay, Injection, IsInjective
<1>2. IsFiniteSet(Thumbs(calls)) /\ Cardinality(Thumbs(calls)) <= Cardinality(prompt.flying)
 BY <1>1, FS_Injection DEF StickersInv, PicturesInBudget
<1>3. Cardinality(Thumbs(calls)) <= MaxThumbs
 BY <1>2, FS_CardinalityType, StickerConstants DEF StickersInv, PicturesInBudget
<1>4. \A s \in Sticker : prompt.thumbs[s] = "loading" <=> \E call \in calls : call.detail = s
 BY DEF StickersInv, PicturesInBudget, PicturesUnderWay, Thumbs
<1> QED BY <1>3, <1>4 DEF ThumbBudget, SetOnItsWay, StickersInv, SetUnderWay, Thumbs

-----------------------------------------------------------------------------
(* What the terminal was told is respected. A review that has come and was not *)
(* found invalid since looks like what the terminal was told last, and so does *)
(* the one that the dialog still waits for: the deletion and the forwarding.  *)
WaryShape(p) == {"open", "plan", "invalid"} \subseteq DOMAIN p

PlanFits ==
    prompt.open /\ prompt.plan # NoVersion /\ ~prompt.invalid =>
        ~ToldGone /\ Looks(prompt.plan) >= Looks(told)

LooksWhileOpen ==
    ~pending.saving /\ pending.id # 0 => prompt.open /\ prompt.plan = NoVersion

AwaitedFit ==
    \A c \in calls : (~c.acts /\ c.phase = "done" /\ AwaitedBy(pending, c) /\ ~prompt.invalid)
                        => ~ToldGone /\ c.version >= told

WaryInv ==
    /\ DialogInv
    /\ WaryShape(prompt)
    /\ told <= Changes(server)
    /\ PlanFits
    /\ LooksWhileOpen
    /\ AwaitedFit

\* A version that is confirmed looks like what the terminal was told.
ConfirmsFitting ==
    \A c \in calls' \ calls : (c.acts /\ c.phase = "sent") =>
        ~ToldGone /\ Looks(c.version) >= Looks(told)

LEMMA LooksAlike ==
  ASSUME NEW v \in Nat, NEW w \in Nat, v >= w
  PROVE  Looks(v) >= Looks(w)
  BY DEF Looks

LEMMA NewerLooks ==
  ASSUME DialogInv, NEW v \in Version, v >= told
  PROVE  Looks(v) >= Looks(told)
  BY LooksAlike DEF DialogInv, Version

\* The server's object only gets newer, and what was told of it stays told.
Grows ==
    /\ server'.version >= server.version
    /\ told <= Changes(server')

LEMMA SameServerGrows ==
  ASSUME DialogInv, told <= Changes(server), UNCHANGED server
  PROVE  Grows
  BY DEF Grows, DialogInv, ServerShape, HoldsVersion, Version

LEMMA OthersGrow ==
  ASSUME DialogInv, told <= Changes(server), OthersChange
  PROVE  Grows
<1>1. told <= Changes(server')
 BY ChangesGrow
<1>2. server'.version >= server.version
 <2>1. server.version \in Nat
  BY DEF DialogInv, ServerShape, HoldsVersion, Version
 <2>2. server'.version \in {server.version, server.version + 1}
  BY DEF OthersChange, DialogInv, ServerShape, HoldsVersion
 <2> QED BY <2>1, <2>2
<1> QED BY <1>1, <1>2 DEF Grows

LEMMA ToldStaysThere ==
  ASSUME DialogInv, DialogInv', Grows, UNCHANGED told, ~ToldGone
  PROVE  ~ToldGone'
  BY DEF Grows, DialogInv, ServerShape, HoldsVersion, Version, ToldGone

NoNewAnswers ==
    /\ \A c \in calls' : ~c.acts /\ c.phase = "done" => c \in calls
    /\ \A c \in calls' \ calls : ~(c.acts /\ c.phase = "sent")

\* What becomes of the prompt when nothing is told: it goes, is found invalid, or
\* changes in what the review does not depend on.
PromptStays ==
    /\ WaryShape(prompt')
    /\ \/ UNCHANGED <<prompt.open, prompt.plan>> /\ (prompt.invalid => prompt'.invalid)
       \/ ~prompt'.open /\ pending' = NoPending

LEMMA WaryStays ==
  ASSUME WaryInv, DialogInv', NoNewAnswers, Grows, UNCHANGED told, PromptStays,
         pending' = pending \/ pending' = NoPending
  PROVE  WaryInv' /\ ConfirmsFitting
<1>1. told' <= Changes(server') /\ WaryShape(prompt')
 BY DEF Grows, PromptStays
<1>2. ~ToldGone => ~ToldGone'
 BY ToldStaysThere DEF WaryInv
<1>3. PlanFits'
 BY <1>2 DEF WaryInv, PlanFits, PromptStays
<1>4. LooksWhileOpen'
 BY DEF WaryInv, LooksWhileOpen, PromptStays, NoPending
<1>5. AwaitedFit'
 <2>1. CASE pending' = NoPending
  BY <2>1 DEF AwaitedFit, AwaitedBy, NoPending, DialogInv, CallsInv, CallShape
 <2>2. CASE pending' = pending /\ pending # NoPending
  <3>1. prompt.invalid => prompt'.invalid
   BY <2>2 DEF PromptStays
  <3> QED BY <1>2, <2>2, <3>1 DEF WaryInv, AwaitedFit, AwaitedBy, NoNewAnswers
 <2> QED BY <2>1, <2>2
<1>6. ConfirmsFitting
 BY DEF ConfirmsFitting, NoNewAnswers
<1> QED BY <1>1, <1>3, <1>4, <1>5, <1>6 DEF WaryInv

LEMMA WaryBegins ==
  ASSUME NEW p, DialogInit(p), Planned(p), WaryShape(p), p.plan = NoVersion
  PROVE  WaryInv
<1>1. DialogInv
 BY StartsReviewed
<1>2. prompt = p /\ pending = [id |-> 0, saving |-> FALSE] /\ calls = {} /\ told = 1
      /\ server.version = 1 /\ server.gone = FALSE /\ pending.id = 0
 BY DEF DialogInit, NoPending
<1> QED BY <1>1, <1>2 DEF WaryInv, PlanFits, LooksWhileOpen, AwaitedFit, Changes

(* The prompt opens and a review is asked for. *)
LEMMA WaryAsks ==
  ASSUME WaryInv, DialogInv', NEW d, Submit(FALSE, NoVersion, d), WaryShape(prompt'),
         prompt'.open, prompt'.plan = NoVersion, UNCHANGED <<told, server>>
  PROVE  WaryInv' /\ ConfirmsFitting
<1>1. /\ pending' = [id |-> nextRequest + 1, saving |-> FALSE]
      /\ calls' = calls \cup {[id |-> nextRequest + 1, acts |-> FALSE, phase |-> "sent",
                               version |-> NoVersion, detail |-> d]}
      /\ pending'.id = nextRequest + 1 /\ nextRequest \in Nat
 BY DEF Submit, WaryInv, DialogInv, CallsInv
<1>2. \A c \in calls : c.id # nextRequest + 1
 BY <1>1 DEF WaryInv, DialogInv, CallsInv, CallShape
<1>3. AwaitedFit'
 BY <1>1, <1>2 DEF AwaitedFit, AwaitedBy
<1>4. ConfirmsFitting
 BY <1>1 DEF ConfirmsFitting
<1>5. told' <= Changes(server') /\ PlanFits' /\ LooksWhileOpen'
 BY DEF WaryInv, Changes, PlanFits, LooksWhileOpen
<1> QED BY <1>3, <1>4, <1>5 DEF WaryInv

(* The user confirms what the review found. *)
LEMMA WaryConfirms ==
  ASSUME WaryInv, DialogInv', NEW d, Submit(TRUE, prompt.plan, d), prompt.open,
         prompt.plan # NoVersion, ~prompt.invalid, UNCHANGED <<prompt, told, server>>
  PROVE  WaryInv' /\ ConfirmsFitting
<1>1. /\ pending' = [id |-> nextRequest + 1, saving |-> TRUE]
      /\ calls' = calls \cup {[id |-> nextRequest + 1, acts |-> TRUE, phase |-> "sent",
                               version |-> prompt.plan, detail |-> d]}
      /\ pending'.saving = TRUE
 BY DEF Submit
<1>2. PlanFits' /\ LooksWhileOpen' /\ told' <= Changes(server') /\ WaryShape(prompt')
 BY <1>1 DEF WaryInv, PlanFits, LooksWhileOpen, ToldGone, Changes
<1>3. AwaitedFit'
 BY <1>1 DEF AwaitedFit, AwaitedBy
<1>4. ConfirmsFitting
 BY <1>1 DEF ConfirmsFitting, WaryInv, PlanFits
<1> QED BY <1>2, <1>3, <1>4 DEF WaryInv

(* The review that is awaited comes. *)
LEMMA WaryReads ==
  ASSUME WaryInv, DialogInv', NEW c \in Answers, ~c.acts, AwaitedBy(pending, c),
         calls' = calls \ {c}, pending' = NoPending, UNCHANGED <<told, server>>,
         c.phase = "done", ~prompt.invalid,
         WaryShape(prompt'), prompt'.plan = c.version
  PROVE  WaryInv' /\ ConfirmsFitting
<1>1. ~ToldGone /\ c.version >= told /\ c.version \in Version
 BY DEF WaryInv, AwaitedFit, Answers, DialogInv, CallsInv
<1>2. Looks(c.version) >= Looks(told)
 BY <1>1, NewerLooks DEF WaryInv
<1>3. PlanFits'
 BY <1>1, <1>2 DEF PlanFits, ToldGone
<1>4. LooksWhileOpen' /\ AwaitedFit'
 BY DEF LooksWhileOpen, AwaitedFit, AwaitedBy, NoPending, WaryInv, DialogInv, CallsInv, CallShape
<1>5. ConfirmsFitting /\ told' <= Changes(server')
 BY DEF ConfirmsFitting, WaryInv, Changes
<1> QED BY <1>3, <1>4, <1>5 DEF WaryInv

(* The terminal is told of a change. *)
LEMMA WaryIsTold ==
  ASSUME WaryInv, DialogInv', told < Changes(server), told' = told + 1,
         UNCHANGED <<calls, pending, server>>, WaryShape(prompt'),
         \/ prompt'.invalid /\ UNCHANGED <<prompt.open, prompt.plan>>
         \/ /\ prompt' = prompt
            /\ prompt.open => /\ told' <= server.version /\ prompt.plan # NoVersion
                              /\ Looks(prompt.plan) = Looks(told')
  PROVE  WaryInv' /\ ConfirmsFitting
<1>1. told' <= Changes(server')
 BY DEF WaryInv, DialogInv, ServerShape, HoldsVersion, Version, Changes
<1>2. PlanFits'
 <2>1. told' \in Nat /\ server.version \in Nat
  BY DEF WaryInv, DialogInv, ServerShape, HoldsVersion, Version
 <2>2. told' \div 2 \in Nat
  BY <2>1
 <2>3. CASE prompt'.invalid
  BY <2>3 DEF PlanFits
 <2>4. CASE prompt' = prompt /\ ~prompt.open
  BY <2>4 DEF PlanFits
 <2>5. CASE /\ prompt' = prompt /\ told' <= server.version
            /\ Looks(prompt.plan) = Looks(told')
  <3>1. ~ToldGone'
   BY <2>1, <2>5 DEF ToldGone
  <3>2. prompt'.plan \div 2 = told' \div 2
   BY <2>5 DEF Looks
  <3> QED BY <2>2, <3>1, <3>2 DEF PlanFits, Looks
 <2> QED BY <2>3, <2>4, <2>5
<1>3. LooksWhileOpen'
 BY DEF WaryInv, LooksWhileOpen
<1>4. AwaitedFit'
 <2> SUFFICES ASSUME NEW c \in calls, ~c.acts, AwaitedBy(pending, c), ~prompt'.invalid
              PROVE  FALSE
  BY DEF AwaitedFit, AwaitedBy
 <2>1. pending.id # 0 /\ ~pending.saving
  BY DEF AwaitedBy, WaryInv, DialogInv, CallsInv, CallShape
 <2> QED BY <2>1 DEF WaryInv, LooksWhileOpen
<1>5. ConfirmsFitting
 BY DEF ConfirmsFitting
<1> QED BY <1>1, <1>2, <1>3, <1>4, <1>5 DEF WaryInv

(* The worker reviews the object as the server has it. *)
LEMMA WaryReviews ==
  ASSUME WaryInv, DialogInv', NEW c \in calls, ~c.acts, ~server.gone, NEW m, Becomes(c, m),
         CallShape(m), ~m.acts, m.version = server.version,
         UNCHANGED <<terminalVars, serverVars>>
  PROVE  WaryInv' /\ ConfirmsFitting
<1>1. calls' = (calls \ {c}) \cup {m} /\ UNCHANGED <<prompt, pending, told, server>>
 BY DEF Becomes, terminalVars, serverVars
<1>2. ~ToldGone /\ server.version >= told
 BY DEF WaryInv, DialogInv, ServerShape, HoldsVersion, Version, Changes, ToldGone
<1>3. AwaitedFit'
 BY <1>1, <1>2 DEF WaryInv, AwaitedFit, AwaitedBy, ToldGone
<1>4. ConfirmsFitting
 BY <1>1 DEF ConfirmsFitting
<1>5. PlanFits' /\ LooksWhileOpen' /\ told' <= Changes(server')
 BY <1>1 DEF WaryInv, PlanFits, LooksWhileOpen, ToldGone, Changes
<1> QED BY <1>1, <1>3, <1>4, <1>5 DEF WaryInv

(* A call that acts moves on, or one that failed. *)
LEMMA MovesOnSilently ==
  ASSUME DialogInv, NEW c \in calls, NEW phase \in {"checked", "done", "failed"},
         Becomes(c, [c EXCEPT !.phase = phase]), c.acts \/ phase = "failed"
  PROVE  NoNewAnswers
<1>1. PICK m : m = [c EXCEPT !.phase = phase]
 OBVIOUS
<1>2. m.phase = phase /\ m.acts = c.acts
 BY <1>1 DEF DialogInv, CallsInv, CallShape
<1>3. calls' = (calls \ {c}) \cup {m}
 BY <1>1 DEF Becomes
<1> QED BY <1>2, <1>3 DEF NoNewAnswers

LEMMA SurroundingsAreSilent ==
  ASSUME DialogInv, told <= Changes(server), Surroundings
  PROVE  NoNewAnswers /\ Grows /\ UNCHANGED <<prompt, pending, told>>
<1>1. CASE ConnectionChanges \/ ModeReset
 BY <1>1, SameServerGrows DEF ConnectionChanges, ModeReset, serverVars, NoNewAnswers
<1>2. CASE OthersChange
 BY <1>2, OthersGrow DEF OthersChange, terminalVars, NoNewAnswers
<1>3. ASSUME NEW c \in calls, CallFails(c)
      PROVE  NoNewAnswers /\ Grows /\ UNCHANGED <<prompt, pending, told>>
 BY <1>3, SameServerGrows, MovesOnSilently DEF CallFails, serverVars, terminalVars
<1>4. ASSUME NEW c \in calls, AnswerIgnored(c)
      PROVE  NoNewAnswers /\ Grows /\ UNCHANGED <<prompt, pending, told>>
 BY <1>4, SameServerGrows DEF AnswerIgnored, serverVars, terminalVars, NoNewAnswers
<1> QED BY <1>1, <1>2, <1>3, <1>4 DEF Surroundings

LEMMA FewerAreSilent ==
  ASSUME calls' \subseteq calls
  PROVE  NoNewAnswers
  BY DEF NoNewAnswers

LEMMA DeletionIsWary ==
  ASSUME WaryInv, DeletionNext
  PROVE  WaryInv' /\ ConfirmsFitting
<1>0. DialogInv /\ WaryShape(prompt) /\ DialogInv' /\ told <= Changes(server)
 BY DeletionStep DEF WaryInv, Steps
<1>00. WaryShape(DeletionClosed) /\ ~DeletionClosed.open
 BY DEF WaryShape, DeletionClosed
<1>1. CASE BeginDeletion
 <2>1. WaryShape(prompt') /\ prompt'.open /\ prompt'.plan = NoVersion
  BY <1>1 DEF BeginDeletion, DeletionClosed, WaryShape
 <2> QED BY <1>0, <1>1, <2>1, WaryAsks DEF BeginDeletion, serverVars
<1>2. CASE SelectScope
 <2>1. PICK n : prompt' = [prompt EXCEPT !.selected = n]
  BY <1>2 DEF SelectScope
 <2>2. PromptStays
  BY <1>0, <2>1 DEF PromptStays, WaryShape
 <2> QED BY <1>0, <1>2, <2>2, WaryStays, FewerAreSilent, SameServerGrows
         DEF SelectScope, serverVars
<1>3. CASE ConfirmDeletion
 BY <1>0, <1>3, WaryConfirms DEF ConfirmDeletion, serverVars
<1>4. CASE CloseDeletion
 <2>1. PromptStays /\ (pending' = pending \/ pending' = NoPending) /\ calls' = calls
       /\ UNCHANGED <<told, server>>
  BY <1>0, <1>00, <1>4 DEF CloseDeletion, LetGo, PromptStays, serverVars
 <2> QED BY <1>0, <2>1, WaryStays, FewerAreSilent, SameServerGrows
<1>5. CASE DeletionTold
 <2>1. CASE prompt' = Invalidated(prompt)
  <3>1. WaryShape(prompt') /\ prompt'.invalid /\ UNCHANGED <<prompt.open, prompt.plan>>
   BY <1>0, <2>1 DEF Invalidated, WaryShape
  <3> QED BY <1>0, <1>5, <3>1, WaryIsTold DEF DeletionTold
 <2>2. CASE /\ prompt' = prompt
            /\ ~(prompt.open /\ \/ told' > server.version
                                \/ prompt.plan = NoVersion
                                \/ Looks(prompt.plan) # Looks(told'))
  <3>1. told' \in Nat /\ server.version \in Nat
   BY <1>0, <1>5 DEF DialogInv, ServerShape, HoldsVersion, Version
  <3> QED BY <1>0, <1>5, <2>2, <3>1, WaryIsTold DEF DeletionTold
 <2> QED BY <1>5, <2>1, <2>2 DEF DeletionTold
<1>6. CASE DeletionInvalidated
 <2>1. PromptStays
  BY <1>0, <1>6 DEF DeletionInvalidated, PromptStays, Invalidated, WaryShape
 <2> QED BY <1>0, <1>6, <2>1, WaryStays, FewerAreSilent, SameServerGrows
         DEF DeletionInvalidated, serverVars
<1>7. CASE AccountSwitch(DeletionClosed)
 <2>1. PromptStays /\ pending' = NoPending /\ calls' \subseteq calls
       /\ UNCHANGED <<told, server>>
  BY <1>00, <1>7 DEF AccountSwitch, PromptStays
 <2> QED BY <1>0, <2>1, WaryStays, FewerAreSilent, SameServerGrows
<1>8. CASE Surroundings
 <2>1. NoNewAnswers /\ Grows /\ UNCHANGED <<prompt, pending, told>>
  BY <1>0, <1>8, SurroundingsAreSilent
 <2> QED BY <1>0, <2>1, WaryStays DEF PromptStays
<1>9. ASSUME NEW call \in calls, DeletionReady(call) PROVE WaryInv' /\ ConfirmsFitting
 <2>1. /\ call \in Answers /\ ~call.acts /\ AwaitedBy(pending, call)
       /\ calls' = calls \ {call} /\ pending' = NoPending /\ UNCHANGED <<told, server>>
  BY <1>9 DEF DeletionReady, Takes, serverVars
 <2>2. CASE prompt.invalid \/ call.phase = "failed"
  <3>1. PromptStays
   BY <1>0, <1>9, <2>2 DEF DeletionReady, PromptStays
  <3> QED BY <1>0, <2>1, <3>1, WaryStays, FewerAreSilent, SameServerGrows
 <2>3. CASE ~(prompt.invalid \/ call.phase = "failed")
  <3>1. prompt' = [prompt EXCEPT !.plan = call.version, !.scopes = call.detail,
                                 !.selected = 0]
   BY <1>9, <2>3 DEF DeletionReady
  <3>2. WaryShape(prompt') /\ prompt'.plan = call.version /\ call.phase = "done"
   BY <1>0, <2>1, <2>3, <3>1 DEF WaryShape, Answers
  <3> QED BY <1>0, <2>1, <2>3, <3>2, WaryReads
 <2> QED BY <2>2, <2>3
<1>10. ASSUME NEW call \in calls, DeletionFinished(call) PROVE WaryInv' /\ ConfirmsFitting
 <2>1. /\ calls' \subseteq calls /\ pending' = NoPending /\ UNCHANGED <<told, server>>
       /\ prompt' = [prompt EXCEPT !.selected = 0] \/ prompt' = DeletionClosed
  BY <1>10 DEF DeletionFinished, Takes, serverVars
 <2>2. PromptStays
  BY <1>0, <1>00, <2>1 DEF PromptStays, WaryShape
 <2> QED BY <1>0, <2>1, <2>2, WaryStays, FewerAreSilent, SameServerGrows
<1>11. ASSUME NEW call \in calls, ReviewDeletion(call) PROVE WaryInv' /\ ConfirmsFitting
 <2>1. PICK scopes : Becomes(call, Answered(call, server.version, scopes))
  BY <1>11 DEF ReviewDeletion, Answered
 <2>2. CallShape(call) /\ server.version \in Version
  BY <1>0 DEF DialogInv, CallsInv, ServerShape, HoldsVersion
 <2> QED BY <1>0, <1>11, <2>1, <2>2, CallAnswered, WaryReviews DEF ReviewDeletion
<1>12. ASSUME NEW call \in calls, RecheckDeletion(call) PROVE WaryInv' /\ ConfirmsFitting
 <2>1. NoNewAnswers /\ UNCHANGED <<prompt, pending, told, server>>
  BY <1>0, <1>12, MovesOnSilently DEF RecheckDeletion, terminalVars, serverVars
 <2> QED BY <1>0, <2>1, WaryStays, SameServerGrows DEF PromptStays
<1>13. ASSUME NEW call \in calls, DeleteMessage(call) PROVE WaryInv' /\ ConfirmsFitting
 <2>1. NoNewAnswers /\ UNCHANGED <<prompt, pending, told>>
       /\ server' = [server EXCEPT !.gone = TRUE]
  BY <1>0, <1>13, MovesOnSilently DEF DeleteMessage, terminalVars
 <2>2. Grows
  BY <1>0, <2>1 DEF Grows, Changes, DialogInv, ServerShape, HoldsVersion, Version
 <2> QED BY <1>0, <2>1, <2>2, WaryStays DEF PromptStays
<1> QED BY <1>1, <1>2, <1>3, <1>4, <1>5, <1>6, <1>7, <1>8, <1>9, <1>10, <1>11, <1>12, <1>13
        DEF DeletionNext

LEMMA ForwardIsWary ==
  ASSUME WaryInv, ForwardNext
  PROVE  WaryInv' /\ ConfirmsFitting
<1>0. DialogInv /\ WaryShape(prompt) /\ DialogInv' /\ told <= Changes(server)
 BY ForwardStep DEF WaryInv, Steps
<1>00. WaryShape(ForwardClosed) /\ ~ForwardClosed.open
 BY DEF WaryShape, ForwardClosed
<1>1. CASE ReviewForward
 <2>1. WaryShape(prompt') /\ prompt'.open /\ prompt'.plan = NoVersion
  BY <1>1 DEF ReviewForward, ForwardClosed, WaryShape
 <2> QED BY <1>0, <1>1, <2>1, WaryAsks DEF ReviewForward, serverVars
<1>2. CASE ReopenForward
 BY <1>0, <1>2, WaryStays, FewerAreSilent, SameServerGrows
    DEF ReopenForward, serverVars, PromptStays
<1>3. CASE SendForward
 BY <1>0, <1>3, WaryConfirms DEF SendForward, serverVars
<1>4. CASE CancelForward
 <2>1. PromptStays /\ (pending' = pending \/ pending' = NoPending) /\ calls' = calls
       /\ UNCHANGED <<told, server>>
  BY <1>0, <1>00, <1>4 DEF CancelForward, LetGo, PromptStays, serverVars
 <2> QED BY <1>0, <2>1, WaryStays, FewerAreSilent, SameServerGrows
<1>5. CASE ForwardTold
 <2>1. CASE prompt' = [prompt EXCEPT !.invalid = TRUE, !.error = TRUE]
  <3>1. WaryShape(prompt') /\ prompt'.invalid /\ UNCHANGED <<prompt.open, prompt.plan>>
   BY <1>0, <2>1 DEF WaryShape
  <3> QED BY <1>0, <1>5, <3>1, WaryIsTold DEF ForwardTold
 <2>2. CASE /\ prompt' = prompt
            /\ ~(prompt.open /\ \/ told' > server.version
                                \/ prompt.plan = NoVersion
                                \/ Looks(prompt.plan) # Looks(told'))
  <3>1. told' \in Nat /\ server.version \in Nat
   BY <1>0, <1>5 DEF DialogInv, ServerShape, HoldsVersion, Version
  <3> QED BY <1>0, <1>5, <2>2, <3>1, WaryIsTold DEF ForwardTold
 <2> QED BY <1>5, <2>1, <2>2 DEF ForwardTold
<1>6. CASE ForwardInvalidated
 <2>1. PromptStays
  BY <1>0, <1>6 DEF ForwardInvalidated, PromptStays, WaryShape
 <2> QED BY <1>0, <1>6, <2>1, WaryStays, FewerAreSilent, SameServerGrows
         DEF ForwardInvalidated, serverVars
<1>7. CASE AccountSwitch(ForwardClosed)
 <2>1. PromptStays /\ pending' = NoPending /\ calls' \subseteq calls
       /\ UNCHANGED <<told, server>>
  BY <1>00, <1>7 DEF AccountSwitch, PromptStays
 <2> QED BY <1>0, <2>1, WaryStays, FewerAreSilent, SameServerGrows
<1>8. CASE Surroundings
 <2>1. NoNewAnswers /\ Grows /\ UNCHANGED <<prompt, pending, told>>
  BY <1>0, <1>8, SurroundingsAreSilent
 <2> QED BY <1>0, <2>1, WaryStays DEF PromptStays
<1>9. ASSUME NEW call \in calls, ForwardReady(call) PROVE WaryInv' /\ ConfirmsFitting
 <2>1. /\ call \in Answers /\ ~call.acts /\ AwaitedBy(pending, call)
       /\ calls' = calls \ {call} /\ pending' = NoPending /\ UNCHANGED <<told, server>>
  BY <1>9 DEF ForwardReady, Takes, serverVars
 <2>2. CASE ~prompt.open \/ prompt.invalid \/ call.phase = "failed"
  <3>1. prompt' = prompt \/ prompt' = [prompt EXCEPT !.error = TRUE]
   BY <1>9, <2>2 DEF ForwardReady
  <3>2. PromptStays
   BY <1>0, <3>1 DEF PromptStays, WaryShape
  <3> QED BY <1>0, <2>1, <3>2, WaryStays, FewerAreSilent, SameServerGrows
 <2>3. CASE ~(~prompt.open \/ prompt.invalid \/ call.phase = "failed")
  <3>1. prompt' = [prompt EXCEPT !.plan = call.version, !.random = call.detail[2]]
   BY <1>9, <2>3 DEF ForwardReady
  <3>2. WaryShape(prompt') /\ prompt'.plan = call.version /\ call.phase = "done"
   BY <1>0, <2>1, <2>3, <3>1 DEF WaryShape, Answers
  <3> QED BY <1>0, <2>1, <2>3, <3>2, WaryReads
 <2> QED BY <2>2, <2>3
<1>10. ASSUME NEW call \in calls, ForwardFinished(call) PROVE WaryInv' /\ ConfirmsFitting
 <2>1. /\ calls' \subseteq calls /\ pending' = NoPending /\ UNCHANGED <<told, server>>
       /\ prompt' = [prompt EXCEPT !.error = prompt.open] \/ prompt' = ForwardClosed
  BY <1>10 DEF ForwardFinished, Takes, serverVars
 <2>2. PromptStays
  BY <1>0, <1>00, <2>1 DEF PromptStays, WaryShape
 <2> QED BY <1>0, <2>1, <2>2, WaryStays, FewerAreSilent, SameServerGrows
<1>11. ASSUME NEW call \in calls, OriginalFetched(call) PROVE WaryInv' /\ ConfirmsFitting
 <2>1. Becomes(call, Answered(call, server.version, <<0, Fresh>>))
  BY <1>11 DEF OriginalFetched, Answered
 <2>2. CallShape(call) /\ server.version \in Version
  BY <1>0 DEF DialogInv, CallsInv, ServerShape, HoldsVersion
 <2> QED BY <1>0, <1>11, <2>1, <2>2, CallAnswered, WaryReviews DEF OriginalFetched
<1>12. ASSUME NEW call \in calls, RecheckOriginal(call) PROVE WaryInv' /\ ConfirmsFitting
 <2>1. NoNewAnswers /\ UNCHANGED <<prompt, pending, told, server>>
  BY <1>0, <1>12, MovesOnSilently DEF RecheckOriginal, terminalVars, serverVars
 <2> QED BY <1>0, <2>1, WaryStays, SameServerGrows DEF PromptStays
<1>13. ASSUME NEW call \in calls, ForwardMessage(call) PROVE WaryInv' /\ ConfirmsFitting
 <2>1. NoNewAnswers /\ UNCHANGED <<prompt, pending, told, server>>
  BY <1>0, <1>13, MovesOnSilently DEF ForwardMessage, terminalVars
 <2> QED BY <1>0, <2>1, WaryStays, SameServerGrows DEF PromptStays
<1> QED BY <1>1, <1>2, <1>3, <1>4, <1>5, <1>6, <1>7, <1>8, <1>9, <1>10, <1>11, <1>12, <1>13
        DEF ForwardNext

(* A review of a poll or of reactions that is ready is of what the terminal   *)
(* was told last, or newer; so is the answer that it waits for, once what was *)
(* told since it was asked for is replayed over it.                           *)
HeedShape(p) == {"open", "plan", "ready"} \subseteq DOMAIN p

ReadyFits == prompt.ready => prompt.open /\ ~ToldGone /\ prompt.plan >= told

AwaitsOpen == ~pending.saving /\ pending.id # 0 => prompt.open

LooksSince ==
    \A c \in calls : ~c.acts =>
        /\ c.detail \in Nat /\ c.detail <= told
        /\ c.phase = "done" => c.version >= c.detail
        /\ c.phase = "done" /\ AwaitedBy(pending, c) => ~ToldGone

HeedInv ==
    /\ DialogInv
    /\ HeedShape(prompt)
    /\ told <= Changes(server)
    /\ ReadyFits
    /\ AwaitsOpen
    /\ LooksSince

\* A version that is confirmed is no older than what the terminal was told.
ConfirmsCurrent ==
    \A c \in calls' \ calls : (c.acts /\ c.phase = "sent") => ~ToldGone /\ c.version >= told

LEMMA AwaitedHasNumber ==
  ASSUME DialogInv, NEW c \in calls, ~c.acts, AwaitedBy(pending, c)
  PROVE  pending.id # 0 /\ ~pending.saving
  BY DEF AwaitedBy, DialogInv, CallsInv, CallShape

LEMMA NoneAwaited ==
  ASSUME DialogInv', pending' = NoPending, NEW c \in calls'
  PROVE  ~AwaitedBy(pending', c)
  BY DEF AwaitedBy, DialogInv, CallsInv, CallShape, NoPending

\* The review is ready only if it was, for the same version; it closes only when
\* nothing is awaited.
PromptHeeds ==
    /\ HeedShape(prompt')
    /\ prompt'.ready => prompt.ready /\ UNCHANGED <<prompt.open, prompt.plan>>
    /\ (prompt.open => prompt'.open) \/ pending' = NoPending

LEMMA HeedBegins ==
  ASSUME NEW p, DialogInit(p), Planned(p), HeedShape(p), p.plan = NoVersion, ~p.ready
  PROVE  HeedInv
<1>1. DialogInv
 BY StartsReviewed
<1>2. prompt = p /\ pending = [id |-> 0, saving |-> FALSE] /\ calls = {} /\ told = 1
      /\ server.version = 1 /\ server.gone = FALSE /\ pending.id = 0
 BY DEF DialogInit, NoPending
<1> QED BY <1>1, <1>2 DEF HeedInv, ReadyFits, AwaitsOpen, LooksSince, Changes

LEMMA HeedStays ==
  ASSUME HeedInv, DialogInv', NoNewAnswers, CallsAreOld, Grows, UNCHANGED told, PromptHeeds,
         pending' = pending \/ pending' = NoPending
  PROVE  HeedInv' /\ ConfirmsCurrent
<1>1. ~ToldGone => ~ToldGone'
 BY ToldStaysThere DEF HeedInv
<1>2. ReadyFits'
 BY <1>1 DEF HeedInv, ReadyFits, PromptHeeds
<1>3. AwaitsOpen'
 BY DEF HeedInv, AwaitsOpen, PromptHeeds, NoPending
<1>4. LooksSince'
 <2> SUFFICES ASSUME NEW c \in calls', ~c.acts
              PROVE  /\ c.detail \in Nat /\ c.detail <= told'
                     /\ c.phase = "done" => c.version >= c.detail
                     /\ c.phase = "done" /\ AwaitedBy(pending', c) => ~ToldGone'
  BY DEF LooksSince
 <2>1. c.detail \in Nat /\ c.detail <= told'
  BY DEF HeedInv, LooksSince, CallsAreOld, Same
 <2>2. c.phase = "done" => c \in calls
  BY DEF NoNewAnswers
 <2>3. AwaitedBy(pending', c) => AwaitedBy(pending, c)
  BY NoneAwaited
 <2> QED BY <1>1, <2>1, <2>2, <2>3 DEF HeedInv, LooksSince
<1>5. ConfirmsCurrent
 BY DEF ConfirmsCurrent, NoNewAnswers
<1> QED BY <1>2, <1>3, <1>4, <1>5 DEF HeedInv, PromptHeeds, Grows

(* A look-up is asked for, alone or with the answer read before it. *)
LEMMA HeedAsks ==
  ASSUME HeedInv, DialogInv', NEW kept \in SUBSET calls,
         calls' = kept \cup {[id |-> nextRequest + 1, acts |-> FALSE, phase |-> "sent",
                              version |-> NoVersion, detail |-> told]},
         pending' = [id |-> nextRequest + 1, saving |-> FALSE],
         HeedShape(prompt'), prompt'.open, ~prompt'.ready, UNCHANGED <<told, server>>
  PROVE  HeedInv' /\ ConfirmsCurrent
<1>1. \A c \in calls : c.id # nextRequest + 1
 BY DEF HeedInv, DialogInv, CallsInv, CallShape
<1>2. pending'.id = nextRequest + 1
 OBVIOUS
<1>3. LooksSince'
 <2> SUFFICES ASSUME NEW c \in calls', ~c.acts
              PROVE  /\ c.detail \in Nat /\ c.detail <= told'
                     /\ c.phase = "done" => c.version >= c.detail
                     /\ c.phase = "done" /\ AwaitedBy(pending', c) => ~ToldGone'
  BY DEF LooksSince
 <2>1. CASE c \in calls
  BY <1>1, <1>2, <2>1 DEF HeedInv, LooksSince, AwaitedBy
 <2>2. CASE c \notin calls
  BY <2>2 DEF HeedInv, DialogInv
 <2> QED BY <2>1, <2>2
<1>4. ReadyFits' /\ AwaitsOpen' /\ told' <= Changes(server')
 BY DEF ReadyFits, AwaitsOpen, HeedInv, Changes
<1>5. ConfirmsCurrent
 BY DEF ConfirmsCurrent
<1> QED BY <1>3, <1>4, <1>5 DEF HeedInv

LEMMA HeedConfirms ==
  ASSUME HeedInv, DialogInv', NEW d, Submit(TRUE, prompt.plan, d), prompt.ready,
         UNCHANGED <<prompt, told, server>>
  PROVE  HeedInv' /\ ConfirmsCurrent
<1>1. /\ pending' = [id |-> nextRequest + 1, saving |-> TRUE]
      /\ calls' = calls \cup {[id |-> nextRequest + 1, acts |-> TRUE, phase |-> "sent",
                               version |-> prompt.plan, detail |-> d]}
      /\ pending'.saving = TRUE
 BY DEF Submit
<1>2. ReadyFits' /\ AwaitsOpen' /\ told' <= Changes(server') /\ HeedShape(prompt')
 BY <1>1 DEF HeedInv, ReadyFits, AwaitsOpen, ToldGone, Changes
<1>3. LooksSince'
 <2> SUFFICES ASSUME NEW c \in calls', ~c.acts
              PROVE  /\ c.detail \in Nat /\ c.detail <= told'
                     /\ c.phase = "done" => c.version >= c.detail
                     /\ c.phase = "done" /\ AwaitedBy(pending', c) => ~ToldGone'
  BY DEF LooksSince
 <2>1. c \in calls
  BY <1>1
 <2>2. ~AwaitedBy(pending', c)
  BY <1>1, <2>1 DEF AwaitedBy, HeedInv, DialogInv, CallsInv, CallShape
 <2> QED BY <2>1, <2>2 DEF HeedInv, LooksSince
<1>4. ConfirmsCurrent
 BY <1>1 DEF ConfirmsCurrent, HeedInv, ReadyFits
<1> QED BY <1>2, <1>3, <1>4 DEF HeedInv

LEMMA HeedReads ==
  ASSUME HeedInv, DialogInv', NEW c \in Answers, ~c.acts, AwaitedBy(pending, c),
         calls' = calls \ {c}, pending' = NoPending, UNCHANGED <<told, server>>,
         c.phase = "done", HeedShape(prompt'), prompt'.open = prompt.open,
         prompt'.plan = IF told > c.detail /\ ~ToldGone THEN told ELSE c.version
  PROVE  HeedInv' /\ ConfirmsCurrent
<1>1. /\ ~ToldGone /\ c.version >= c.detail /\ c.detail \in Nat /\ c.detail <= told
      /\ c.version \in Nat /\ told \in Nat
 BY DEF HeedInv, LooksSince, Answers, DialogInv, CallsInv, Version
<1>2. prompt.open
 BY AwaitedHasNumber DEF HeedInv, AwaitsOpen, Answers
<1>3. ReadyFits' /\ told' <= Changes(server')
 BY <1>1, <1>2 DEF ReadyFits, ToldGone, HeedInv, Changes
<1>4. AwaitsOpen' /\ LooksSince'
 BY NoneAwaited DEF AwaitsOpen, NoPending, HeedInv, LooksSince, ToldGone
<1>5. ConfirmsCurrent
 BY DEF ConfirmsCurrent
<1> QED BY <1>3, <1>4, <1>5 DEF HeedInv

LEMMA HeedIsTold ==
  ASSUME HeedInv, DialogInv', told < Changes(server), told' = told + 1,
         UNCHANGED <<calls, server>>, HeedShape(prompt'), prompt'.open = prompt.open,
         \/ ~prompt.open /\ pending' = pending /\ prompt' = prompt
         \/ ~prompt'.ready /\ pending' = IF pending.saving THEN pending ELSE NoPending
         \/ /\ prompt.open /\ told' <= server.version /\ pending' = pending
            /\ prompt'.ready => prompt'.plan = told'
  PROVE  HeedInv' /\ ConfirmsCurrent
<1>1. told' \in Nat /\ server.version \in Nat
 BY DEF HeedInv, DialogInv, ServerShape, HoldsVersion, Version
<1>2. told' <= Changes(server')
 BY DEF HeedInv, DialogInv, ServerShape, HoldsVersion, Version, Changes
<1>3. ReadyFits'
 BY <1>1 DEF HeedInv, ReadyFits, ToldGone
<1>4. AwaitsOpen'
 BY DEF HeedInv, AwaitsOpen, NoPending
<1>5. LooksSince'
 <2> SUFFICES ASSUME NEW c \in calls, ~c.acts
              PROVE  /\ c.detail \in Nat /\ c.detail <= told'
                     /\ c.phase = "done" => c.version >= c.detail
                     /\ c.phase = "done" /\ AwaitedBy(pending', c) => ~ToldGone'
  BY DEF LooksSince
 <2>1. /\ c.detail \in Nat /\ c.detail <= told'
       /\ c.phase = "done" => c.version >= c.detail
  BY DEF HeedInv, LooksSince, DialogInv
 <2>2. ASSUME AwaitedBy(pending', c) PROVE told' <= server.version
  <3>1. pending' = pending /\ ~pending.saving
   BY <2>2, NoneAwaited DEF AwaitedBy
  <3>2. prompt.open /\ pending # NoPending
   BY <2>2, <3>1, AwaitedHasNumber DEF HeedInv, AwaitsOpen, NoPending
  <3> QED BY <3>1, <3>2
 <2> QED BY <1>1, <2>1, <2>2 DEF ToldGone
<1>6. ConfirmsCurrent
 BY DEF ConfirmsCurrent
<1> QED BY <1>2, <1>3, <1>4, <1>5, <1>6 DEF HeedInv

LEMMA HeedReviews ==
  ASSUME HeedInv, DialogInv', NEW c \in calls, ~c.acts, ~server.gone,
         Becomes(c, [c EXCEPT !.phase = "done", !.version = server.version]),
         UNCHANGED <<terminalVars, serverVars>>
  PROVE  HeedInv' /\ ConfirmsCurrent
<1>0. PICK m : m = [c EXCEPT !.phase = "done", !.version = server.version]
 OBVIOUS
<1>1. calls' = (calls \ {c}) \cup {m} /\ UNCHANGED <<prompt, pending, told, server>>
      /\ m.version = server.version /\ m.detail = c.detail /\ ~m.acts
 BY <1>0 DEF Becomes, terminalVars, serverVars, HeedInv, DialogInv, CallsInv, CallShape
<1>2. ~ToldGone /\ server.version >= told /\ server.version \in Nat /\ told \in Nat
 BY DEF HeedInv, DialogInv, ServerShape, HoldsVersion, Version, Changes, ToldGone
<1>3. LooksSince'
 BY <1>1, <1>2 DEF HeedInv, LooksSince, AwaitedBy, ToldGone
<1>4. ConfirmsCurrent
 BY <1>1 DEF ConfirmsCurrent
<1>5. ReadyFits' /\ AwaitsOpen' /\ told' <= Changes(server')
 BY <1>1 DEF HeedInv, ReadyFits, AwaitsOpen, ToldGone, Changes
<1> QED BY <1>1, <1>3, <1>4, <1>5 DEF HeedInv

LEMMA FewerStay ==
  ASSUME HeedInv, DialogInv', calls' \subseteq calls, UNCHANGED <<told, server>>, PromptHeeds,
         pending' = pending \/ pending' = NoPending
  PROVE  HeedInv' /\ ConfirmsCurrent
  BY HeedStays, FewerAreOld, FewerAreSilent, SameServerGrows DEF HeedInv

LEMMA PollHeeds ==
  ASSUME PollInv, HeedInv, PollNext
  PROVE  HeedInv' /\ ConfirmsCurrent
<1>0. DialogInv /\ HeedShape(prompt) /\ DialogInv' /\ told <= Changes(server)
 BY PollStep DEF HeedInv, Steps
<1>00. HeedShape(PollClosed) /\ ~PollClosed.open /\ ~PollClosed.ready
 BY DEF HeedShape, PollClosed
<1>1. CASE BeginPoll
 <2>1. PICK row : LoadPoll([PollClosed EXCEPT !.open = TRUE, !.plan = row])
  BY <1>1 DEF BeginPoll
 <2>2. PICK p : p = [PollClosed EXCEPT !.open = TRUE, !.plan = row]
  OBVIOUS
 <2>20. HeedShape(p) /\ p.open /\ ~p.ready
  BY <2>2 DEF HeedShape, PollClosed
 <2>3. HeedShape(prompt') /\ prompt'.open /\ ~prompt'.ready
  BY <2>1, <2>2, <2>20 DEF LoadPoll, HeedShape
 <2>4. CASE online
  <3>1. Submit(FALSE, NoVersion, told)
   BY <2>1, <2>4 DEF LoadPoll
  <3> QED BY <1>0, <1>1, <2>3, <3>1, HeedAsks DEF Submit, BeginPoll, serverVars
 <2>5. CASE ~online
  BY <1>0, <1>1, <2>1, <2>3, <2>5, FewerStay DEF LoadPoll, BeginPoll, serverVars, PromptHeeds
 <2> QED BY <2>4, <2>5
<1>2. CASE RefreshReview
 <2>1. prompt' = [prompt EXCEPT !.ready = FALSE] /\ Submit(FALSE, NoVersion, told)
       /\ prompt.open /\ UNCHANGED <<told, server>>
  BY <1>2 DEF RefreshReview, LoadPoll, serverVars
 <2>2. HeedShape(prompt') /\ prompt'.open /\ ~prompt'.ready
  BY <1>0, <2>1 DEF HeedShape
 <2> QED BY <1>0, <2>1, <2>2, HeedAsks DEF Submit
<1>3. CASE PickAnswers
 <2>1. PromptHeeds
  BY <1>0, <1>3 DEF PickAnswers, PromptHeeds, HeedShape
 <2> QED BY <1>0, <1>3, <2>1, FewerStay DEF PickAnswers, serverVars
<1>4. CASE SubmitVote
 BY <1>0, <1>4, HeedConfirms DEF SubmitVote, serverVars
<1>5. CASE ClosePoll
 <2>1. PromptHeeds /\ (pending' = pending \/ pending' = NoPending)
  BY <1>0, <1>00, <1>5 DEF ClosePoll, LetGo, PromptHeeds
 <2> QED BY <1>0, <1>5, <2>1, FewerStay DEF ClosePoll, LetGo, serverVars
<1>6. CASE PollTold
 <2>1. told < Changes(server) /\ told' = told + 1 /\ UNCHANGED <<calls, server>>
  BY <1>6 DEF PollTold
 <2>2. CASE ~prompt.open
  BY <1>0, <1>6, <2>1, <2>2, HeedIsTold DEF PollTold
 <2>3. CASE prompt.open /\ told' > server.version
  <3>1. prompt' = [prompt EXCEPT !.ready = FALSE]
        /\ pending' = IF pending.saving THEN pending ELSE NoPending
   BY <1>6, <2>3 DEF PollTold
  <3>2. HeedShape(prompt') /\ prompt'.open = prompt.open /\ ~prompt'.ready
   BY <1>0, <3>1 DEF HeedShape
  <3> QED BY <1>0, <2>1, <3>1, <3>2, HeedIsTold
 <2>4. CASE prompt.open /\ ~(told' > server.version)
  <3>1. prompt' = Shown(prompt, told', FALSE) /\ pending' = pending
   BY <1>6, <2>4 DEF PollTold
  <3>2. HeedShape(prompt') /\ prompt'.open = prompt.open /\ prompt'.plan = told'
   BY <1>0, <3>1 DEF HeedShape, Shown
  <3>3. told' <= server.version
   BY <1>0, <2>1, <2>4 DEF DialogInv, ServerShape, HoldsVersion, Version
  <3> QED BY <1>0, <2>1, <2>4, <3>1, <3>2, <3>3, HeedIsTold
 <2> QED BY <2>2, <2>3, <2>4
<1>7. CASE PollInvalidated
 <2>1. PromptHeeds /\ (pending' = pending \/ pending' = NoPending)
  BY <1>0, <1>7 DEF PollInvalidated, PromptHeeds, HeedShape
 <2> QED BY <1>0, <1>7, <2>1, FewerStay DEF PollInvalidated, serverVars
<1>8. CASE AccountSwitch(PollClosed)
 <2>1. PromptHeeds /\ pending' = NoPending /\ calls' = {} /\ UNCHANGED <<told, server>>
  BY <1>00, <1>8 DEF AccountSwitch, PromptHeeds
 <2> QED BY <1>0, <2>1, FewerStay
<1>9. CASE Surroundings
 <2>1. NoNewAnswers /\ Grows /\ CallsAreOld /\ UNCHANGED <<prompt, pending, told>>
  BY <1>0, <1>9, SurroundingsAreSilent, SurroundingsAreOld
 <2> QED BY <1>0, <2>1, HeedStays DEF PromptHeeds
<1>10. ASSUME NEW call \in calls, PollLoaded(call) PROVE HeedInv' /\ ConfirmsCurrent
 <2>1. /\ call \in Answers /\ ~call.acts /\ AwaitedBy(pending, call)
       /\ calls' = calls \ {call} /\ pending' = NoPending /\ UNCHANGED <<told, server>>
  BY <1>10 DEF PollLoaded, Takes, serverVars
 <2>2. CASE call.phase = "failed"
  <3>1. prompt' = prompt
   BY <1>10, <2>2 DEF PollLoaded
  <3> QED BY <1>0, <2>1, <3>1, FewerStay DEF PromptHeeds
 <2>3. CASE call.phase # "failed"
  <3> DEFINE v == IF told > call.detail /\ ~ToldGone THEN told ELSE call.version
  <3>1. PICK fresh : prompt' = [Shown(prompt, v, TRUE) EXCEPT !.ready = fresh]
   BY <1>10, <2>3 DEF PollLoaded
  <3> HIDE DEF v
  <3>2. HeedShape(prompt') /\ prompt'.open = prompt.open /\ prompt'.plan = v
   BY <1>0, <3>1 DEF HeedShape, Shown
  <3>3. call.phase = "done"
   BY <2>1, <2>3 DEF Answers
  <3> QED BY <1>0, <2>1, <3>2, <3>3, HeedReads DEF v
 <2> QED BY <2>2, <2>3
<1>11. ASSUME NEW call \in calls, VoteFinished(call) PROVE HeedInv' /\ ConfirmsCurrent
 <2> DEFINE p == [prompt EXCEPT !.picked = NoVersion]
            l == [prompt EXCEPT !.picked = NoVersion, !.ready = FALSE]
            f == [prompt EXCEPT !.ready = FALSE]
 <2>1. /\ HeedShape(l) /\ l.open /\ ~l.ready
       /\ HeedShape(f) /\ f.open /\ ~f.ready
       /\ HeedShape(p) /\ p.ready = prompt.ready /\ p.open = prompt.open
       /\ p.plan = prompt.plan
  BY <1>0, <1>11 DEF HeedShape, VoteFinished
 <2>2. UNCHANGED <<told, server>>
  BY <1>11 DEF VoteFinished, serverVars
 <2> HIDE DEF p, l, f
 <2>3. CASE Settles(call, f) \/ Settles(call, PollClosed) \/ Settles(call, p)
  <3>1. PromptHeeds
   BY <1>00, <2>1, <2>3 DEF Settles, PromptHeeds
  <3> QED BY <1>0, <2>2, <2>3, <3>1, FewerStay DEF Settles
 <2>4. CASE SettlesAndLooks(call, p, l, told) /\ ~Settles(call, p)
  <3>1. /\ pending' = [id |-> nextRequest + 1, saving |-> FALSE] /\ prompt' = l
        /\ calls' = (calls \ {call}) \cup
                    {[id |-> nextRequest + 1, acts |-> FALSE, phase |-> "sent",
                      version |-> NoVersion, detail |-> told]}
   BY <2>4 DEF SettlesAndLooks
  <3>2. calls \ {call} \in SUBSET calls
   OBVIOUS
  <3> QED BY <1>0, <2>1, <2>2, <3>1, <3>2, HeedAsks
 <2> QED BY <1>11, <2>3, <2>4 DEF VoteFinished, p, l, f
<1>12. ASSUME NEW call \in calls, PollFetched(call) PROVE HeedInv' /\ ConfirmsCurrent
 BY <1>0, <1>12, HeedReviews DEF PollFetched
<1>13. ASSUME NEW call \in calls, RecheckPoll(call) PROVE HeedInv' /\ ConfirmsCurrent
 <2>1. NoNewAnswers /\ CallsAreOld /\ UNCHANGED <<prompt, pending, told, server>>
  BY <1>0, <1>13, MovesOnSilently, MovedIsOld DEF RecheckPoll, terminalVars, serverVars
 <2> QED BY <1>0, <2>1, HeedStays, SameServerGrows DEF PromptHeeds
<1>14. ASSUME NEW call \in calls, SendVote(call) PROVE HeedInv' /\ ConfirmsCurrent
 <2>1. NoNewAnswers /\ CallsAreOld /\ UNCHANGED <<prompt, pending, told, server>>
  BY <1>0, <1>14, MovesOnSilently, MovedIsOld DEF SendVote, terminalVars
 <2> QED BY <1>0, <2>1, HeedStays, SameServerGrows DEF PromptHeeds
<1> QED BY <1>1, <1>2, <1>3, <1>4, <1>5, <1>6, <1>7, <1>8, <1>9, <1>10, <1>11, <1>12, <1>13,
<1>14 DEF PollNext

LEMMA ReactionHeeds ==
  ASSUME HeedInv, ReactionNext
  PROVE  HeedInv' /\ ConfirmsCurrent
<1>0. DialogInv /\ HeedShape(prompt) /\ DialogInv' /\ told <= Changes(server)
 BY ReactionStep DEF HeedInv, Steps
<1>00. HeedShape(PanelClosed) /\ ~PanelClosed.open /\ ~PanelClosed.ready
 BY DEF HeedShape, PanelClosed
<1>1. CASE BeginReactions \/ RefreshPanel
 <2>1. PICK p : LoadReactions(p) /\ HeedShape(p) /\ p.open /\ UNCHANGED <<told, server>>
  <3>1. CASE BeginReactions
   BY <3>1, <1>00 DEF BeginReactions, HeedShape, serverVars, PanelClosed
  <3>2. CASE RefreshPanel
   BY <1>0, <3>2 DEF RefreshPanel, serverVars
  <3> QED BY <1>1, <3>1, <3>2
 <2>2. prompt' = [p EXCEPT !.ready = FALSE]
  BY <2>1 DEF LoadReactions
 <2>3. HeedShape(prompt') /\ prompt'.open /\ ~prompt'.ready
  BY <2>1, <2>2 DEF HeedShape
 <2>4. CASE online
  <3>1. Submit(FALSE, NoVersion, told)
   BY <2>1, <2>4 DEF LoadReactions
  <3> QED BY <1>0, <2>1, <2>3, <3>1, HeedAsks DEF Submit
 <2>5. CASE ~online
  BY <1>0, <2>1, <2>3, <2>5, FewerStay DEF LoadReactions, PromptHeeds
 <2> QED BY <2>4, <2>5
<1>4. CASE ChangeReaction
 BY <1>0, <1>4, HeedConfirms DEF ChangeReaction, serverVars
<1>5. CASE CloseReactions
 <2>1. PromptHeeds /\ (pending' = pending \/ pending' = NoPending)
  BY <1>0, <1>00, <1>5 DEF CloseReactions, LetGo, PromptHeeds
 <2> QED BY <1>0, <1>5, <2>1, FewerStay DEF CloseReactions, LetGo, serverVars
<1>6. CASE ReactionsTold
 <2>1. told < Changes(server) /\ told' = told + 1 /\ UNCHANGED <<calls, server>>
  BY <1>6 DEF ReactionsTold
 <2>2. CASE ~prompt.open
  BY <1>0, <1>6, <2>1, <2>2, HeedIsTold DEF ReactionsTold
 <2>3. CASE prompt.open /\ told' > server.version
  <3>1. prompt' = [prompt EXCEPT !.ready = FALSE]
        /\ pending' = IF pending.saving THEN pending ELSE NoPending
   BY <1>6, <2>3 DEF ReactionsTold
  <3>2. HeedShape(prompt') /\ prompt'.open = prompt.open /\ ~prompt'.ready
   BY <1>0, <3>1 DEF HeedShape
  <3> QED BY <1>0, <2>1, <3>1, <3>2, HeedIsTold
 <2>4. CASE prompt.open /\ ~(told' > server.version)
  <3>1. /\ prompt' = [prompt EXCEPT !.plan = IF @ = NoVersion THEN @ ELSE told']
        /\ pending' = pending
   BY <1>6, <2>4 DEF ReactionsTold
  <3>2. prompt.ready => prompt.plan # NoVersion
   BY <1>0 DEF HeedInv, ReadyFits, NoVersion, DialogInv
  <3>3. HeedShape(prompt') /\ prompt'.open = prompt.open
        /\ (prompt'.ready => prompt'.plan = told')
   BY <1>0, <3>1, <3>2 DEF HeedShape
  <3>4. told' <= server.version
   BY <1>0, <2>1, <2>4 DEF DialogInv, ServerShape, HoldsVersion, Version
  <3> QED BY <1>0, <2>1, <2>4, <3>1, <3>3, <3>4, HeedIsTold
 <2> QED BY <2>2, <2>3, <2>4
<1>7. CASE ReactionsInvalidated
 <2>1. PromptHeeds /\ (pending' = pending \/ pending' = NoPending)
  BY <1>0, <1>7 DEF ReactionsInvalidated, PromptHeeds, HeedShape
 <2> QED BY <1>0, <1>7, <2>1, FewerStay DEF ReactionsInvalidated, serverVars
<1>8. CASE AccountSwitch(PanelClosed)
 <2>1. PromptHeeds /\ pending' = NoPending /\ calls' = {} /\ UNCHANGED <<told, server>>
  BY <1>00, <1>8 DEF AccountSwitch, PromptHeeds
 <2> QED BY <1>0, <2>1, FewerStay
<1>9. CASE Surroundings
 <2>1. NoNewAnswers /\ Grows /\ CallsAreOld /\ UNCHANGED <<prompt, pending, told>>
  BY <1>0, <1>9, SurroundingsAreSilent, SurroundingsAreOld
 <2> QED BY <1>0, <2>1, HeedStays DEF PromptHeeds
<1>10. ASSUME NEW call \in calls, ReactionsLoaded(call) PROVE HeedInv' /\ ConfirmsCurrent
 <2>1. /\ call \in Answers /\ ~call.acts /\ AwaitedBy(pending, call)
       /\ calls' = calls \ {call} /\ pending' = NoPending /\ UNCHANGED <<told, server>>
  BY <1>10 DEF ReactionsLoaded, Takes, serverVars
 <2>2. CASE call.phase = "failed"
  <3>1. prompt' = prompt
   BY <1>10, <2>2 DEF ReactionsLoaded
  <3> QED BY <1>0, <2>1, <3>1, FewerStay DEF PromptHeeds
 <2>3. CASE call.phase # "failed"
  <3> DEFINE v == IF told > call.detail /\ ~ToldGone THEN told ELSE call.version
  <3>1. PICK fresh : prompt' = [prompt EXCEPT !.plan = v, !.ready = fresh]
   BY <1>10, <2>3 DEF ReactionsLoaded, Replayed
  <3> HIDE DEF v
  <3>2. HeedShape(prompt') /\ prompt'.open = prompt.open /\ prompt'.plan = v
   BY <1>0, <3>1 DEF HeedShape
  <3>3. call.phase = "done"
   BY <2>1, <2>3 DEF Answers
  <3> QED BY <1>0, <2>1, <3>2, <3>3, HeedReads DEF v
 <2> QED BY <2>2, <2>3
<1>11. ASSUME NEW call \in calls, ReactionsFinished(call) PROVE HeedInv' /\ ConfirmsCurrent
 <2> DEFINE l == [prompt EXCEPT !.ready = FALSE]
 <2>1. HeedShape(l) /\ l.open /\ ~l.ready
  BY <1>0, <1>11 DEF HeedShape, ReactionsFinished
 <2>2. UNCHANGED <<told, server>>
  BY <1>11 DEF ReactionsFinished, serverVars
 <2> HIDE DEF l
 <2>3. CASE Settles(call, l) \/ Settles(call, PanelClosed)
  <3>1. PromptHeeds
   BY <1>00, <2>1, <2>3 DEF Settles, PromptHeeds
  <3> QED BY <1>0, <2>2, <2>3, <3>1, FewerStay DEF Settles
 <2>4. CASE SettlesAndLooks(call, l, l, told) /\ ~Settles(call, l)
  <3>1. /\ pending' = [id |-> nextRequest + 1, saving |-> FALSE] /\ prompt' = l
        /\ calls' = (calls \ {call}) \cup
                    {[id |-> nextRequest + 1, acts |-> FALSE, phase |-> "sent",
                      version |-> NoVersion, detail |-> told]}
   BY <2>4 DEF SettlesAndLooks
  <3>2. calls \ {call} \in SUBSET calls
   OBVIOUS
  <3> QED BY <1>0, <2>1, <2>2, <3>1, <3>2, HeedAsks
 <2> QED BY <1>11, <2>3, <2>4 DEF ReactionsFinished, l
<1>12. ASSUME NEW call \in calls, ReactionsReviewed(call) PROVE HeedInv' /\ ConfirmsCurrent
 BY <1>0, <1>12, HeedReviews DEF ReactionsReviewed
<1>13. ASSUME NEW call \in calls, RecheckReactions(call) PROVE HeedInv' /\ ConfirmsCurrent
 <2>1. NoNewAnswers /\ CallsAreOld /\ UNCHANGED <<prompt, pending, told, server>>
  BY <1>0, <1>13, MovesOnSilently, MovedIsOld DEF RecheckReactions, terminalVars, serverVars
 <2> QED BY <1>0, <2>1, HeedStays, SameServerGrows DEF PromptHeeds
<1>14. ASSUME NEW call \in calls, SendReactions(call) PROVE HeedInv' /\ ConfirmsCurrent
 <2>1. NoNewAnswers /\ CallsAreOld /\ UNCHANGED <<prompt, pending, told>>
       /\ server' = [server EXCEPT !.version = @ + 1]
  BY <1>0, <1>14, MovesOnSilently, MovedIsOld DEF SendReactions, terminalVars
 <2>2. Grows
  BY <1>0, <2>1 DEF Grows, Changes, DialogInv, ServerShape, HoldsVersion, Version
 <2> QED BY <1>0, <2>1, <2>2, HeedStays DEF PromptHeeds
<1>15. ASSUME NEW call \in calls, ReactionsAnswered(call) PROVE HeedInv' /\ ConfirmsCurrent
 <2>1. /\ call.phase = "done" /\ ~call.acts /\ prompt.open /\ calls' = calls \ {call}
       /\ prompt' = [prompt EXCEPT !.plan = Replayed(call)] /\ UNCHANGED <<pending, told, server>>
  BY <1>15 DEF ReactionsAnswered, serverVars
 <2>2. ReadyFits'
  <3>1. call.detail \in Nat /\ call.detail <= told /\ call.version >= call.detail /\ told \in Nat
   BY <2>1 DEF HeedInv, LooksSince, DialogInv
  <3>2. ~ToldGone => Replayed(call) >= told
   BY <3>1 DEF Replayed
  <3> QED BY <1>0, <2>1, <3>2 DEF HeedInv, HeedShape, ReadyFits, ToldGone
 <2>3. AwaitsOpen' /\ HeedShape(prompt')
  BY <1>0, <2>1 DEF HeedInv, HeedShape, AwaitsOpen
 <2>4. LooksSince'
  BY <2>1 DEF HeedInv, LooksSince, AwaitedBy, ToldGone
 <2> QED BY <1>0, <2>1, <2>2, <2>3, <2>4 DEF HeedInv, ConfirmsCurrent, Changes
<1> QED BY <1>1, <1>4, <1>5, <1>6, <1>7, <1>8, <1>9, <1>10, <1>11, <1>12, <1>13, <1>14, <1>15
        DEF ReactionNext

-----------------------------------------------------------------------------
(* Nothing newer is lost. The text of an edit that is being saved is the one  *)
(* that the call carries, and a save that is done left it at the server.      *)
LoadsNothingKept == ~pending.saving /\ pending.id # 0 => prompt.text = NoEdit

SavesWhatIsTyped ==
    \A c \in calls : c.acts /\ AwaitedBy(pending, c) => c.detail = prompt.text

SavedIsThere == \A c \in calls : c.acts /\ c.phase = "done" => c.detail \in effects

KeepsInv == EditInv /\ LoadsNothingKept /\ SavesWhatIsTyped /\ SavedIsThere

LEMMA KeepsBegins == EditInit => KeepsInv
<1> SUFFICES ASSUME EditInit PROVE KeepsInv
 OBVIOUS
<1>1. EditInv
 BY NothingKeptPlan, StartsReviewed DEF EditInit, EditInv, KeptEdit, Kept, DialogInit
<1>2. calls = {} /\ pending.id = 0
 BY DEF EditInit, DialogInit, NoPending
<1> QED BY <1>1, <1>2 DEF KeepsInv, LoadsNothingKept, SavesWhatIsTyped, SavedIsThere

(* The text stays; answers and requests may go, or move on. *)
LEMMA TextStays ==
  ASSUME KeepsInv, EditInv', CallsAreOld, SavedIsThere', prompt'.text = prompt.text,
         pending' = pending \/ pending' = NoPending
  PROVE  KeepsInv' /\ TypedTextIsKept
<1>1. TypedTextIsKept
 BY DEF TypedTextIsKept
<1>2. CASE pending' = NoPending
 BY <1>1, <1>2, NoneAwaited
    DEF KeepsInv, EditInv, LoadsNothingKept, SavesWhatIsTyped, NoPending
<1>3. CASE pending' = pending
 BY <1>1, <1>3
    DEF KeepsInv, LoadsNothingKept, SavesWhatIsTyped, CallsAreOld, Same, AwaitedBy
<1> QED BY <1>2, <1>3

(* Nothing is awaited any more, and the text that goes was not typed, or is kept. *)
LEMMA TextGoes ==
  ASSUME KeepsInv, EditInv', calls' \subseteq calls, pending' = NoPending,
         effects' = effects, TypedTextIsKept
  PROVE  KeepsInv'
  BY NoneAwaited
     DEF KeepsInv, EditInv, LoadsNothingKept, SavesWhatIsTyped, SavedIsThere, NoPending

LEMMA EditKeepsText ==
  ASSUME KeepsInv, EditNext
  PROVE  KeepsInv' /\ TypedTextIsKept
<1>0. DialogInv /\ EditInv' /\ DialogInv'
 BY EditStep DEF KeepsInv, EditInv, Steps, KeptEdit, Kept
<1>00. \A c \in calls : CallShape(c) /\ c.id <= nextRequest /\ c.id \in Nat \ {0}
       /\ nextRequest \in Nat
 BY <1>0 DEF DialogInv, CallsInv, CallShape
<1>1. CASE ResumeEdit \/ LeaveEdit \/ AccountSwitch(prompt)
 <2>1. calls' \subseteq calls /\ UNCHANGED <<prompt, effects>>
       /\ (pending' = pending \/ pending' = NoPending)
  BY <1>1 DEF ResumeEdit, LeaveEdit, AccountSwitch, serverVars
 <2>2. SavedIsThere'
  BY <2>1 DEF KeepsInv, SavedIsThere
 <2> QED BY <1>0, <2>1, <2>2, TextStays, FewerAreOld
<1>2. CASE LoadEdit \/ SaveEdit
 <2>1. PICK acts, v, d :
         /\ Submit(acts, v, d) /\ UNCHANGED <<prompt, effects>>
         /\ ~acts => prompt.text = NoEdit
         /\ acts => d = prompt.text
  BY <1>2 DEF LoadEdit, SaveEdit, Kept, serverVars
 <2> DEFINE n == [id |-> nextRequest + 1, acts |-> acts, phase |-> "sent",
                  version |-> v, detail |-> d]
 <2>2. calls' = calls \cup {n} /\ pending' = [id |-> nextRequest + 1, saving |-> acts]
  BY <2>1 DEF Submit
 <2>3. n.acts = acts /\ n.phase = "sent" /\ n.detail = d
  OBVIOUS
 <2> HIDE DEF n
 <2>4. \A c \in calls : ~AwaitedBy(pending', c)
  BY <1>00, <2>2 DEF AwaitedBy
 <2>5. LoadsNothingKept' /\ SavesWhatIsTyped' /\ SavedIsThere'
  BY <2>1, <2>2, <2>3, <2>4 DEF KeepsInv, LoadsNothingKept, SavesWhatIsTyped, SavedIsThere
 <2>6. TypedTextIsKept
  BY <2>1 DEF TypedTextIsKept
 <2> QED BY <1>0, <2>5, <2>6 DEF KeepsInv
<1>3. CASE TypeEdit \/ SaveUnchanged \/ DiscardEdit
 <2>1. Idle /\ pending' = NoPending /\ UNCHANGED <<calls, effects>>
  BY <1>3 DEF TypeEdit, SaveUnchanged, DiscardEdit, Idle, serverVars
 <2> QED BY <1>0, <2>1, TextGoes DEF TypedTextIsKept
<1>4. CASE Surroundings
 <2>1. CallsAreOld /\ UNCHANGED <<prompt, pending, effects>>
  BY <1>0, <1>4, SurroundingsAreOld
 <2>2. \A c \in calls' : c.acts /\ c.phase = "done" => c \in calls
  BY <1>00, <1>4 DEF Surroundings, ConnectionChanges, OthersChange, ModeReset, CallFails,
     AnswerIgnored, Becomes, terminalVars, CallShape
 <2>3. SavedIsThere'
  BY <2>1, <2>2 DEF KeepsInv, SavedIsThere
 <2> QED BY <1>0, <2>1, <2>3, TextStays
<1>5. ASSUME NEW call \in calls, EditLoaded(call) PROVE KeepsInv' /\ TypedTextIsKept
 <2>1. calls' \subseteq calls /\ effects' = effects /\ pending' = NoPending
       /\ ~call.acts /\ AwaitedBy(pending, call)
  BY <1>5 DEF EditLoaded, Takes, serverVars
 <2>2. prompt.text = NoEdit
  BY <1>0, <2>1, AwaitedHasNumber DEF KeepsInv, LoadsNothingKept
 <2>3. TypedTextIsKept
  BY <2>2, TypedIsText DEF TypedTextIsKept
 <2> QED BY <1>0, <2>1, <2>3, TextGoes
<1>6. ASSUME NEW call \in calls, EditFinished(call) PROVE KeepsInv' /\ TypedTextIsKept
 <2>1. calls' \subseteq calls /\ effects' = effects /\ pending' = NoPending
       /\ call.acts /\ AwaitedBy(pending, call)
       /\ (call.phase = "done" \/ prompt' = prompt)
  BY <1>6 DEF EditFinished, Takes, Answers, serverVars
 <2>2. TypedTextIsKept
  BY <2>1 DEF TypedTextIsKept, KeepsInv, SavesWhatIsTyped, SavedIsThere
 <2> QED BY <1>0, <2>1, <2>2, TextGoes
<1>7. ASSUME NEW call \in calls, OriginalLoaded(call) \/ RecheckEdit(call)
      PROVE  KeepsInv' /\ TypedTextIsKept
 <2>1. PICK m : /\ Becomes(call, m) /\ Same(m, [call EXCEPT !.version = m.version])
                /\ ~(m.acts /\ m.phase = "done")
                /\ UNCHANGED <<prompt, pending, effects>>
  <3>1. CASE OriginalLoaded(call)
   <4>1. PICK m : m = [call EXCEPT !.phase = "done", !.version = server.version]
    OBVIOUS
   <4> QED BY <1>00, <3>1, <4>1
           DEF OriginalLoaded, terminalVars, serverVars, Same, CallShape
  <3>2. CASE RecheckEdit(call)
   <4>1. PICK m : m = [call EXCEPT !.phase = "checked"]
    OBVIOUS
   <4> QED BY <1>00, <3>2, <4>1 DEF RecheckEdit, terminalVars, serverVars, Same, CallShape
  <3> QED BY <1>7, <3>1, <3>2
 <2>2. calls' = (calls \ {call}) \cup {m} /\ m.id = call.id /\ m.acts = call.acts
       /\ m.detail = call.detail
  BY <1>00, <2>1 DEF Becomes, Same, CallShape
 <2>3. LoadsNothingKept' /\ SavesWhatIsTyped' /\ SavedIsThere'
  BY <2>1, <2>2 DEF KeepsInv, LoadsNothingKept, SavesWhatIsTyped, SavedIsThere, AwaitedBy
 <2>4. TypedTextIsKept
  BY <2>1 DEF TypedTextIsKept
 <2> QED BY <1>0, <2>3, <2>4 DEF KeepsInv
<1>8. ASSUME NEW call \in calls, AlreadySaved(call) \/ EditMessage(call)
      PROVE  KeepsInv' /\ TypedTextIsKept
 <2>1. PICK phase : /\ Becomes(call, [call EXCEPT !.phase = phase])
                    /\ effects' = effects \cup {call.detail}
                    /\ UNCHANGED <<prompt, pending>>
  BY <1>8 DEF AlreadySaved, EditMessage, terminalVars
 <2>2. CallsAreOld
  BY <1>0, <2>1, MovedIsOld
 <2>3. SavedIsThere'
  BY <1>00, <2>1 DEF KeepsInv, SavedIsThere, Becomes, CallShape
 <2> QED BY <1>0, <2>1, <2>2, <2>3, TextStays
<1> QED BY <1>1, <1>2, <1>3, <1>4, <1>5, <1>6, <1>7, <1>8 DEF EditNext

(* Pins. The page that the list waits for has every pin that was told, unless *)
(* the list knows better; the requests of the list are numbered apart from    *)
(* those of its changes, which it never waits for.                            *)
PinsShape(p) == {"plan", "loading", "dirty", "error", "asking", "mutation"} \subseteq DOMAIN p

PinCall(c, last) ==
    /\ {"id", "acts", "phase", "version", "detail"} \subseteq DOMAIN c
    /\ c.id \in 1..last
    /\ c.detail = "page" => ~c.acts

PageFits ==
    \A c \in calls :
        (/\ prompt.loading /\ ~prompt.dirty
         /\ AwaitedBy(pending, c) /\ c.detail = "page" /\ c.phase = "done")
            => c.version >= told

Numbered(some) == \A a, b \in some : a.id = b.id => a = b

PinsInv ==
    /\ PinsShape(prompt)
    /\ Numbered(calls)
    /\ nextRequest \in Nat
    /\ \A c \in calls : PinCall(c, nextRequest)
    /\ "version" \in DOMAIN server /\ server.version \in Nat
    /\ told \in Nat /\ told <= server.version
    /\ PageFits

LEMMA PinsBegin == PinsInit => PinsInv
  BY DEF PinsInit, DialogInit, PinsClosed, PinsInv, PinsShape, PageFits, Numbered

(* The list is asked for anew: nothing that is under way is its answer. *)
LEMMA PinsAsk ==
  ASSUME PinsInv, PinsShape(prompt'), NEW d,
         nextRequest' = nextRequest + 1,
         pending' = [id |-> nextRequest + 1, saving |-> FALSE],
         NEW some \in SUBSET calls,
         calls' = some \cup {[id |-> nextRequest + 1, acts |-> FALSE, phase |-> "sent",
                              version |-> NoVersion, detail |-> d]},
         server' = server, told' \in {told, told + 1}, told' <= server.version,
         prompt'.loading
  PROVE  PinsInv' /\ PageIsCurrent
<1>0. pending'.id = nextRequest + 1
 OBVIOUS
<1>1. \A c \in some : /\ PinCall(c, nextRequest') /\ ~AwaitedBy(pending', c)
                      /\ c.id # nextRequest + 1
 <2> TAKE c \in some
 <2>1. c \in calls /\ PinCall(c, nextRequest) /\ nextRequest \in Nat
  BY DEF PinsInv
 <2>2. PinCall(c, nextRequest') /\ c.id # nextRequest + 1
  BY <2>1 DEF PinCall
 <2> QED BY <1>0, <2>2 DEF AwaitedBy
<1> DEFINE n == [id |-> nextRequest + 1, acts |-> FALSE, phase |-> "sent",
                 version |-> NoVersion, detail |-> d]
<1>2. PinCall(n, nextRequest') /\ n.phase = "sent" /\ n.id = nextRequest + 1
 BY DEF PinsInv, PinCall
<1> HIDE DEF n
<1>3. \A c \in calls' : PinCall(c, nextRequest')
 BY <1>1, <1>2 DEF n
<1>4. PageFits'
 BY <1>1, <1>2 DEF PageFits, n
<1>5. PageIsCurrent
 BY DEF PageIsCurrent
<1>6. Numbered(calls')
 BY <1>1, <1>2 DEF PinsInv, Numbered, n
<1> QED BY <1>3, <1>4, <1>5, <1>6 DEF PinsInv

LEMMA PinPageLoads ==
  ASSUME PinsInv, NEW p, PinsShape(p), NEW d, LoadPinPage(p, d), server' = server,
         told' \in {told, told + 1}, told' <= server.version
  PROVE  PinsInv' /\ PageIsCurrent
<1>1. PinsShape(prompt') /\ prompt'.loading
 BY DEF LoadPinPage, PinsShape
<1> QED BY <1>1, PinsAsk DEF LoadPinPage, Submit

LEMMA PinAnswerReloads ==
  ASSUME PinsInv, NEW c, NEW p, PinsShape(p), AnswerReloads(c, p), server' = server,
         told' = told
  PROVE  PinsInv' /\ PageIsCurrent
<1>1. PinsShape(prompt') /\ prompt'.loading
 BY DEF AnswerReloads, PinsShape
<1> QED BY <1>1, PinsAsk DEF AnswerReloads, PinsInv

(* The list is as loading and as dirty as it was, or waits for nothing. *)
LEMMA PinsStay ==
  ASSUME PinsInv, PinsShape(prompt'), Numbered(calls'), nextRequest' \in Nat,
         \A c \in calls' : PinCall(c, nextRequest'),
         \A c \in calls' : c \in calls \/ c.phase # "done" \/ c.detail # "page",
         "version" \in DOMAIN server', server'.version \in Nat,
         told' = told, told <= server'.version,
         \/ pending' = NoPending
         \/ /\ pending' = pending
            /\ prompt'.loading => prompt.loading /\ (prompt.dirty => prompt'.dirty),
         PageIsCurrent
  PROVE  PinsInv'
<1>1. CASE pending' = NoPending
 <2>1. pending'.id = 0
  BY <1>1 DEF NoPending
 <2>2. PageFits'
  BY <2>1 DEF PageFits, AwaitedBy, PinCall
 <2> QED BY <2>2 DEF PinsInv
<1>2. CASE /\ pending' = pending
           /\ prompt'.loading => prompt.loading /\ (prompt.dirty => prompt'.dirty)
 <2>1. PageFits'
  BY <1>2 DEF PinsInv, PageFits, AwaitedBy
 <2> QED BY <2>1 DEF PinsInv
<1> QED BY <1>1, <1>2

LEMMA FewerPins ==
  ASSUME PinsInv, PinsShape(prompt'), UNCHANGED <<nextRequest, server, told>>,
         calls' \subseteq calls,
         \/ pending' = NoPending
         \/ /\ pending' = pending
            /\ prompt'.loading => prompt.loading /\ (prompt.dirty => prompt'.dirty),
         PageIsCurrent
  PROVE  PinsInv'
<1>1. (\A c \in calls' : PinCall(c, nextRequest')) /\ Numbered(calls')
 BY DEF PinsInv, PinCall, Numbered
<1> QED BY <1>1, PinsStay DEF PinsInv

LEMMA PinsAreCurrent ==
  ASSUME PinsInv, PinsNext
  PROVE  PinsInv' /\ PageIsCurrent
<1>0. /\ PinsShape(prompt) /\ nextRequest \in Nat /\ \A c \in calls : PinCall(c, nextRequest)
      /\ told \in Nat /\ server.version \in Nat /\ told <= server.version
      /\ "version" \in DOMAIN server
 BY DEF PinsInv
<1>00. PinsShape(PinsClosed) /\ ~PinsClosed.loading /\ PinsClosed.plan = NoVersion
 BY DEF PinsShape, PinsClosed
<1>1. CASE OpenPins
 <2>1. PinsShape([prompt EXCEPT !.plan = NoVersion])
  BY <1>0 DEF PinsShape
 <2> QED BY <1>0, <1>1, <2>1, PinPageLoads DEF OpenPins, serverVars
<1>2. CASE RefreshPins \/ OpenPinContext
 BY <1>0, <1>2, PinPageLoads DEF RefreshPins, OpenPinContext, serverVars
<1>3. CASE LeavePins
 <2>1. PinsShape(prompt') /\ PageIsCurrent
  BY <1>0, <1>3 DEF LeavePins, PinsShape, PageIsCurrent, AtList
 <2> QED BY <1>3, <2>1, FewerPins DEF LeavePins, serverVars
<1>4. CASE BeginMessagePin \/ CancelPinPrompt \/ ConnectionChanges
 <2>1. PinsShape(prompt') /\ UNCHANGED <<prompt.loading, prompt.dirty>>
  BY <1>0, <1>4 DEF BeginMessagePin, CancelPinPrompt, ConnectionChanges, PinsShape
 <2>2. PageIsCurrent
  BY <2>1 DEF PageIsCurrent
 <2> QED BY <1>4, <2>1, <2>2, FewerPins
         DEF BeginMessagePin, CancelPinPrompt, ConnectionChanges, serverVars
<1>5. CASE ConfirmPin
 <2>1. PinsShape(prompt') /\ UNCHANGED <<prompt.loading, prompt.dirty>>
  BY <1>0, <1>5 DEF ConfirmPin, PinsShape
 <2>2. PageIsCurrent
  BY <2>1 DEF PageIsCurrent
 <2> DEFINE n == [id |-> nextRequest + 1, acts |-> TRUE, phase |-> "sent",
                  version |-> NoVersion, detail |-> "pin"]
 <2>3. /\ calls' = calls \cup {n} /\ nextRequest' = nextRequest + 1
       /\ UNCHANGED <<pending, server, told>>
  BY <1>5 DEF ConfirmPin, serverVars
 <2>4. PinCall(n, nextRequest') /\ n.phase = "sent"
  BY <1>0, <2>3 DEF PinCall
 <2> HIDE DEF n
 <2>5. \A c \in calls : PinCall(c, nextRequest')
  BY <1>0, <2>3 DEF PinCall
 <2>6. (\A c \in calls' : PinCall(c, nextRequest')) /\ Numbered(calls')
  <3>1. n.id = nextRequest + 1
   BY DEF n
  <3> QED BY <1>0, <2>3, <2>4, <2>5, <3>1 DEF PinsInv, Numbered, PinCall
 <2> QED BY <1>0, <2>1, <2>2, <2>3, <2>4, <2>6, PinsStay
<1>6. CASE PinTold
 <2>1. told' = told + 1 /\ told' <= server.version /\ server' = server
  BY <1>0, <1>6 DEF PinTold
 <2>2. CASE prompt.loading
  <3>1. prompt' = [prompt EXCEPT !.dirty = TRUE] /\ UNCHANGED <<pending, nextRequest, calls>>
   BY <1>6, <2>2 DEF PinTold, Stays
  <3>2. PinsShape(prompt') /\ prompt'.loading /\ prompt'.dirty
   BY <1>0, <2>2, <3>1 DEF PinsShape
  <3> QED BY <1>0, <2>1, <3>1, <3>2 DEF PinsInv, PinCall, PageFits, PageIsCurrent
 <2>3. CASE ~prompt.loading /\ AtList
  BY <1>0, <1>6, <2>1, <2>3, PinPageLoads DEF PinTold
 <2>4. CASE ~prompt.loading /\ ~AtList
  <3>1. UNCHANGED <<prompt, pending, nextRequest, calls>>
   BY <1>6, <2>4 DEF PinTold, Stays
  <3> QED BY <1>0, <2>1, <2>4, <3>1 DEF PinsInv, PinCall, PageFits, PageIsCurrent
 <2> QED BY <2>2, <2>3, <2>4
<1>7. CASE PinsInvalidated
 <2> DEFINE after == IF mode = "Dialog" /\ prompt.asking # "no" THEN prompt.asking ELSE mode
            fresh == [PinsClosed EXCEPT !.mutation = prompt.mutation]
 <2>1. PinsShape(fresh) /\ ~fresh.loading /\ fresh.plan = NoVersion
  BY <1>00 DEF PinsShape, PinsClosed
 <2>2. CASE after = "Dialog"
  BY <1>0, <1>7, <2>1, <2>2, PinPageLoads DEF PinsInvalidated, serverVars
 <2>3. CASE after # "Dialog"
  <3>1. prompt' = fresh /\ pending' = NoPending
        /\ UNCHANGED <<nextRequest, calls, server, told>>
   BY <1>7, <2>3 DEF PinsInvalidated, serverVars
  <3>2. PageIsCurrent
   BY <2>1, <3>1 DEF PageIsCurrent
  <3> QED BY <2>1, <3>1, <3>2, FewerPins
 <2> QED BY <2>2, <2>3
<1>8. CASE OthersPin
 <2>1. server' = [server EXCEPT !.version = @ + 1] /\ UNCHANGED <<terminalVars, calls, told>>
  BY <1>8 DEF OthersPin
 <2>2. "version" \in DOMAIN server' /\ server'.version = server.version + 1
  BY <1>0, <2>1
 <2>3. PageIsCurrent /\ Numbered(calls') /\ \A c \in calls' : PinCall(c, nextRequest')
  BY <1>0, <2>1 DEF PageIsCurrent, PinCall, terminalVars, PinsInv, Numbered
 <2> QED BY <1>0, <2>1, <2>2, <2>3, PinsStay DEF terminalVars
<1>9. CASE AccountSwitch(PinsClosed)
 <2>1. /\ mode' = "Navigate" /\ prompt' = PinsClosed /\ pending' = NoPending
       /\ nextRequest' = 0 /\ calls' = {} /\ UNCHANGED <<server, told>>
  BY <1>9 DEF AccountSwitch
 <2>2. PageIsCurrent
  BY <2>1 DEF PageIsCurrent, AtList
 <2> QED BY <1>0, <1>00, <2>1, <2>2, PinsStay DEF Numbered
<1>10. ASSUME NEW call \in calls, CallFails(call) \/ PinsFetched(call) \/ ChangeMessagePin(call)
       PROVE  PinsInv' /\ PageIsCurrent
 <2>1. PICK m : /\ calls' = (calls \ {call}) \cup {m} /\ PinCall(m, nextRequest)
                /\ m.id = call.id /\ m.acts = call.acts /\ m.detail = call.detail
                /\ m.detail = "page" /\ m.phase = "done" => m.version = server.version
  <3>1. CASE CallFails(call)
   <4>1. PICK m : m = [call EXCEPT !.phase = "failed"]
    OBVIOUS
   <4> QED BY <1>0, <3>1, <4>1 DEF CallFails, Becomes, PinCall
  <3>2. CASE PinsFetched(call)
   <4>1. PICK m : m = [call EXCEPT !.phase = "done", !.version = server.version]
    OBVIOUS
   <4>2. PinCall(m, nextRequest) /\ m.id = call.id /\ m.acts = call.acts
         /\ m.detail = call.detail /\ m.version = server.version
    BY <1>0, <4>1 DEF PinCall
   <4>3. calls' = (calls \ {call}) \cup {m}
    BY <3>2, <4>1 DEF PinsFetched, Becomes
   <4> QED BY <4>2, <4>3
  <3>3. CASE ChangeMessagePin(call)
   <4>1. PICK outcome : Becomes(call, [call EXCEPT !.phase = outcome]) /\ call.acts
    BY <3>3 DEF ChangeMessagePin
   <4>2. PICK m : m = [call EXCEPT !.phase = outcome]
    OBVIOUS
   <4>3. PinCall(m, nextRequest) /\ m.id = call.id /\ m.acts = call.acts
         /\ m.detail = call.detail /\ m.detail # "page"
    BY <1>0, <4>1, <4>2 DEF PinCall
   <4>4. calls' = (calls \ {call}) \cup {m}
    BY <4>1, <4>2 DEF Becomes
   <4> QED BY <4>3, <4>4
  <3> QED BY <1>10, <3>1, <3>2, <3>3
 <2>2. UNCHANGED <<prompt, pending, nextRequest, told>>
  BY <1>10 DEF CallFails, PinsFetched, ChangeMessagePin, terminalVars, serverVars
 <2>3. "version" \in DOMAIN server' /\ server'.version \in Nat
       /\ server'.version >= server.version
  BY <1>0, <1>10 DEF CallFails, PinsFetched, ChangeMessagePin, serverVars
 <2>4. (\A c \in calls' : PinCall(c, nextRequest')) /\ Numbered(calls')
  BY <1>0, <2>1, <2>2 DEF PinCall, PinsInv, Numbered
 <2>5. PageFits'
  BY <1>0, <2>1, <2>2 DEF PinsInv, PageFits, AwaitedBy
 <2> QED BY <1>0, <2>2, <2>3, <2>4, <2>5 DEF PinsInv, PageIsCurrent
<1>11. ASSUME NEW call \in calls, PinFinished(call) PROVE PinsInv' /\ PageIsCurrent
 <2> DEFINE after == IF prompt.asking = "no" THEN mode ELSE prompt.asking
            closed == [prompt EXCEPT !.mutation = 0, !.asking = "no"]
 <2>1. UNCHANGED <<server, told>>
  BY <1>11 DEF PinFinished, serverVars
 <2>2. PinsShape(closed) /\ UNCHANGED <<server, told>>
       /\ closed.loading = prompt.loading /\ closed.dirty = prompt.dirty
  BY <1>0, <2>1 DEF PinsShape
 <2>3. CASE AnswerReloads(call, closed)
  BY <1>0, <2>2, <2>3, PinAnswerReloads
 <2>4. CASE /\ calls' = calls \ {call} /\ UNCHANGED <<pending, nextRequest>>
            /\ PinsShape(prompt') /\ UNCHANGED <<prompt.loading, prompt.dirty>>
  <3>1. PageIsCurrent
   BY <2>4 DEF PageIsCurrent
  <3> QED BY <2>1, <2>4, <3>1, FewerPins
 <2>5. CASE call.phase = "failed"
  <3>1. prompt' = [prompt EXCEPT !.mutation = 0, !.error = TRUE]
        /\ calls' = calls \ {call} /\ UNCHANGED <<pending, nextRequest>>
   BY <1>11, <2>5 DEF PinFinished
  <3> QED BY <1>0, <2>4, <3>1 DEF PinsShape
 <2>6. CASE call.phase # "failed" /\ ~(after = "Dialog" /\ nextRequest < MaxRequests)
  <3>1. prompt' = [closed EXCEPT !.error = @ \/ after = "Dialog"]
        /\ calls' = calls \ {call} /\ UNCHANGED <<pending, nextRequest>>
   BY <1>11, <2>6 DEF PinFinished
  <3>2. PinsShape(prompt') /\ UNCHANGED <<prompt.loading, prompt.dirty>>
   BY <1>0, <2>2, <3>1 DEF PinsShape
  <3> QED BY <2>4, <3>1, <3>2
 <2>7. CASE call.phase # "failed" /\ after = "Dialog" /\ nextRequest < MaxRequests
  BY <1>11, <2>3, <2>7 DEF PinFinished
 <2> QED BY <2>5, <2>6, <2>7
<1>12. ASSUME NEW call \in calls, CachedPinsArrive(call) PROVE PinsInv' /\ PageIsCurrent
 <2>1. prompt' = [prompt EXCEPT !.plan = NoVersion, !.loading = online]
       /\ UNCHANGED <<pending, nextRequest, calls, server, told>>
       /\ call.phase = "sent" /\ AwaitedBy(pending, call)
  BY <1>12 DEF CachedPinsArrive, serverVars
 <2>2. PinsShape(prompt') /\ prompt'.plan = NoVersion
  BY <1>0, <2>1 DEF PinsShape
 <2>3. PageIsCurrent
  BY <2>2 DEF PageIsCurrent
 <2>4. PageFits'
  BY <2>1 DEF PageFits, PinsInv, Numbered, AwaitedBy
 <2> QED BY <1>0, <2>1, <2>2, <2>3, <2>4 DEF PinsInv, PinCall, Numbered
<1>13. ASSUME NEW call \in calls, PinPageArrives(call) PROVE PinsInv' /\ PageIsCurrent
 <2>1. UNCHANGED <<server, told, mode>> /\ call.detail = "page" /\ AwaitedBy(pending, call)
       /\ call.phase \in {"done", "failed"}
  BY <1>13 DEF PinPageArrives, serverVars, Answers
 <2>2. CASE call.phase = "done" /\ prompt.dirty /\ nextRequest < MaxRequests
  BY <1>0, <1>13, <2>1, <2>2, PinAnswerReloads DEF PinPageArrives
 <2>3. CASE ~(call.phase = "done" /\ prompt.dirty /\ nextRequest < MaxRequests)
  <3>1. calls' = calls \ {call} /\ pending' = NoPending /\ UNCHANGED nextRequest
        /\ prompt' = IF call.phase = "failed" \/ prompt.dirty
                     THEN [prompt EXCEPT !.loading = FALSE, !.error = TRUE]
                     ELSE [prompt EXCEPT !.loading = FALSE, !.plan = call.version]
   BY <1>13, <2>3 DEF PinPageArrives
  <3>2. PinsShape(prompt')
   BY <1>0, <3>1 DEF PinsShape
  <3>3. CASE call.phase = "failed" \/ prompt.dirty
   <4>1. prompt'.error
    BY <1>0, <3>1, <3>3 DEF PinsShape
   <4>2. PageIsCurrent
    BY <4>1 DEF PageIsCurrent
   <4> QED BY <2>1, <3>1, <3>2, <4>2, FewerPins
  <3>4. CASE call.phase = "done" /\ ~prompt.dirty
   <4>1. prompt'.plan = call.version
    BY <1>0, <3>1, <3>4 DEF PinsShape
   <4>2. PageIsCurrent
    BY <2>1, <3>4, <4>1 DEF PageIsCurrent, PinsInv, PageFits
   <4> QED BY <2>1, <3>1, <3>2, <4>2, FewerPins
  <3> QED BY <2>1, <3>3, <3>4
 <2> QED BY <2>2, <2>3
<1>14. ASSUME NEW call \in calls, PinContextArrives(call) PROVE PinsInv' /\ PageIsCurrent
 <2>1. calls' \subseteq calls /\ pending' = NoPending /\ UNCHANGED <<nextRequest, server, told>>
  BY <1>14 DEF PinContextArrives, Takes, serverVars
 <2>2. PinsShape(prompt') /\ (prompt'.error \/ mode' = "Navigate")
  BY <1>0, <1>14 DEF PinContextArrives, PinsShape
 <2>3. PageIsCurrent
  BY <2>2 DEF PageIsCurrent, AtList
 <2> QED BY <2>1, <2>2, <2>3, FewerPins
<1>15. ASSUME NEW call \in calls, PinAnswerDropped(call) PROVE PinsInv' /\ PageIsCurrent
 <2>1. calls' \subseteq calls /\ UNCHANGED <<prompt, pending, nextRequest, server, told>>
  BY <1>15 DEF PinAnswerDropped, terminalVars, serverVars
 <2> QED BY <1>0, <2>1, FewerPins DEF PageIsCurrent
<1> QED BY <1>1, <1>2, <1>3, <1>4, <1>5, <1>6, <1>7, <1>8, <1>9, <1>10, <1>11, <1>12, <1>13,
<1>14, <1>15 DEF PinsNext

(* Excerpts. The answer of the batch that an entry is of is no older than what *)
(* the terminal was told, for whatever is told takes the entry from its batch. *)
EntryShape(p) == {"plan", "preview", "request"} \subseteq DOMAIN p

ExcerptCall(c, last) ==
    /\ {"id", "acts", "phase", "version", "detail"} \subseteq DOMAIN c
    /\ c.id \in 1..last

BatchFits ==
    \A c \in calls :
        (/\ c.detail = "batch" /\ c.id = prompt.request
         /\ c.phase = "done" /\ c.version # NoVersion)
            => ~ToldGone /\ c.version >= told

\* An entry that a batch found missing is out of it, or its message is known gone.
GoneIsKnown ==
    \A c \in calls : prompt.preview = "unavailable" /\ c.id = prompt.request => ToldGone

PreviewInv ==
    /\ EntryShape(prompt)
    /\ Numbered(calls)
    /\ nextRequest \in Nat
    /\ \A c \in calls : ExcerptCall(c, nextRequest)
    /\ ServerShape
    /\ told \in Nat /\ told <= Changes(server)
    /\ prompt.request \in 0..nextRequest
    /\ prompt.preview = "none" => prompt.request = 0
    /\ BatchFits
    /\ GoneIsKnown

LEMMA NoPreviewShape ==
  EntryShape(NoPreview) /\ NoPreview.request = 0 /\ NoPreview.preview = "none"
  BY DEF EntryShape, NoPreview

LEMMA PreviewBegins == PreviewInit => PreviewInv
<1> SUFFICES ASSUME PreviewInit PROVE PreviewInv
 OBVIOUS
<1>1. prompt = NoPreview /\ calls = {} /\ told = 1 /\ nextRequest = 0
      /\ server = [version |-> 1, gone |-> FALSE, text |-> Theirs]
 BY DEF PreviewInit, DialogInit
<1>2. ServerShape /\ told <= Changes(server)
 BY <1>1, DialogBounds DEF ServerShape, HoldsVersion, Version, Changes
<1> QED BY <1>1, <1>2, NoPreviewShape DEF PreviewInv, Numbered, BatchFits, GoneIsKnown

(* Answers go; the entry is the one of its batch that it was, or of none. *)
LEMMA PreviewStays ==
  ASSUME PreviewInv, EntryShape(prompt'), UNCHANGED <<server, told>>, calls' \subseteq calls,
         nextRequest' = nextRequest,
         \/ prompt'.request = 0
         \/ UNCHANGED <<prompt.preview, prompt.request>>
         \/ /\ prompt'.request = prompt.request
            /\ prompt'.preview \notin {"none", "unavailable"}
         \/ /\ prompt'.request = prompt.request
            /\ prompt'.preview = "unavailable"
            /\ ToldGone \/ \A c \in calls' : c.id # prompt.request
  PROVE  PreviewInv'
<1>1. Numbered(calls') /\ \A c \in calls' : ExcerptCall(c, nextRequest') /\ c.id # 0
 BY DEF PreviewInv, Numbered, ExcerptCall
<1>2. ServerShape' /\ told' <= Changes(server') /\ (ToldGone <=> ToldGone')
 BY DEF PreviewInv, ServerShape, Changes, ToldGone
<1>3. (prompt'.preview = "none" => prompt'.request = 0) /\ prompt'.request \in 0..nextRequest
 BY DEF PreviewInv
<1>4. BatchFits'
 BY <1>1, <1>2 DEF PreviewInv, BatchFits
<1>5. GoneIsKnown'
 BY <1>1, <1>2 DEF PreviewInv, GoneIsKnown
<1> QED BY <1>1, <1>2, <1>3, <1>4, <1>5 DEF PreviewInv

(* A request is made, of the entry as it is or of the batch that it begins. *)
LEMMA PreviewAsks ==
  ASSUME PreviewInv, EntryShape(prompt'), UNCHANGED <<server, told>>,
         nextRequest' = nextRequest + 1, NEW d,
         calls' = calls \cup {[id |-> nextRequest + 1, acts |-> FALSE, phase |-> "sent",
                               version |-> NoVersion, detail |-> d]},
         \/ prompt' = prompt
         \/ prompt'.preview = "loading" /\ prompt'.request = nextRequest + 1
  PROVE  PreviewInv'
<1> DEFINE n == [id |-> nextRequest + 1, acts |-> FALSE, phase |-> "sent",
                 version |-> NoVersion, detail |-> d]
<1>1. ExcerptCall(n, nextRequest') /\ n.id = nextRequest + 1 /\ n.phase = "sent"
 BY DEF ExcerptCall, PreviewInv
<1>2. calls' = calls \cup {n}
 OBVIOUS
<1> HIDE DEF n
<1>3. \A c \in calls : ExcerptCall(c, nextRequest') /\ c.id # nextRequest + 1
 <2> TAKE c \in calls
 <2>1. ExcerptCall(c, nextRequest) /\ nextRequest \in Nat
  BY DEF PreviewInv
 <2> QED BY <2>1 DEF ExcerptCall
<1>4. Numbered(calls') /\ \A c \in calls' : ExcerptCall(c, nextRequest')
 BY <1>1, <1>2, <1>3 DEF PreviewInv, Numbered
<1>5. ServerShape' /\ told' <= Changes(server') /\ (ToldGone <=> ToldGone')
 BY DEF PreviewInv, ServerShape, Changes, ToldGone
<1>6. BatchFits' /\ GoneIsKnown'
 BY <1>1, <1>2, <1>3, <1>5 DEF PreviewInv, BatchFits, GoneIsKnown
<1>7. prompt'.request \in 0..nextRequest' /\ (prompt'.preview = "none" => prompt'.request = 0)
 BY DEF PreviewInv
<1> QED BY <1>4, <1>5, <1>6, <1>7 DEF PreviewInv

(* A call moves on: what a batch finds then is what the server holds. *)
LEMMA ExcerptMoves ==
  ASSUME PreviewInv, NEW c \in calls, NEW m, calls' = (calls \ {c}) \cup {m},
         ExcerptCall(m, nextRequest), m.id = c.id,
         m.phase = "done" => m.version = Current(server),
         UNCHANGED <<prompt, nextRequest, server, told>>
  PROVE  PreviewInv' /\ BatchNeverUndoes
<1>1. Numbered(calls') /\ \A x \in calls' : ExcerptCall(x, nextRequest')
 BY DEF PreviewInv, Numbered
<1>2. ServerShape' /\ told' <= Changes(server') /\ (ToldGone <=> ToldGone')
 BY DEF PreviewInv, ServerShape, Changes, ToldGone
<1>3. m.phase = "done" /\ m.version # NoVersion => ~ToldGone /\ m.version >= told
 BY DEF PreviewInv, ServerShape, HoldsVersion, Version, Current, Changes, ToldGone
<1>4. BatchFits'
 BY <1>2, <1>3 DEF PreviewInv, BatchFits
<1>5. GoneIsKnown'
 BY <1>2 DEF PreviewInv, GoneIsKnown
<1>6. BatchNeverUndoes
 BY DEF BatchNeverUndoes
<1> QED BY <1>1, <1>2, <1>4, <1>5, <1>6 DEF PreviewInv

LEMMA BatchesUndoNothing ==
  ASSUME PreviewInv, PreviewNext
  PROVE  PreviewInv' /\ BatchNeverUndoes
<1>0. /\ EntryShape(prompt) /\ nextRequest \in Nat
      /\ \A c \in calls : ExcerptCall(c, nextRequest)
      /\ told \in Nat /\ told <= Changes(server)
 BY DEF PreviewInv
<1>1. CASE ReplyShown \/ PreviewEvicted \/ PreviewsInvalidated \/ PreviewsOnline
 <2>1. UNCHANGED <<calls, nextRequest, server, told>> /\ prompt' \in {prompt, NoPreview}
  BY <1>1 DEF ReplyShown, PreviewEvicted, PreviewsInvalidated, PreviewsOnline, serverVars
 <2>2. PreviewInv'
  BY <1>0, <2>1, NoPreviewShape, PreviewStays
 <2> QED BY <2>1, <2>2 DEF BatchNeverUndoes
<1>2. CASE RequestPreview
 <2>1. prompt' = [prompt EXCEPT !.preview = "loading", !.request = nextRequest + 1]
       /\ Submit(FALSE, NoVersion, "batch") /\ UNCHANGED <<server, told>>
  BY <1>2 DEF RequestPreview, serverVars
 <2>2. EntryShape(prompt') /\ prompt'.preview = "loading" /\ prompt'.request = nextRequest + 1
  BY <1>0, <2>1 DEF EntryShape
 <2>3. PreviewInv' /\ calls \subseteq calls'
  BY <2>1, <2>2, PreviewAsks DEF Submit
 <2> QED BY <2>3 DEF BatchNeverUndoes
<1>3. CASE LoadTarget
 <2>1. PreviewInv' /\ calls \subseteq calls'
  BY <1>0, <1>3, PreviewAsks DEF LoadTarget, serverVars
 <2> QED BY <2>1 DEF BatchNeverUndoes
<1>4. CASE TargetTold
 <2>1. told < Changes(server) /\ told' = told + 1 /\ UNCHANGED <<calls, nextRequest, server>>
  BY <1>4 DEF TargetTold
 <2>2. ~ToldGone
  BY <1>0, <2>1 DEF PreviewInv, ServerShape, HoldsVersion, Version, Changes, ToldGone
 <2>3. \A c \in calls' : c.id # 0
  BY <1>0, <2>1 DEF ExcerptCall
 <2>4. /\ EntryShape(prompt')
       /\ \/ prompt'.request = 0
          \/ prompt' = prompt /\ prompt.preview = "unavailable"
  BY <1>0, <1>4 DEF TargetTold, EntryShape, PreviewInv
 <2>5. \A c \in calls' : c.id # prompt'.request
  BY <2>1, <2>2, <2>3, <2>4 DEF PreviewInv, GoneIsKnown
 <2>6. prompt'.preview = "none" => prompt'.request = 0
  BY <2>4
 <2>7. told' \in Nat /\ told' <= Changes(server')
  BY <1>0, <2>1 DEF PreviewInv, ServerShape, HoldsVersion, Version, Changes
 <2>8. PreviewInv'
  BY <1>0, <2>1, <2>4, <2>5, <2>6, <2>7 DEF PreviewInv, BatchFits, GoneIsKnown, ServerShape
 <2> QED BY <2>1, <2>8 DEF BatchNeverUndoes
<1>5. CASE OthersChange
 <2>1. UNCHANGED <<prompt, nextRequest, calls, told>>
  BY <1>5 DEF OthersChange, terminalVars
 <2>2. /\ server.version \in Nat /\ server.gone = FALSE /\ "text" \in DOMAIN server
       /\ {"version", "gone"} \subseteq DOMAIN server /\ server.version \in Version
  BY <1>5 DEF OthersChange, PreviewInv, ServerShape, HoldsVersion, Version
 <2>3. \/ server'.version = server.version + 1 /\ server'.gone = FALSE
          /\ server.version < MaxVersion
       \/ server'.version = server.version /\ server'.gone = TRUE
  BY <1>5, <2>2 DEF OthersChange
 <2>4. {"version", "gone", "text"} \subseteq DOMAIN server'
  BY <1>5, <2>2 DEF OthersChange
 <2>5. told <= server.version
  BY <1>0, <2>2 DEF Changes
 <2>6. told' <= Changes(server') /\ ~ToldGone /\ ~ToldGone'
  BY <1>0, <2>1, <2>2, <2>3, <2>5 DEF Changes, ToldGone
 <2>7. ServerShape'
  <3>1. server'.version \in Version
   <4>1. \A v \in Version : v < MaxVersion => v + 1 \in Version
    BY DialogBounds DEF Version
   <4> QED BY <2>2, <2>3, <4>1
  <3>2. server'.gone \in BOOLEAN
   BY <2>3
  <3> QED BY <2>4, <3>1, <3>2 DEF ServerShape, HoldsVersion
 <2> QED BY <1>0, <2>1, <2>6, <2>7
         DEF PreviewInv, BatchFits, GoneIsKnown, BatchNeverUndoes, Numbered
<1>6. CASE AccountSwitch(NoPreview)
 <2>1. calls' = {} /\ nextRequest' = 0 /\ prompt' = NoPreview /\ UNCHANGED <<server, told>>
  BY <1>6 DEF AccountSwitch
 <2> QED BY <1>0, <2>1, NoPreviewShape
         DEF PreviewInv, BatchFits, GoneIsKnown, BatchNeverUndoes, Numbered, ServerShape
<1>7. ASSUME NEW call \in calls, CallFails(call) \/ PreviewsFetched(call)
      PROVE  PreviewInv' /\ BatchNeverUndoes
 <2>1. UNCHANGED <<prompt, nextRequest, server, told>>
  BY <1>7 DEF CallFails, PreviewsFetched, terminalVars, serverVars
 <2>2. CASE CallFails(call)
  <3>1. PICK m : m = [call EXCEPT !.phase = "failed"]
   OBVIOUS
  <3>2. ExcerptCall(m, nextRequest) /\ m.id = call.id /\ m.phase = "failed"
   BY <1>0, <3>1 DEF ExcerptCall
  <3> QED BY <2>1, <2>2, <3>1, <3>2, ExcerptMoves DEF CallFails, Becomes
 <2>3. CASE PreviewsFetched(call)
  <3>1. PICK m : m = [call EXCEPT !.phase = "done", !.version = Current(server)]
   OBVIOUS
  <3>2. ExcerptCall(m, nextRequest) /\ m.id = call.id /\ m.version = Current(server)
   BY <1>0, <3>1 DEF ExcerptCall
  <3> QED BY <2>1, <2>3, <3>1, <3>2, ExcerptMoves DEF PreviewsFetched, Becomes
 <2> QED BY <1>7, <2>2, <2>3
<1>8. ASSUME NEW call \in calls, AnswerIgnored(call) PROVE PreviewInv' /\ BatchNeverUndoes
 <2>1. calls' \subseteq calls /\ UNCHANGED <<prompt, nextRequest, server, told>>
  BY <1>8 DEF AnswerIgnored, terminalVars, serverVars
 <2> QED BY <1>0, <2>1, PreviewStays DEF BatchNeverUndoes
<1>9. ASSUME NEW call \in calls, CachedPreview(call) PROVE PreviewInv' /\ BatchNeverUndoes
 <2>1. UNCHANGED <<calls, nextRequest, server, told>>
       /\ prompt' = IF ToldGone THEN [prompt EXCEPT !.preview = "unavailable"]
                    ELSE [prompt EXCEPT !.preview = "ready", !.plan = told]
  BY <1>9 DEF CachedPreview, serverVars
 <2>2. /\ EntryShape(prompt') /\ prompt'.request = prompt.request
       /\ prompt'.preview = IF ToldGone THEN "unavailable" ELSE "ready"
  BY <1>0, <2>1 DEF EntryShape
 <2>3. PreviewInv'
  BY <2>1, <2>2, PreviewStays
 <2> QED BY <2>1, <2>3 DEF BatchNeverUndoes
<1>10. ASSUME NEW call \in calls, MessageLoaded(call) PROVE PreviewInv' /\ BatchNeverUndoes
 <2>1. /\ calls' = calls \ {call} /\ call.detail # "batch"
       /\ UNCHANGED <<nextRequest, server, told>>
       /\ prompt' \in {prompt, [plan |-> call.version, preview |-> "ready", request |-> 0]}
  BY <1>10 DEF MessageLoaded, serverVars
 <2>2. EntryShape(prompt') /\ (prompt' = prompt \/ prompt'.request = 0)
  BY <1>0, <2>1 DEF EntryShape
 <2>3. PreviewInv'
  BY <2>1, <2>2, PreviewStays
 <2> QED BY <2>1, <2>3 DEF BatchNeverUndoes
<1>11. ASSUME NEW call \in calls, PreviewsArrive(call) PROVE PreviewInv' /\ BatchNeverUndoes
 <2>1. /\ calls' = calls \ {call} /\ UNCHANGED <<nextRequest, server, told>>
       /\ call.detail = "batch" /\ call.phase \in {"done", "failed"}
  BY <1>11 DEF PreviewsArrive, Takes, Answers, serverVars
 <2>2. \A c \in calls' : c.id # call.id
  BY <2>1 DEF PreviewInv, Numbered
 <2>3. CASE prompt.request # call.id
  <3>1. prompt' = prompt
   BY <1>11, <2>3 DEF PreviewsArrive
  <3> QED BY <1>0, <2>1, <3>1, PreviewStays DEF BatchNeverUndoes
 <2>4. CASE prompt.request = call.id /\ call.phase = "failed"
  <3>1. prompt' = IF prompt.preview = "loading" THEN [prompt EXCEPT !.preview = "failed"]
                  ELSE prompt
   BY <1>11, <2>4 DEF PreviewsArrive, Filled
  <3>2. CASE prompt.preview = "loading"
   <4>1. EntryShape(prompt') /\ prompt'.request = prompt.request
         /\ prompt'.preview = "failed"
    BY <1>0, <3>1, <3>2 DEF EntryShape
   <4> QED BY <2>1, <4>1, PreviewStays DEF BatchNeverUndoes
  <3>3. CASE prompt.preview # "loading"
   <4>1. prompt' = prompt
    BY <3>1, <3>3
   <4> QED BY <1>0, <2>1, <4>1, PreviewStays DEF BatchNeverUndoes
  <3> QED BY <3>2, <3>3
 <2>5. CASE prompt.request = call.id /\ call.phase = "done" /\ call.version = NoVersion
  <3>1. EntryShape(prompt') /\ prompt'.request = prompt.request
        /\ prompt'.preview = "unavailable"
   BY <1>0, <1>11, <2>5 DEF PreviewsArrive, Filled, EntryShape
  <3> QED BY <2>1, <2>2, <2>5, <3>1, PreviewStays DEF BatchNeverUndoes
 <2>6. CASE prompt.request = call.id /\ call.phase = "done" /\ call.version # NoVersion
  <3>1. EntryShape(prompt') /\ prompt'.request = prompt.request
        /\ prompt'.preview = "ready" /\ prompt'.plan = call.version
   BY <1>0, <1>11, <2>6 DEF PreviewsArrive, Filled, EntryShape
  <3>2. ~ToldGone /\ call.version >= told
   BY <2>1, <2>6 DEF PreviewInv, BatchFits
  <3> QED BY <2>1, <3>1, <3>2, PreviewStays DEF BatchNeverUndoes
 <2> QED BY <2>1, <2>3, <2>4, <2>5, <2>6
<1> QED BY <1>1, <1>2, <1>3, <1>4, <1>5, <1>6, <1>7, <1>8, <1>9, <1>10, <1>11 DEF PreviewNext

-----------------------------------------------------------------------------
(* All the dialogs: each has its own invariant, and they share nothing.       *)

LEMMA StickersBegin == StickersInit => StickersInv
<1> SUFFICES ASSUME StickersInit PROVE StickersInv
 OBVIOUS
<1>1. prompt = NoStickers /\ calls = {}
 BY DEF StickersInit, DialogInit
<1> QED BY <1>1, NoStickersShape
        DEF StickersInv, PicturesUnderWay, PicturesInBudget, SetUnderWay, PanelShape, Thumbs

DialogsInv ==
    /\ dialog \in {"deletion", "forwarding"} => WaryInv
    /\ dialog = "forwarding" => OneIdPerReview
    /\ dialog = "editing" => KeepsInv
    /\ dialog = "invite" => DialogInv /\ InviteFollows
    /\ dialog = "poll" => PollInv /\ PollPicks
    /\ dialog \in {"poll", "reactions"} => HeedInv
    /\ dialog = "pins" => PinsInv
    /\ dialog = "info" => InfoInv
    /\ dialog = "stickers" => StickersInv
    /\ dialog = "previews" => PreviewInv

LEMMA DialogsBegin == Init => DialogsInv
<1> SUFFICES ASSUME Init PROVE DialogsInv
 OBVIOUS
<1>1. CASE dialog = "deletion" /\ DeletionInit
 <2>1. WaryShape(DeletionClosed)
  BY DEF WaryShape, DeletionClosed
 <2> QED BY <1>1, <2>1, DeletionClosedPlan, WaryBegins DEF DeletionInit, DialogsInv
<1>2. CASE dialog = "forwarding" /\ ForwardInit
 <2>1. WaryShape(ForwardClosed)
  BY DEF WaryShape, ForwardClosed
 <2>2. OneIdPerReview
  BY <1>2 DEF ForwardInit, DialogInit, OneIdPerReview
 <2> QED BY <1>2, <2>1, <2>2, ForwardClosedPlan, WaryBegins DEF ForwardInit, DialogsInv
<1>3. CASE dialog = "editing" /\ EditInit
 BY <1>3, KeepsBegins DEF DialogsInv
<1>4. CASE dialog = "invite" /\ InviteInit
 BY <1>4, InviteBegins, InviteClosedPlan, StartsReviewed DEF InviteInit, DialogsInv
<1>5. CASE dialog = "poll" /\ PollInit
 <2>1. HeedShape(PollClosed) /\ ~PollClosed.ready
  BY DEF HeedShape, PollClosed
 <2>2. PollInv
  BY <1>5, PollClosedPlan, StartsReviewed DEF PollInit, PollInv, Reviewing, DialogInit
 <2>3. PollPicks
  BY <1>5, ClosedPicks DEF PollInit, DialogInit, PollPicks, VotesMatch, PicksMatch
 <2>4. Planned(PollClosed)
  BY PollClosedPlan DEF Reviewing
 <2> QED BY <1>5, <2>1, <2>2, <2>3, <2>4, PollClosedPlan, HeedBegins DEF PollInit, DialogsInv
<1>6. CASE dialog = "reactions" /\ ReactionInit
 <2>1. HeedShape(PanelClosed) /\ ~PanelClosed.ready
  BY DEF HeedShape, PanelClosed
 <2> QED BY <1>6, <2>1, PanelClosedPlan, HeedBegins DEF ReactionInit, DialogsInv
<1>7. CASE dialog = "pins" /\ PinsInit
 BY <1>7, PinsBegin DEF DialogsInv
<1>8. CASE dialog = "info" /\ InfoInit
 BY <1>8, InfoBegins DEF DialogsInv
<1>9. CASE dialog = "stickers" /\ StickersInit
 BY <1>9, StickersBegin DEF DialogsInv
<1>10. CASE dialog = "previews" /\ PreviewInit
 BY <1>10, PreviewBegins DEF DialogsInv
<1>11. CASE dialog = "pasting"
 BY <1>11 DEF DialogsInv
<1> QED BY <1>1, <1>2, <1>3, <1>4, <1>5, <1>6, <1>7, <1>8, <1>9, <1>10, <1>11
        DEF Init, DialogStarts

\* What a step of a dialog may not do (ConfirmsWhatIsTold and NothingNewerIsLost).
StepConfirmsWhatIsTold ==
    \A call \in calls' \ calls :
        (call.acts /\ call.phase = "sent") =>
            /\ dialog \in {"deletion", "forwarding"} =>
                    ~ToldGone /\ Looks(call.version) >= Looks(told)
            /\ dialog \in {"poll", "reactions"} => ~ToldGone /\ call.version >= told

StepLosesNothingNewer ==
    /\ dialog = "pins" => PageIsCurrent
    /\ dialog = "previews" => BatchNeverUndoes
    /\ dialog = "editing" => TypedTextIsKept

StepIsRight == StepConfirmsWhatIsTold /\ StepLosesNothingNewer

LEMMA DialogsStep ==
  ASSUME DialogsInv, DialogNext, dialog' = dialog
  PROVE  DialogsInv' /\ StepIsRight
<1>1. CASE dialog = "deletion" /\ DeletionNext
 <2>1. WaryInv' /\ ConfirmsFitting
  BY <1>1, DeletionIsWary DEF DialogsInv
 <2> QED BY <1>1, <2>1 DEF DialogsInv, StepIsRight, StepConfirmsWhatIsTold,
                           StepLosesNothingNewer, ConfirmsFitting
<1>2. CASE dialog = "forwarding" /\ ForwardNext
 <2>1. WaryInv' /\ ConfirmsFitting
  BY <1>2, ForwardIsWary DEF DialogsInv
 <2>2. OneIdPerReview'
  BY <1>2, ForwardKeepsIds DEF DialogsInv, WaryInv
 <2> QED BY <1>2, <2>1, <2>2 DEF DialogsInv, StepIsRight, StepConfirmsWhatIsTold,
                                 StepLosesNothingNewer, ConfirmsFitting
<1>3. CASE dialog = "editing" /\ EditNext
 BY <1>3, EditKeepsText
    DEF DialogsInv, StepIsRight, StepConfirmsWhatIsTold, StepLosesNothingNewer
<1>4. CASE dialog = "invite" /\ InviteNext
 <2>1. DialogInv' /\ InviteFollows'
  BY <1>4, InviteStep, InviteKeepsFollowing DEF DialogsInv, Steps
 <2> QED BY <1>4, <2>1
         DEF DialogsInv, StepIsRight, StepConfirmsWhatIsTold, StepLosesNothingNewer
<1>5. CASE dialog = "poll" /\ PollNext
 <2>1. HeedInv' /\ ConfirmsCurrent
  BY <1>5, PollHeeds DEF DialogsInv
 <2>2. PollInv' /\ PollPicks'
  BY <1>5, PollStep, PollKeepsPicks DEF DialogsInv, PollInv, Steps
 <2> QED BY <1>5, <2>1, <2>2 DEF DialogsInv, StepIsRight, StepConfirmsWhatIsTold,
                                 StepLosesNothingNewer, ConfirmsCurrent
<1>6. CASE dialog = "reactions" /\ ReactionNext
 <2>1. HeedInv' /\ ConfirmsCurrent
  BY <1>6, ReactionHeeds DEF DialogsInv
 <2> QED BY <1>6, <2>1 DEF DialogsInv, StepIsRight, StepConfirmsWhatIsTold,
                           StepLosesNothingNewer, ConfirmsCurrent
<1>7. CASE dialog = "pins" /\ PinsNext
 BY <1>7, PinsAreCurrent
    DEF DialogsInv, StepIsRight, StepConfirmsWhatIsTold, StepLosesNothingNewer
<1>8. CASE dialog = "info" /\ InfoNext
 BY <1>8, InfoKeepsCurrent
    DEF DialogsInv, StepIsRight, StepConfirmsWhatIsTold, StepLosesNothingNewer
<1>9. CASE dialog = "stickers" /\ StickersNext
 BY <1>9, StickersKeepBudget
    DEF DialogsInv, StepIsRight, StepConfirmsWhatIsTold, StepLosesNothingNewer
<1>10. CASE dialog = "previews" /\ PreviewNext
 BY <1>10, BatchesUndoNothing
    DEF DialogsInv, StepIsRight, StepConfirmsWhatIsTold, StepLosesNothingNewer
<1> QED BY <1>1, <1>2, <1>3, <1>4, <1>5, <1>6, <1>7, <1>8, <1>9, <1>10 DEF DialogNext

LEMMA DialogsRest ==
  ASSUME DialogsInv, UNCHANGED dialogVars, dialog' = dialog
  PROVE  DialogsInv'
<1>0. UNCHANGED <<prompt, pending, nextRequest, calls, server, told, carried, effects>>
 BY DEF dialogVars
<1>1. dialog \in {"deletion", "forwarding"} => WaryInv'
 BY <1>0, Unchanging DEF DialogsInv, WaryInv, PlanFits, LooksWhileOpen, AwaitedFit, ToldGone
<1>2. dialog = "forwarding" => OneIdPerReview'
 BY <1>0 DEF DialogsInv, OneIdPerReview
<1>3. dialog = "editing" => KeepsInv'
 BY <1>0, Unchanging DEF DialogsInv, KeepsInv, EditInv, Kept, LoadsNothingKept,
                         SavesWhatIsTyped, SavedIsThere
<1>4. dialog = "invite" => DialogInv' /\ InviteFollows'
 BY <1>0, Unchanging DEF DialogsInv, InviteFollows, PromptFollows, JoinsFollow, LinksFollow,
                         Idle
<1>5. dialog = "poll" => PollInv' /\ PollPicks'
 BY <1>0, Unchanging DEF DialogsInv, PollInv, PollPicks, VotesMatch
<1>6. dialog \in {"poll", "reactions"} => HeedInv'
 BY <1>0, Unchanging DEF DialogsInv, HeedInv, ReadyFits, AwaitsOpen, LooksSince, ToldGone
<1>7. dialog = "pins" => PinsInv'
 BY <1>0 DEF DialogsInv, PinsInv, PageFits
<1>8. dialog = "info" => InfoInv'
 BY <1>0, Unchanging DEF DialogsInv, InfoInv, AnswersFresh, FreshInfoIsCurrent, Known
<1>9. dialog = "stickers" => StickersInv'
 BY <1>0 DEF DialogsInv, StickersInv
<1>10. dialog = "previews" => PreviewInv'
 BY <1>0 DEF DialogsInv, PreviewInv, ServerShape, BatchFits, GoneIsKnown, ToldGone
<1> QED BY <1>1, <1>2, <1>3, <1>4, <1>5, <1>6, <1>7, <1>8, <1>9, <1>10 DEF DialogsInv

LEMMA DialogsKeep == DialogsInv /\ [Next]_vars => DialogsInv'
<1> SUFFICES ASSUME DialogsInv, [Next]_vars PROVE DialogsInv'
 OBVIOUS
<1>1. CASE Next /\ DialogNext
 BY <1>1, DialogsStep DEF Next
<1>2. CASE Next /\ UNCHANGED dialogVars
 BY <1>2, DialogsRest DEF Next
<1>3. CASE UNCHANGED vars
 BY <1>3, DialogsRest DEF vars
<1> QED BY <1>1, <1>2, <1>3 DEF Next

LEMMA StepsAreRight == DialogsInv /\ [Next]_vars => [StepIsRight]_vars
<1> SUFFICES ASSUME DialogsInv, Next, dialog # "pasting" PROVE StepIsRight
 BY DEF Next, StepIsRight, StepConfirmsWhatIsTold, StepLosesNothingNewer, dialogVars
<1> QED BY DialogsStep DEF Next

LEMMA DialogsAlways == Spec => []DialogsInv
  BY DialogsBegin, DialogsKeep, PTL DEF Spec

(* EffectsAsConfirmed, for any number of requests and attempts: a copy that is sent again
   after a lost answer has the id of its review (send_message_forward, app/forwarding.rs),
   an invite is joined once for the preview that was read (Preview, app/invites.rs), and a
   vote is for the answers as they were shown when they were picked (app/polls.rs). *)
THEOREM EffectsAreAsConfirmed == Spec => []EffectsAsConfirmed
<1>1. DialogsInv => EffectsAsConfirmed
 BY IdsForwardOnce, FollowersJoinOnce, PicksAreVotes DEF DialogsInv, EffectsAsConfirmed
<1> QED BY <1>1, DialogsAlways, PTL

(* ShownIsTrue, whatever answers are late and whatever the terminal is told of meanwhile:
   the invite on the screen is the one opened last, the rights in a chat are those last told
   of, and what a sticker panel shows as loading is loading, within MaxThumbs. *)
THEOREM WhatIsShownIsTrue == Spec => []ShownIsTrue
<1>1. DialogsInv => ShownIsTrue
 BY FollowersJoinOnce, PicturesAreInBudget DEF DialogsInv, InfoInv, ShownIsTrue
<1> QED BY <1>1, DialogsAlways, PTL

(* ToldIsRespected, for every number of versions, requests and updates, however late the
   updates are: no confirmation rests on a review that the terminal knows to be outdated,
   and no answer puts back what an update or the user replaced. *)
THEOREM WhatIsToldIsRespected == Spec => ToldIsRespected
<1>1. [StepIsRight]_vars => [StepConfirmsWhatIsTold]_vars /\ [StepLosesNothingNewer]_vars
 BY DEF StepIsRight
<1>2. Spec => [][StepConfirmsWhatIsTold]_vars
 BY <1>1, StepsAreRight, DialogsAlways, PTL DEF Spec
<1>3. Spec => [][StepLosesNothingNewer]_vars
 BY <1>1, StepsAreRight, DialogsAlways, PTL DEF Spec
<1> QED BY <1>2, <1>3 DEF ToldIsRespected, ConfirmsWhatIsTold, NothingNewerIsLost,
           StepConfirmsWhatIsTold, StepLosesNothingNewer

-----------------------------------------------------------------------------
(* The types of the dialogs. One invariant holds in all of them: a call has a  *)
(* number that was given out, and no other call has it; the version it carries *)
(* is one the server held; and nothing is counted beyond its bound.            *)

Modes == {"Navigate", "Dialog"}
Waiting == [id : Nat, saving : BOOLEAN]

CallTyped(c, last) ==
    /\ Fields \subseteq DOMAIN c
    /\ c.id \in 0..last
    /\ c.phase \in Phases
    /\ c.version \in MaybeVersion

TerminalTyped == mode \in Modes /\ online \in BOOLEAN /\ Planned(prompt)

CallsTyped ==
    /\ nextRequest \in 0..MaxRequests
    /\ pending \in Waiting /\ pending.id \in 0..nextRequest
    /\ \A c \in calls : CallTyped(c, nextRequest)
    /\ \A a, b \in calls : (a.id = b.id /\ a.id # 0) => a = b

ServerTyped ==
    /\ HoldsVersion(server)
    /\ told \in 1..Changes(server)
    /\ carried \in 0..MaxCarried

\* A prompt about a pin returns to the mode it was opened in.
PinReturns == "asking" \in DOMAIN prompt /\ prompt.asking \in Modes \cup {"no"}

DialogTyped == TerminalTyped /\ CallsTyped /\ ServerTyped

LEMMA TypedIsType == DialogTyped => DialogType
<1> SUFFICES ASSUME DialogTyped PROVE DialogType
 OBVIOUS
<1>1. nextRequest \in 0..MaxRequests /\ pending \in Waiting /\ pending.id \in 0..nextRequest
 BY DEF DialogTyped, CallsTyped
<1>2. pending \in [id : 0..MaxRequests, saving : BOOLEAN]
 <2>1. pending = [id |-> pending.id, saving |-> pending.saving] /\ pending.saving \in BOOLEAN
  BY <1>1 DEF Waiting
 <2>2. pending.id \in 0..MaxRequests
  BY <1>1, DialogBounds
 <2> QED BY <2>1, <2>2
<1>3. /\ \A c \in calls : c.id \in 0..nextRequest /\ c.phase \in Phases
      /\ \A a, b \in calls : (a.id = b.id /\ a.id # 0) => a = b
 BY DEF DialogTyped, CallsTyped, CallTyped
<1>4. mode \in Modes /\ online \in BOOLEAN /\ prompt.plan \in MaybeVersion
 BY DEF DialogTyped, TerminalTyped, Planned
<1>5. /\ server.version \in Version /\ server.gone \in BOOLEAN
      /\ told \in 1..Changes(server) /\ carried \in 0..MaxCarried
 BY DEF DialogTyped, ServerTyped, HoldsVersion
<1> QED BY <1>1, <1>2, <1>3, <1>4, <1>5 DEF DialogType, Modes, Phases, MaybeVersion

LEMMA NoPendingTyped == NoPending \in Waiting /\ NoPending.id = 0
  BY DEF NoPending, Waiting

LEMMA DialogBeginsTyped ==
  ASSUME NEW p, DialogInit(p), Planned(p)
  PROVE  DialogTyped
<1>1. server.version = 1 /\ server.gone = FALSE /\ told = 1 /\ HoldsVersion(server)
 BY DialogBounds DEF DialogInit, HoldsVersion, Version
<1>2. ServerTyped
 BY <1>1, DialogBounds DEF ServerTyped, Changes, DialogInit
<1>3. CallsTyped
 BY NoPendingTyped, DialogBounds DEF CallsTyped, DialogInit
<1>4. TerminalTyped
 BY DEF TerminalTyped, DialogInit, Modes
<1> QED BY <1>2, <1>3, <1>4 DEF DialogTyped

(* Calls are answered, and the dialog waits for what it waited for or for nothing. *)
LEMMA FewerCalls ==
  ASSUME CallsTyped, calls' \subseteq calls, nextRequest' = nextRequest,
         pending' \in {pending, NoPending}
  PROVE  CallsTyped'
<1>1. \A c \in calls' : CallTyped(c, nextRequest)'
 BY DEF CallsTyped, CallTyped
<1> QED BY <1>1, NoPendingTyped DEF CallsTyped

(* Another call is made, with the next number. *)
LEMMA OneMoreCall ==
  ASSUME CallsTyped, NEW some \in SUBSET calls, NEW b \in BOOLEAN, NEW v \in MaybeVersion, NEW d,
         calls' = some \cup {[id |-> nextRequest + 1, acts |-> b, phase |-> "sent",
                              version |-> v, detail |-> d]},
         nextRequest < MaxRequests, nextRequest' = nextRequest + 1,
         pending' \in {pending, NoPending, [id |-> nextRequest + 1, saving |-> b]}
  PROVE  CallsTyped'
<1> DEFINE n == [id |-> nextRequest + 1, acts |-> b, phase |-> "sent", version |-> v,
                 detail |-> d]
<1>0. nextRequest \in Nat /\ MaxRequests \in Nat
 BY DialogBounds DEF CallsTyped
<1>1. CallTyped(n, nextRequest + 1) /\ n.id = nextRequest + 1
 BY <1>0 DEF CallTyped, Fields, Phases
<1>2. calls' = some \cup {n}
 OBVIOUS
<1>3. /\ [id |-> nextRequest + 1, saving |-> b] \in Waiting
      /\ [id |-> nextRequest + 1, saving |-> b].id = nextRequest + 1
 BY <1>0 DEF Waiting
<1>4. pending' \in Waiting /\ pending'.id \in 0..(nextRequest + 1)
 BY <1>0, <1>3, NoPendingTyped DEF CallsTyped
<1> HIDE DEF n
<1>5. \A c \in some : CallTyped(c, nextRequest + 1) /\ c.id # nextRequest + 1
 <2> TAKE c \in some
 <2>1. CallTyped(c, nextRequest)
  BY DEF CallsTyped
 <2> QED BY <1>0, <2>1 DEF CallTyped
<1>6. \A c \in calls' : CallTyped(c, nextRequest + 1)
 BY <1>1, <1>2, <1>5
<1>7. \A x, y \in calls' : (x.id = y.id /\ x.id # 0) => x = y
 BY <1>1, <1>2, <1>5 DEF CallsTyped
<1> QED BY <1>0, <1>4, <1>6, <1>7 DEF CallsTyped

LEMMA SubmitTyped ==
  ASSUME CallsTyped, NEW b \in BOOLEAN, NEW v \in MaybeVersion, NEW d, Submit(b, v, d)
  PROVE  CallsTyped'
  BY OneMoreCall DEF Submit

(* A call moves on. *)
LEMMA CallMovesTyped ==
  ASSUME CallsTyped, NEW c \in calls, NEW m, Becomes(c, m), Fields \subseteq DOMAIN m,
         m.id = c.id, m.phase \in Phases, m.version \in MaybeVersion,
         UNCHANGED <<pending, nextRequest>>
  PROVE  CallsTyped'
<1>1. calls' = (calls \ {c}) \cup {m}
 BY DEF Becomes
<1>2. CallTyped(m, nextRequest)
 BY DEF CallsTyped, CallTyped
<1> QED BY <1>1, <1>2 DEF CallsTyped

(* The forms in which the tasks of the worker move their calls on. *)
LEMMA PhaseMoves ==
  ASSUME CallsTyped, NEW c \in calls, NEW p \in Phases,
         Becomes(c, [c EXCEPT !.phase = p]), UNCHANGED <<pending, nextRequest>>
  PROVE  CallsTyped'
<1> DEFINE m == [c EXCEPT !.phase = p]
<1>1. CallTyped(c, nextRequest)
 BY DEF CallsTyped
<1>2. Fields \subseteq DOMAIN m /\ m.id = c.id /\ m.phase = p /\ m.version = c.version
 BY <1>1 DEF CallTyped, Fields
<1>3. c.version \in MaybeVersion
 BY <1>1 DEF CallTyped
<1> HIDE DEF m
<1> QED BY <1>2, <1>3, CallMovesTyped DEF m

LEMMA AnswerMoves ==
  ASSUME CallsTyped, NEW c \in calls, NEW v \in MaybeVersion, NEW d,
         \/ Becomes(c, [c EXCEPT !.phase = "done", !.version = v])
         \/ Becomes(c, [c EXCEPT !.phase = "done", !.version = v, !.detail = d])
         \/ Becomes(c, [c EXCEPT !.phase = "done", !.version = v, !.detail.member = d]),
         UNCHANGED <<pending, nextRequest>>
  PROVE  CallsTyped'
<1>0. CallTyped(c, nextRequest) /\ "done" \in Phases
 BY DEF CallsTyped, Phases
<1>1. ASSUME NEW m, Becomes(c, m), Fields \subseteq DOMAIN m, m.id = c.id, m.phase = "done",
             m.version = v
      PROVE  CallsTyped'
 BY <1>0, <1>1, CallMovesTyped
<1>2. CASE Becomes(c, [c EXCEPT !.phase = "done", !.version = v])
 <2> DEFINE m == [c EXCEPT !.phase = "done", !.version = v]
 <2>1. Fields \subseteq DOMAIN m /\ m.id = c.id /\ m.phase = "done" /\ m.version = v
  BY <1>0 DEF CallTyped, Fields
 <2> HIDE DEF m
 <2> QED BY <1>1, <1>2, <2>1 DEF m
<1>3. CASE Becomes(c, [c EXCEPT !.phase = "done", !.version = v, !.detail = d])
 <2> DEFINE m == [c EXCEPT !.phase = "done", !.version = v, !.detail = d]
 <2>1. Fields \subseteq DOMAIN m /\ m.id = c.id /\ m.phase = "done" /\ m.version = v
  BY <1>0 DEF CallTyped, Fields
 <2> HIDE DEF m
 <2> QED BY <1>1, <1>3, <2>1 DEF m
<1>4. CASE Becomes(c, [c EXCEPT !.phase = "done", !.version = v, !.detail.member = d])
 <2> DEFINE m == [c EXCEPT !.phase = "done", !.version = v, !.detail.member = d]
 <2>1. Fields \subseteq DOMAIN m /\ m.id = c.id /\ m.phase = "done" /\ m.version = v
  BY <1>0 DEF CallTyped, Fields
 <2> HIDE DEF m
 <2> QED BY <1>1, <1>4, <2>1 DEF m
<1> QED BY <1>2, <1>3, <1>4

LEMMA MemberMoves ==
  ASSUME CallsTyped, NEW c \in calls, NEW p \in Phases, NEW d,
         Becomes(c, [c EXCEPT !.phase = p, !.detail.member = d]),
         UNCHANGED <<pending, nextRequest>>
  PROVE  CallsTyped'
<1> DEFINE m == [c EXCEPT !.phase = p, !.detail.member = d]
<1>1. CallTyped(c, nextRequest)
 BY DEF CallsTyped
<1>2. Fields \subseteq DOMAIN m /\ m.id = c.id /\ m.phase = p /\ m.version = c.version
 BY <1>1 DEF CallTyped, Fields
<1>3. c.version \in MaybeVersion
 BY <1>1 DEF CallTyped
<1> HIDE DEF m
<1> QED BY <1>2, <1>3, CallMovesTyped DEF m

(* What the server holds: the terminal is told of one change more, or of none... *)
LEMMA ToldTyped ==
  ASSUME ServerTyped, told' \in {told, told + 1}, told' <= Changes(server),
         UNCHANGED <<server, carried>>
  PROVE  ServerTyped'
<1>1. told \in Nat /\ Changes(server) \in Nat /\ told >= 1
 BY DEF ServerTyped, Changes, HoldsVersion, Version
<1>2. Changes(server)' = Changes(server) /\ HoldsVersion(server)'
 BY DEF ServerTyped, Changes, HoldsVersion
<1> QED BY <1>1, <1>2 DEF ServerTyped

Counted == \/ carried' = carried
           \/ carried < MaxCarried /\ carried' = carried + 1

LEMMA CountedTyped ==
  ASSUME ServerTyped, Counted
  PROVE  carried' \in 0..MaxCarried
  BY DialogBounds DEF ServerTyped, Counted

(* ... an action is carried out, which may not change the object... *)
LEMMA CarriedTyped ==
  ASSUME ServerTyped, Counted, UNCHANGED <<server, told>>
  PROVE  ServerTyped'
<1>1. Changes(server)' = Changes(server) /\ HoldsVersion(server)'
 BY DEF ServerTyped, Changes, HoldsVersion
<1> QED BY <1>1, CountedTyped DEF ServerTyped

(* ... or there is another version, another text, or the object goes. *)
LEMMA ServerMoves ==
  ASSUME ServerTyped, Counted, told' = told, NEW t,
         \/ server' = [server EXCEPT !.gone = TRUE]
         \/ server' = [server EXCEPT !.text = t]
         \/ server.version < MaxVersion /\ server' = [server EXCEPT !.version = @ + 1]
         \/ /\ server.version < MaxVersion
            /\ server' = [server EXCEPT !.version = @ + 1, !.text = t]
  PROVE  ServerTyped'
<1>0. /\ {"version", "gone", "text"} \subseteq DOMAIN server
      /\ server.version \in 1..MaxVersion /\ server.gone \in BOOLEAN /\ MaxVersion \in Nat
 BY DialogBounds DEF ServerTyped, HoldsVersion, Version
<1>1. /\ {"version", "gone", "text"} \subseteq DOMAIN server'
      /\ server'.version \in 1..MaxVersion /\ server'.gone \in BOOLEAN
      /\ server'.version >= server.version
      /\ server.gone => server'.gone
 <2>1. CASE server' = [server EXCEPT !.gone = TRUE]
  BY <1>0, <2>1
 <2>2. CASE server' = [server EXCEPT !.text = t]
  BY <1>0, <2>2
 <2>3. CASE server.version < MaxVersion /\ server' = [server EXCEPT !.version = @ + 1]
  <3>1. server'.version = server.version + 1 /\ server'.gone = server.gone
        /\ DOMAIN server' = DOMAIN server
   BY <1>0, <2>3
  <3> QED BY <1>0, <2>3, <3>1
 <2>4. CASE /\ server.version < MaxVersion
            /\ server' = [server EXCEPT !.version = @ + 1, !.text = t]
  <3>1. server'.version = server.version + 1 /\ server'.gone = server.gone
        /\ DOMAIN server' = DOMAIN server
   BY <1>0, <2>4
  <3> QED BY <1>0, <2>4, <3>1
 <2> QED BY <2>1, <2>2, <2>3, <2>4
<1>2. Changes(server') \in Nat /\ Changes(server) \in Nat /\ Changes(server') >= Changes(server)
 BY <1>0, <1>1 DEF Changes
<1>3. HoldsVersion(server')
 BY <1>1 DEF HoldsVersion, Version
<1>4. told' \in 1..Changes(server')
 BY <1>2 DEF ServerTyped
<1> QED BY <1>3, <1>4, CountedTyped DEF ServerTyped

(* The steps that are the same in every dialog. *)
LEMMA OthersTyped ==
  ASSUME DialogTyped, OthersChange
  PROVE  DialogTyped'
<1>0. TerminalTyped /\ CallsTyped /\ ServerTyped
 BY DEF DialogTyped
<1>1. UNCHANGED <<mode, prompt, online, pending, nextRequest, calls, told, carried>>
 BY DEF OthersChange, terminalVars
<1>2. ServerTyped'
 BY <1>0, <1>1, ServerMoves DEF OthersChange, Counted
<1>3. TerminalTyped' /\ CallsTyped'
 BY <1>0, <1>1, FewerCalls DEF TerminalTyped
<1> QED BY <1>2, <1>3 DEF DialogTyped

LEMMA AnswersTyped ==
  ASSUME DialogTyped, NEW c \in calls, CallFails(c) \/ AnswerIgnored(c)
  PROVE  DialogTyped'
<1>0. TerminalTyped /\ CallsTyped /\ ServerTyped
 BY DEF DialogTyped
<1>1. UNCHANGED <<mode, prompt, online, pending, nextRequest, server, told, carried>>
 BY DEF CallFails, AnswerIgnored, terminalVars, serverVars
<1>2. CallsTyped'
 BY <1>0, <1>1, PhaseMoves, FewerCalls DEF CallFails, AnswerIgnored, Phases
<1>3. TerminalTyped' /\ ServerTyped'
 BY <1>0, <1>1, CarriedTyped DEF TerminalTyped, Counted
<1> QED BY <1>2, <1>3 DEF DialogTyped

LEMMA SwitchTyped ==
  ASSUME DialogTyped, NEW p, Planned(p), AccountSwitch(p)
  PROVE  DialogTyped'
<1>1. /\ mode' = "Navigate" /\ prompt' = p /\ online' = FALSE
      /\ pending' = NoPending /\ nextRequest' = 0 /\ calls' = {}
      /\ UNCHANGED <<server, told, carried>>
 BY DEF AccountSwitch
<1>2. CallsTyped'
 BY <1>1, NoPendingTyped, DialogBounds DEF CallsTyped
<1>3. TerminalTyped' /\ ServerTyped'
 BY <1>1, CarriedTyped DEF DialogTyped, TerminalTyped, Counted, Modes
<1> QED BY <1>2, <1>3 DEF DialogTyped

LEMMA LetGoTyped ==
  ASSUME DialogTyped, NEW p, Planned(p), LetGo(p)
  PROVE  DialogTyped'
<1>1. /\ UNCHANGED <<calls, nextRequest, online, server, told, carried>>
      /\ mode' \in Modes /\ pending' \in {pending, NoPending} /\ prompt' \in {prompt, p}
 BY DEF LetGo, serverVars, Modes
<1>2. TerminalTyped'
 BY <1>1 DEF DialogTyped, TerminalTyped
<1> QED BY <1>1, <1>2, FewerCalls, CarriedTyped DEF DialogTyped, Counted

LEMMA SurroundingsTyped ==
  ASSUME DialogTyped, Surroundings
  PROVE  DialogTyped'
<1>0. TerminalTyped /\ CallsTyped /\ ServerTyped
 BY DEF DialogTyped
<1>1. CASE ConnectionChanges \/ ModeReset
 <2>1. /\ UNCHANGED <<prompt, pending, nextRequest, calls, server, told, carried>>
       /\ mode' \in Modes /\ online' \in BOOLEAN
  BY <1>0, <1>1 DEF ConnectionChanges, ModeReset, serverVars, TerminalTyped, Modes
 <2>2. TerminalTyped'
  BY <1>0, <2>1 DEF TerminalTyped
 <2> QED BY <1>0, <2>1, <2>2, FewerCalls, CarriedTyped DEF DialogTyped, Counted
<1>2. CASE OthersChange
 BY <1>0, <1>2, OthersTyped DEF DialogTyped
<1>3. CASE \E c \in calls : CallFails(c) \/ AnswerIgnored(c)
 BY <1>0, <1>3, AnswersTyped DEF DialogTyped
<1> QED BY <1>1, <1>2, <1>3 DEF Surroundings

(* A step of the terminal alone: calls may be answered, and none is made. *)
LEMMA TerminalMoves ==
  ASSUME DialogTyped, calls' \subseteq calls, nextRequest' = nextRequest,
         pending' \in {pending, NoPending}, mode' \in Modes, online' \in BOOLEAN,
         Planned(prompt'), UNCHANGED <<server, carried>>,
         told' \in {told, told + 1}, told' <= Changes(server)
  PROVE  DialogTyped'
<1>1. TerminalTyped'
 BY DEF TerminalTyped
<1> QED BY <1>1, FewerCalls, ToldTyped DEF DialogTyped

(* A step of the terminal that makes a call. *)
LEMMA TerminalAsks ==
  ASSUME DialogTyped, NEW b \in BOOLEAN, NEW v \in MaybeVersion, NEW d, Submit(b, v, d),
         mode' \in Modes, online' \in BOOLEAN, Planned(prompt'), UNCHANGED <<server, carried>>,
         told' \in {told, told + 1}, told' <= Changes(server)
  PROVE  DialogTyped'
<1>1. TerminalTyped'
 BY DEF TerminalTyped
<1> QED BY <1>1, SubmitTyped, ToldTyped DEF DialogTyped

(* A step of the task of a call, which the terminal does not see. *)
LEMMA WorkerMoves ==
  ASSUME DialogTyped, UNCHANGED terminalVars, CallsTyped', ServerTyped'
  PROVE  DialogTyped'
  BY DEF DialogTyped, TerminalTyped, terminalVars

LEMMA ToldInBounds ==
  ASSUME DialogTyped
  PROVE  /\ told \in Nat \ {0} /\ told <= Changes(server) /\ server.version \in Version
         /\ Changes(server) \in Nat
         /\ ~ToldGone => told \in Version
         /\ server.version \in MaybeVersion /\ NoVersion \in MaybeVersion
         /\ mode \in Modes /\ online \in BOOLEAN /\ Planned(prompt)
         /\ \A c \in calls : c.version \in MaybeVersion
<1>1. server.version \in Version /\ told \in 1..Changes(server) /\ server.gone \in BOOLEAN
 BY DEF DialogTyped, ServerTyped, HoldsVersion
<1>2. Changes(server) \in Nat
 BY <1>1 DEF Changes, Version
<1>3. ~ToldGone => told \in Version
 BY <1>1, <1>2, DialogBounds DEF ToldGone, Version
<1>4. mode \in Modes /\ online \in BOOLEAN /\ Planned(prompt)
 BY DEF DialogTyped, TerminalTyped
<1>5. \A c \in calls : c.version \in MaybeVersion
 BY DEF DialogTyped, CallsTyped, CallTyped
<1> QED BY <1>1, <1>2, <1>3, <1>4, <1>5 DEF MaybeVersion

(* Dialog by dialog: what the terminal does alone, what it asks for, and what the tasks of
   the worker do. *)
LEMMA DeletionTyped ==
  ASSUME DialogTyped, DeletionNext
  PROVE  DialogTyped'
<1>0. /\ told \in Nat \ {0} /\ told <= Changes(server) /\ Changes(server) \in Nat
      /\ server.version \in MaybeVersion /\ NoVersion \in MaybeVersion
      /\ mode \in Modes /\ online \in BOOLEAN /\ Planned(prompt)
      /\ \A c \in calls : c.version \in MaybeVersion
 BY ToldInBounds
<1>1. CallsTyped /\ ServerTyped
 BY DEF DialogTyped
<1>2. CASE BeginDeletion
 <2>1. Planned(prompt') /\ mode' \in Modes
  BY <1>0, <1>2 DEF BeginDeletion, DeletionClosed, Planned, Modes
 <2> QED BY <1>0, <1>2, <2>1, TerminalAsks DEF BeginDeletion, serverVars
<1>3. CASE ConfirmDeletion
 BY <1>0, <1>3, TerminalAsks DEF ConfirmDeletion, serverVars, Planned
<1>4. CASE SelectScope \/ DeletionTold \/ DeletionInvalidated
 <2>1. Planned(prompt')
  BY <1>0, <1>4 DEF SelectScope, DeletionTold, DeletionInvalidated, Invalidated, Planned
 <2>2. /\ UNCHANGED <<mode, pending, nextRequest, online, calls, server, carried>>
       /\ told' \in {told, told + 1} /\ told' <= Changes(server)
  BY <1>0, <1>4 DEF SelectScope, DeletionTold, DeletionInvalidated, serverVars
 <2> QED BY <1>0, <2>1, <2>2, TerminalMoves
<1>5. CASE CloseDeletion
 BY <1>5, DeletionClosedPlan, LetGoTyped DEF CloseDeletion
<1>6. CASE AccountSwitch(DeletionClosed)
 BY <1>6, DeletionClosedPlan, SwitchTyped
<1>7. ASSUME NEW c \in calls, DeletionReady(c) \/ DeletionFinished(c) PROVE DialogTyped'
 <2>1. Planned(prompt') /\ mode' \in Modes
  BY <1>0, <1>7, DeletionClosedPlan DEF DeletionReady, DeletionFinished, Planned, Modes
 <2>2. /\ calls' \subseteq calls /\ pending' = NoPending
       /\ UNCHANGED <<nextRequest, online, server, told, carried>>
  BY <1>7 DEF DeletionReady, DeletionFinished, Takes, serverVars
 <2> QED BY <1>0, <2>1, <2>2, TerminalMoves
<1>8. ASSUME NEW c \in calls, ReviewDeletion(c) PROVE DialogTyped'
 BY <1>0, <1>1, <1>8, AnswerMoves, CarriedTyped, WorkerMoves
    DEF ReviewDeletion, terminalVars, serverVars, Counted
<1>9. ASSUME NEW c \in calls, RecheckDeletion(c) PROVE DialogTyped'
 BY <1>1, <1>9, PhaseMoves, CarriedTyped, WorkerMoves
    DEF RecheckDeletion, terminalVars, serverVars, Counted, Phases
<1>10. ASSUME NEW c \in calls, DeleteMessage(c) PROVE DialogTyped'
 BY <1>1, <1>10, PhaseMoves, ServerMoves, WorkerMoves
    DEF DeleteMessage, terminalVars, Counted, Phases
<1>11. CASE Surroundings
 BY <1>11, SurroundingsTyped
<1> QED BY <1>2, <1>3, <1>4, <1>5, <1>6, <1>7, <1>8, <1>9, <1>10, <1>11 DEF DeletionNext

LEMMA ForwardTyped ==
  ASSUME DialogTyped, ForwardNext
  PROVE  DialogTyped'
<1>0. /\ told \in Nat \ {0} /\ told <= Changes(server) /\ Changes(server) \in Nat
      /\ server.version \in MaybeVersion /\ NoVersion \in MaybeVersion
      /\ mode \in Modes /\ online \in BOOLEAN /\ Planned(prompt)
      /\ \A c \in calls : c.version \in MaybeVersion
 BY ToldInBounds
<1>1. CallsTyped /\ ServerTyped
 BY DEF DialogTyped
<1>2. CASE ReviewForward
 <2>1. Planned(prompt') /\ mode' \in Modes
  BY <1>0, <1>2 DEF ReviewForward, ForwardClosed, Planned, Modes
 <2> QED BY <1>0, <1>2, <2>1, TerminalAsks DEF ReviewForward, serverVars
<1>3. CASE SendForward
 BY <1>0, <1>3, TerminalAsks DEF SendForward, serverVars, Planned
<1>4. CASE ReopenForward \/ ForwardTold \/ ForwardInvalidated
 <2>1. Planned(prompt') /\ mode' \in Modes
  BY <1>0, <1>4 DEF ReopenForward, ForwardTold, ForwardInvalidated, Planned, Modes
 <2>2. /\ UNCHANGED <<pending, nextRequest, online, calls, server, carried>>
       /\ told' \in {told, told + 1} /\ told' <= Changes(server)
  BY <1>0, <1>4 DEF ReopenForward, ForwardTold, ForwardInvalidated, serverVars
 <2> QED BY <1>0, <2>1, <2>2, TerminalMoves
<1>5. CASE CancelForward
 BY <1>5, ForwardClosedPlan, LetGoTyped DEF CancelForward
<1>6. CASE AccountSwitch(ForwardClosed)
 BY <1>6, ForwardClosedPlan, SwitchTyped
<1>7. ASSUME NEW c \in calls, ForwardReady(c) \/ ForwardFinished(c) PROVE DialogTyped'
 <2>1. Planned(prompt') /\ mode' \in Modes
  BY <1>0, <1>7, ForwardClosedPlan DEF ForwardReady, ForwardFinished, Planned, Modes
 <2>2. /\ calls' \subseteq calls /\ pending' = NoPending
       /\ UNCHANGED <<nextRequest, online, server, told, carried>>
  BY <1>7 DEF ForwardReady, ForwardFinished, Takes, serverVars
 <2> QED BY <1>0, <2>1, <2>2, TerminalMoves
<1>8. ASSUME NEW c \in calls, OriginalFetched(c) PROVE DialogTyped'
 BY <1>0, <1>1, <1>8, AnswerMoves, CarriedTyped, WorkerMoves
    DEF OriginalFetched, terminalVars, serverVars, Counted
<1>9. ASSUME NEW c \in calls, RecheckOriginal(c) \/ ForwardMessage(c) PROVE DialogTyped'
 BY <1>1, <1>9, PhaseMoves, CarriedTyped, WorkerMoves
    DEF RecheckOriginal, ForwardMessage, terminalVars, serverVars, Counted, Phases
<1>10. CASE Surroundings
 BY <1>10, SurroundingsTyped
<1> QED BY <1>2, <1>3, <1>4, <1>5, <1>6, <1>7, <1>8, <1>9, <1>10 DEF ForwardNext

LEMMA EditTyped ==
  ASSUME DialogTyped, EditNext
  PROVE  DialogTyped'
<1>0. /\ told \in Nat \ {0} /\ told <= Changes(server) /\ Changes(server) \in Nat
      /\ server.version \in MaybeVersion /\ NoVersion \in MaybeVersion
      /\ mode \in Modes /\ online \in BOOLEAN /\ Planned(prompt)
      /\ \A c \in calls : c.version \in MaybeVersion
 BY ToldInBounds
<1>1. CallsTyped /\ ServerTyped
 BY DEF DialogTyped
<1>2. CASE LoadEdit
 BY <1>0, <1>2, TerminalAsks DEF LoadEdit, serverVars, Modes
<1>3. CASE SaveEdit
 BY <1>0, <1>3, TerminalAsks DEF SaveEdit, serverVars, Planned
<1>4. CASE ResumeEdit \/ TypeEdit \/ SaveUnchanged \/ DiscardEdit \/ LeaveEdit
 <2>1. Planned(prompt') /\ mode' \in Modes
  BY <1>0, <1>4 DEF ResumeEdit, TypeEdit, SaveUnchanged, DiscardEdit, LeaveEdit, NothingKept,
     Planned, Modes
 <2>2. /\ UNCHANGED <<nextRequest, online, calls, server, told, carried>>
       /\ pending' \in {pending, NoPending}
  BY <1>4 DEF ResumeEdit, TypeEdit, SaveUnchanged, DiscardEdit, LeaveEdit, serverVars
 <2> QED BY <1>0, <2>1, <2>2, TerminalMoves
<1>5. CASE AccountSwitch(prompt)
 BY <1>0, <1>5, SwitchTyped
<1>6. ASSUME NEW c \in calls, EditLoaded(c) \/ EditFinished(c) PROVE DialogTyped'
 <2>0. Planned(NothingKept) /\ Planned([plan |-> c.version, text |-> Original])
  BY <1>0 DEF Planned, NothingKept
 <2>1. Planned(prompt') /\ mode' \in Modes
  BY <1>0, <1>6, <2>0 DEF EditLoaded, EditFinished, Modes
 <2>2. /\ calls' \subseteq calls /\ pending' = NoPending
       /\ UNCHANGED <<nextRequest, online, server, told, carried>>
  BY <1>6 DEF EditLoaded, EditFinished, Takes, serverVars
 <2> QED BY <1>0, <2>1, <2>2, TerminalMoves
<1>7. ASSUME NEW c \in calls, OriginalLoaded(c) PROVE DialogTyped'
 BY <1>0, <1>1, <1>7, AnswerMoves, CarriedTyped, WorkerMoves
    DEF OriginalLoaded, terminalVars, serverVars, Counted
<1>8. ASSUME NEW c \in calls, AlreadySaved(c) \/ RecheckEdit(c) PROVE DialogTyped'
 BY <1>1, <1>8, PhaseMoves, CarriedTyped, WorkerMoves
    DEF AlreadySaved, RecheckEdit, terminalVars, serverVars, Counted, Phases
<1>9. ASSUME NEW c \in calls, EditMessage(c) PROVE DialogTyped'
 BY <1>1, <1>9, PhaseMoves, ServerMoves, WorkerMoves
    DEF EditMessage, terminalVars, Counted, Phases
<1>10. CASE Surroundings
 BY <1>10, SurroundingsTyped
<1> QED BY <1>2, <1>3, <1>4, <1>5, <1>6, <1>7, <1>8, <1>9, <1>10 DEF EditNext

LEMMA InviteTyped ==
  ASSUME DialogTyped, InviteNext
  PROVE  DialogTyped'
<1>0. /\ told \in Nat \ {0} /\ told <= Changes(server) /\ Changes(server) \in Nat
      /\ server.version \in MaybeVersion /\ NoVersion \in MaybeVersion
      /\ mode \in Modes /\ online \in BOOLEAN /\ Planned(prompt)
      /\ \A c \in calls : c.version \in MaybeVersion
 BY ToldInBounds
<1>1. CallsTyped /\ ServerTyped
 BY DEF DialogTyped
<1>2. CASE BeginInvite
 <2>1. PICK link \in Link :
         /\ prompt' = [InviteClosed EXCEPT !.open = TRUE, !.link = link,
                                           !.review = nextRequest + 1]
         /\ Submit(FALSE, NoVersion, [link |-> link, member |-> FALSE, review |-> 0])
  BY <1>2 DEF BeginInvite
 <2>2. Planned(prompt') /\ mode' \in Modes
  BY <1>0, <1>2, <2>1 DEF BeginInvite, InviteClosed, Planned, Modes
 <2> QED BY <1>0, <1>2, <2>1, <2>2, TerminalAsks DEF BeginInvite, serverVars
<1>3. CASE JoinInvite
 BY <1>0, <1>3, TerminalAsks DEF JoinInvite, serverVars, Planned
<1>4. CASE OpenJoined
 <2>1. Planned(prompt') /\ mode' \in Modes
  BY <1>4, InviteClosedPlan DEF OpenJoined, Modes
 <2>2. UNCHANGED <<pending, nextRequest, online, calls, server, told, carried>>
  BY <1>4 DEF OpenJoined, serverVars
 <2> QED BY <1>0, <2>1, <2>2, TerminalMoves
<1>5. CASE CloseInvite
 BY <1>5, InviteClosedPlan, LetGoTyped DEF CloseInvite
<1>6. CASE AccountSwitch(InviteClosed)
 BY <1>6, InviteClosedPlan, SwitchTyped
<1>7. ASSUME NEW c \in calls, InviteReady(c) \/ InviteJoined(c) PROVE DialogTyped'
 <2>1. Planned(prompt') /\ mode' \in Modes
  BY <1>0, <1>7, InviteClosedPlan DEF InviteReady, InviteJoined, Planned, Modes
 <2>2. /\ calls' \subseteq calls /\ pending' = NoPending
       /\ UNCHANGED <<nextRequest, online, server, told, carried>>
  BY <1>7 DEF InviteReady, InviteJoined, Takes, serverVars
 <2> QED BY <1>0, <2>1, <2>2, TerminalMoves
<1>8. ASSUME NEW c \in calls, InvitePreviewed(c) PROVE DialogTyped'
 BY <1>0, <1>1, <1>8, AnswerMoves, CarriedTyped, WorkerMoves
    DEF InvitePreviewed, terminalVars, serverVars, Counted
<1>9. ASSUME NEW c \in calls, AlreadyMember(c) PROVE DialogTyped'
 BY <1>1, <1>9, MemberMoves, CarriedTyped, WorkerMoves
    DEF AlreadyMember, terminalVars, serverVars, Counted, Phases
<1>10. ASSUME NEW c \in calls, RecheckInvite(c) PROVE DialogTyped'
 BY <1>1, <1>10, PhaseMoves, CarriedTyped, WorkerMoves
    DEF RecheckInvite, terminalVars, serverVars, Counted, Phases
<1>11. ASSUME NEW c \in calls, ImportChatInvite(c) PROVE DialogTyped'
 <2>1. PICK member \in BOOLEAN, outcome \in {"done", "failed"} :
         /\ Becomes(c, [c EXCEPT !.phase = outcome, !.detail.member = member])
         /\ server' = [server EXCEPT !.text = IF member THEN Member ELSE @]
  BY <1>11 DEF ImportChatInvite
 <2>2. UNCHANGED terminalVars /\ UNCHANGED <<pending, nextRequest, told>> /\ Counted
  BY <1>11 DEF ImportChatInvite, terminalVars, Counted
 <2>3. CallsTyped'
  BY <1>1, <2>1, <2>2, MemberMoves DEF Phases
 <2>4. ServerTyped'
  BY <1>1, <2>1, <2>2, ServerMoves
 <2> QED BY <2>2, <2>3, <2>4, WorkerMoves
<1>12. CASE Surroundings
 BY <1>12, SurroundingsTyped
<1> QED BY <1>2, <1>3, <1>4, <1>5, <1>6, <1>7, <1>8, <1>9, <1>10, <1>11, <1>12 DEF InviteNext

LEMMA LoadPollTyped ==
  ASSUME DialogTyped, NEW p, Planned(p), LoadPoll(p), mode' \in Modes,
         UNCHANGED <<online, serverVars>>
  PROVE  DialogTyped'
<1>0. told \in Nat \ {0} /\ told <= Changes(server) /\ NoVersion \in MaybeVersion
      /\ online \in BOOLEAN
 BY ToldInBounds
<1>1. Planned(prompt')
 BY DEF LoadPoll, Planned
<1>2. CASE online
 BY <1>0, <1>1, <1>2, TerminalAsks DEF LoadPoll, serverVars
<1>3. CASE ~online
 BY <1>0, <1>1, <1>3, TerminalMoves DEF LoadPoll, serverVars
<1> QED BY <1>0, <1>2, <1>3

LEMMA SettlesTyped ==
  ASSUME DialogTyped, NEW c \in calls, NEW p, Planned(p), NEW l, Planned(l), NEW d,
         Settles(c, p) \/ SettlesAndLooks(c, p, l, d), UNCHANGED <<mode, online, serverVars>>
  PROVE  DialogTyped'
<1>0. told \in Nat \ {0} /\ told <= Changes(server) /\ NoVersion \in MaybeVersion
      /\ online \in BOOLEAN /\ mode \in Modes
 BY ToldInBounds
<1>1. CASE Settles(c, p)
 BY <1>0, <1>1, TerminalMoves DEF Settles, serverVars
<1>2. CASE SettlesAndLooks(c, p, l, d) /\ ~Settles(c, p)
 <2>1. /\ nextRequest < MaxRequests /\ nextRequest' = nextRequest + 1
       /\ pending' = [id |-> nextRequest + 1, saving |-> FALSE]
       /\ calls' = (calls \ {c}) \cup
                   {[id |-> nextRequest + 1, acts |-> FALSE, phase |-> "sent",
                     version |-> NoVersion, detail |-> d]}
       /\ prompt' = l
  BY <1>2 DEF SettlesAndLooks
 <2>2. CallsTyped /\ (calls \ {c}) \in SUBSET calls
  BY DEF DialogTyped
 <2>3. CallsTyped'
  BY <1>0, <2>1, <2>2, OneMoreCall
 <2>4. TerminalTyped' /\ ServerTyped'
  BY <1>0, <2>1, CarriedTyped DEF DialogTyped, TerminalTyped, serverVars, Counted
 <2> QED BY <2>3, <2>4 DEF DialogTyped
<1> QED BY <1>1, <1>2

LEMMA PollTyped ==
  ASSUME DialogTyped, PollNext
  PROVE  DialogTyped'
<1>0. /\ told \in Nat \ {0} /\ told <= Changes(server) /\ Changes(server) \in Nat
      /\ server.version \in MaybeVersion /\ NoVersion \in MaybeVersion
      /\ mode \in Modes /\ online \in BOOLEAN /\ Planned(prompt)
      /\ (\A c \in calls : c.version \in MaybeVersion)
      /\ server.version \in Version /\ (~ToldGone => told \in Version)
 BY ToldInBounds
<1>1. CallsTyped /\ ServerTyped
 BY DEF DialogTyped
<1>2. CASE BeginPoll
 <2>1. PICK row \in told..server.version :
         LoadPoll([PollClosed EXCEPT !.open = TRUE, !.plan = row])
  BY <1>2 DEF BeginPoll
 <2>2. row \in MaybeVersion
  BY <1>0, DialogBounds DEF MaybeVersion, Version
 <2>3. Planned([PollClosed EXCEPT !.open = TRUE, !.plan = row])
  BY <2>2 DEF Planned, PollClosed
 <2> QED BY <1>2, <2>1, <2>3, LoadPollTyped DEF BeginPoll, Modes
<1>3. CASE RefreshReview
 BY <1>0, <1>3, LoadPollTyped DEF RefreshReview
<1>4. CASE SubmitVote
 BY <1>0, <1>4, TerminalAsks DEF SubmitVote, serverVars, Planned
<1>5. CASE PickAnswers \/ PollTold \/ PollInvalidated
 <2>1. Planned(prompt')
  <3>1. CASE PollTold
   <4>1. told + 1 > server.version \/ told + 1 \in MaybeVersion
    BY <1>0, DialogBounds DEF MaybeVersion, Version
   <4>2. told' = told + 1
    BY <3>1 DEF PollTold
   <4>3. CASE prompt' \in {prompt, [prompt EXCEPT !.ready = FALSE]}
    BY <1>0, <4>3 DEF Planned
   <4>4. CASE told + 1 \in MaybeVersion /\ prompt' = Shown(prompt, told + 1, FALSE)
    BY <1>0, <4>4 DEF Planned, Shown
   <4> QED BY <3>1, <4>1, <4>2, <4>3, <4>4 DEF PollTold
  <3> QED BY <1>0, <1>5, <3>1 DEF PickAnswers, PollInvalidated, Planned
 <2>2. /\ UNCHANGED <<mode, nextRequest, online, calls, server, carried>>
       /\ pending' \in {pending, NoPending}
  BY <1>5 DEF PickAnswers, PollTold, PollInvalidated, serverVars
 <2>3. told' = told \/ (told < Changes(server) /\ told' = told + 1)
  BY <1>5 DEF PickAnswers, PollTold, PollInvalidated, serverVars
 <2>4. told' \in {told, told + 1} /\ told' <= Changes(server)
  BY <1>0, <2>3
 <2> QED BY <1>0, <2>1, <2>2, <2>4, TerminalMoves
<1>6. CASE ClosePoll
 BY <1>6, PollClosedPlan, LetGoTyped DEF ClosePoll, Reviewing, Planned
<1>7. CASE AccountSwitch(PollClosed)
 BY <1>7, PollClosedPlan, SwitchTyped DEF Reviewing, Planned
<1>8. ASSUME NEW c \in calls, PollLoaded(c) PROVE DialogTyped'
 <2>1. PICK fresh \in BOOLEAN :
         prompt' = IF c.phase = "failed" THEN prompt
                   ELSE [Shown(prompt, IF told > c.detail /\ ~ToldGone THEN told
                                       ELSE c.version, TRUE) EXCEPT !.ready = fresh]
  BY <1>8 DEF PollLoaded
 <2>2. (IF told > c.detail /\ ~ToldGone THEN told ELSE c.version) \in MaybeVersion
  BY <1>0 DEF MaybeVersion
 <2>3. Planned(prompt')
  BY <1>0, <2>1, <2>2 DEF Shown, Planned
 <2>4. /\ calls' \subseteq calls /\ pending' = NoPending
       /\ UNCHANGED <<mode, nextRequest, online, server, told, carried>>
  BY <1>8 DEF PollLoaded, Takes, serverVars
 <2> QED BY <1>0, <2>3, <2>4, TerminalMoves
<1>9. ASSUME NEW c \in calls, VoteFinished(c) PROVE DialogTyped'
 <2>1. /\ Planned([prompt EXCEPT !.ready = FALSE])
       /\ Planned([prompt EXCEPT !.picked = NoVersion])
       /\ Planned([prompt EXCEPT !.picked = NoVersion, !.ready = FALSE])
       /\ Planned(PollClosed)
  BY <1>0, PollClosedPlan DEF Planned, Reviewing
 <2>2. UNCHANGED <<mode, online, serverVars>>
  BY <1>9 DEF VoteFinished
 <2>3. CASE Settles(c, [prompt EXCEPT !.ready = FALSE])
  BY <2>1, <2>2, <2>3, SettlesTyped
 <2>4. CASE Settles(c, PollClosed)
  BY <2>1, <2>2, <2>4, SettlesTyped
 <2>5. CASE SettlesAndLooks(c, [prompt EXCEPT !.picked = NoVersion],
                            [prompt EXCEPT !.picked = NoVersion, !.ready = FALSE], told)
  BY <2>1, <2>2, <2>5, SettlesTyped
 <2> QED BY <1>9, <2>3, <2>4, <2>5 DEF VoteFinished
<1>10. ASSUME NEW c \in calls, PollFetched(c) PROVE DialogTyped'
 BY <1>0, <1>1, <1>10, AnswerMoves, CarriedTyped, WorkerMoves
    DEF PollFetched, terminalVars, serverVars, Counted
<1>11. ASSUME NEW c \in calls, RecheckPoll(c) \/ SendVote(c) PROVE DialogTyped'
 BY <1>1, <1>11, PhaseMoves, CarriedTyped, WorkerMoves
    DEF RecheckPoll, SendVote, terminalVars, serverVars, Counted, Phases
<1>12. CASE Surroundings
 BY <1>12, SurroundingsTyped
<1> QED BY <1>2, <1>3, <1>4, <1>5, <1>6, <1>7, <1>8, <1>9, <1>10, <1>11, <1>12 DEF PollNext

LEMMA LoadReactionsTyped ==
  ASSUME DialogTyped, NEW p, Planned(p), LoadReactions(p), mode' \in Modes,
         UNCHANGED <<online, serverVars>>
  PROVE  DialogTyped'
<1>0. told \in Nat \ {0} /\ told <= Changes(server) /\ NoVersion \in MaybeVersion
      /\ online \in BOOLEAN
 BY ToldInBounds
<1>1. Planned(prompt')
 BY DEF LoadReactions, Planned
<1>2. CASE online
 BY <1>0, <1>1, <1>2, TerminalAsks DEF LoadReactions, serverVars
<1>3. CASE ~online
 BY <1>0, <1>1, <1>3, TerminalMoves DEF LoadReactions, serverVars
<1> QED BY <1>0, <1>2, <1>3

LEMMA ReactionTyped ==
  ASSUME DialogTyped, ReactionNext
  PROVE  DialogTyped'
<1>0. /\ told \in Nat \ {0} /\ told <= Changes(server) /\ Changes(server) \in Nat
      /\ server.version \in MaybeVersion /\ NoVersion \in MaybeVersion
      /\ mode \in Modes /\ online \in BOOLEAN /\ Planned(prompt)
      /\ (\A c \in calls : c.version \in MaybeVersion)
      /\ server.version \in Version /\ (~ToldGone => told \in Version)
 BY ToldInBounds
<1>1. CallsTyped /\ ServerTyped
 BY DEF DialogTyped
<1>2. CASE BeginReactions
 <2>1. Planned([PanelClosed EXCEPT !.open = TRUE])
  BY NothingPlanned DEF Planned, PanelClosed
 <2> QED BY <1>2, <2>1, LoadReactionsTyped DEF BeginReactions, Modes
<1>3. CASE RefreshPanel
 BY <1>0, <1>3, LoadReactionsTyped DEF RefreshPanel
<1>4. CASE ChangeReaction
 BY <1>0, <1>4, TerminalAsks DEF ChangeReaction, serverVars, Planned
<1>5. CASE ReactionsTold \/ ReactionsInvalidated
 <2>1. Planned(prompt')
  <3>1. CASE ReactionsTold
   <4>1. told + 1 <= server.version => told + 1 \in MaybeVersion
    BY <1>0, DialogBounds DEF MaybeVersion, Version
   <4> QED BY <1>0, <3>1, <4>1, DialogBounds DEF ReactionsTold, Planned, Version
  <3> QED BY <1>0, <1>5, <3>1 DEF ReactionsInvalidated, Planned
 <2>2. /\ UNCHANGED <<mode, nextRequest, online, calls, server, carried>>
       /\ pending' \in {pending, NoPending}
       /\ told' \in {told, told + 1} /\ told' <= Changes(server)
  BY <1>0, <1>5 DEF ReactionsTold, ReactionsInvalidated, serverVars
 <2> QED BY <1>0, <2>1, <2>2, TerminalMoves
<1>6. CASE CloseReactions
 BY <1>6, PanelClosedPlan, LetGoTyped DEF CloseReactions
<1>7. CASE AccountSwitch(PanelClosed)
 BY <1>7, PanelClosedPlan, SwitchTyped
<1>8. ASSUME NEW c \in calls, ReactionsLoaded(c) \/ ReactionsAnswered(c) PROVE DialogTyped'
 <2>2. Replayed(c) \in MaybeVersion
  BY <1>0 DEF Replayed, MaybeVersion
 <2>3. Planned(prompt')
  BY <1>0, <1>8, <2>2 DEF ReactionsLoaded, ReactionsAnswered, Planned
 <2>4. /\ calls' \subseteq calls /\ pending' \in {pending, NoPending}
       /\ UNCHANGED <<mode, nextRequest, online, server, told, carried>>
  BY <1>8 DEF ReactionsLoaded, ReactionsAnswered, Takes, serverVars
 <2> QED BY <1>0, <2>3, <2>4, TerminalMoves
<1>9. ASSUME NEW c \in calls, ReactionsFinished(c) PROVE DialogTyped'
 <2>1. Planned([prompt EXCEPT !.ready = FALSE]) /\ Planned(PanelClosed)
  BY <1>0, PanelClosedPlan, PlanKept
 <2>2. UNCHANGED <<mode, online, serverVars>>
  BY <1>9 DEF ReactionsFinished
 <2>3. CASE Settles(c, [prompt EXCEPT !.ready = FALSE])
  BY <2>1, <2>2, <2>3, SettlesTyped
 <2>4. CASE Settles(c, PanelClosed)
  BY <2>1, <2>2, <2>4, SettlesTyped
 <2>5. CASE SettlesAndLooks(c, [prompt EXCEPT !.ready = FALSE],
                            [prompt EXCEPT !.ready = FALSE], told)
  BY <2>1, <2>2, <2>5, SettlesTyped
 <2> QED BY <1>9, <2>3, <2>4, <2>5 DEF ReactionsFinished
<1>10. ASSUME NEW c \in calls, ReactionsReviewed(c) PROVE DialogTyped'
 BY <1>0, <1>1, <1>10, AnswerMoves, CarriedTyped, WorkerMoves
    DEF ReactionsReviewed, terminalVars, serverVars, Counted
<1>11. ASSUME NEW c \in calls, RecheckReactions(c) PROVE DialogTyped'
 BY <1>1, <1>11, PhaseMoves, CarriedTyped, WorkerMoves
    DEF RecheckReactions, terminalVars, serverVars, Counted, Phases
<1>12. ASSUME NEW c \in calls, SendReactions(c) PROVE DialogTyped'
 BY <1>1, <1>12, PhaseMoves, ServerMoves, WorkerMoves
    DEF SendReactions, terminalVars, Counted, Phases
<1>13. CASE Surroundings
 BY <1>13, SurroundingsTyped
<1> QED BY <1>2, <1>3, <1>4, <1>5, <1>6, <1>7, <1>8, <1>9, <1>10, <1>11, <1>12, <1>13
        DEF ReactionNext

LEMMA InfoTyped ==
  ASSUME DialogTyped, InfoNext
  PROVE  DialogTyped'
<1>0. /\ told \in Nat \ {0} /\ told <= Changes(server) /\ Changes(server) \in Nat
      /\ server.version \in MaybeVersion /\ NoVersion \in MaybeVersion
      /\ mode \in Modes /\ online \in BOOLEAN /\ Planned(prompt)
      /\ \A c \in calls : c.version \in MaybeVersion
 BY ToldInBounds
<1>1. CallsTyped /\ ServerTyped
 BY DEF DialogTyped
<1>2. CASE RequestVisibleChatInfo
 <2>1. Planned(prompt')
  BY <1>0, <1>2 DEF RequestVisibleChatInfo, Planned
 <2> QED BY <1>0, <1>2, <2>1, TerminalAsks DEF RequestVisibleChatInfo, serverVars
<1>3. CASE ChatShown \/ InfoAges \/ ChatInfoInvalidated \/ InfoOnline
 <2>1. Planned(prompt') /\ mode' \in Modes /\ online' \in BOOLEAN
  BY <1>0, <1>3 DEF ChatShown, InfoAges, ChatInfoInvalidated, InfoOnline, NoEntry, Planned, Modes
 <2>2. UNCHANGED <<pending, nextRequest, calls, server, carried>>
  BY <1>3 DEF ChatShown, InfoAges, ChatInfoInvalidated, InfoOnline, serverVars
 <2>3. told' \in {told, told + 1} /\ told' <= Changes(server)
  BY <1>0, <1>3 DEF ChatShown, InfoAges, ChatInfoInvalidated, InfoOnline, serverVars
 <2> QED BY <2>1, <2>2, <2>3, TerminalMoves
<1>4. CASE OthersChange
 BY <1>4, OthersTyped
<1>5. CASE AccountSwitch(NoEntry)
 BY <1>5, NoEntryPlan, SwitchTyped
<1>6. ASSUME NEW c \in calls, CallFails(c) \/ AnswerIgnored(c) PROVE DialogTyped'
 BY <1>6, AnswersTyped
<1>7. ASSUME NEW c \in calls, ChatInfoReady(c) PROVE DialogTyped'
 <2>1. Planned(prompt')
  BY <1>0, <1>7 DEF ChatInfoReady, Planned
 <2>2. /\ calls' \subseteq calls /\ pending' = NoPending
       /\ UNCHANGED <<mode, nextRequest, online, server, told, carried>>
  BY <1>7 DEF ChatInfoReady, Takes, serverVars
 <2> QED BY <1>0, <2>1, <2>2, TerminalMoves
<1>8. ASSUME NEW c \in calls, ChatInfoFetched(c) PROVE DialogTyped'
 BY <1>0, <1>1, <1>8, AnswerMoves, CarriedTyped, WorkerMoves
    DEF ChatInfoFetched, terminalVars, serverVars, Counted
<1> QED BY <1>2, <1>3, <1>4, <1>5, <1>6, <1>7, <1>8 DEF InfoNext

LEMMA PreviewTyped ==
  ASSUME DialogTyped, PreviewNext
  PROVE  DialogTyped'
<1>0. /\ told \in Nat \ {0} /\ told <= Changes(server) /\ Changes(server) \in Nat
      /\ server.version \in Version /\ NoVersion \in MaybeVersion
      /\ mode \in Modes /\ online \in BOOLEAN /\ Planned(prompt)
      /\ (\A c \in calls : c.version \in MaybeVersion)
      /\ (~ToldGone => told \in Version) /\ Version \subseteq MaybeVersion
 BY ToldInBounds DEF MaybeVersion
<1>1. CallsTyped /\ ServerTyped /\ Planned(NoPreview)
 BY <1>0 DEF DialogTyped, Planned, NoPreview
<1>2. CASE RequestPreview
 <2>1. Planned(prompt')
  BY <1>0, <1>2 DEF RequestPreview, Planned
 <2> QED BY <1>0, <1>2, <2>1, TerminalAsks DEF RequestPreview, serverVars
<1>3. CASE LoadTarget
 <2>1. UNCHANGED <<mode, prompt, pending, online, server, told, carried>>
       /\ nextRequest < MaxRequests /\ nextRequest' = nextRequest + 1
       /\ calls' = calls \cup {[id |-> nextRequest + 1, acts |-> FALSE, phase |-> "sent",
                                version |-> NoVersion, detail |-> "load"]}
  BY <1>3 DEF LoadTarget, serverVars
 <2>2. CallsTyped'
  BY <1>0, <1>1, <2>1, OneMoreCall
 <2>3. TerminalTyped' /\ ServerTyped'
  BY <1>0, <1>1, <2>1, CarriedTyped DEF TerminalTyped, Counted
 <2> QED BY <2>2, <2>3 DEF DialogTyped
<1>4. CASE ReplyShown \/ PreviewEvicted \/ PreviewsInvalidated \/ PreviewsOnline
 <2>1. Planned(prompt') /\ mode' \in Modes /\ online' \in BOOLEAN
  BY <1>0, <1>1, <1>4
     DEF ReplyShown, PreviewEvicted, PreviewsInvalidated, PreviewsOnline, Modes
 <2>2. /\ UNCHANGED <<nextRequest, calls, server, told, carried>>
       /\ pending' \in {pending, NoPending}
  BY <1>4 DEF ReplyShown, PreviewEvicted, PreviewsInvalidated, PreviewsOnline, serverVars
 <2> QED BY <1>0, <2>1, <2>2, TerminalMoves
<1>5. CASE TargetTold
 <2>1. told' = told + 1 /\ told + 1 <= Changes(server)
  BY <1>0, <1>5 DEF TargetTold
 <2>2. told' > server.version \/ told' \in MaybeVersion
  BY <1>0, <2>1, DialogBounds DEF Version
 <2>3. Planned(prompt')
  BY <1>0, <1>5, <2>2 DEF TargetTold, Planned
 <2>4. UNCHANGED <<mode, pending, nextRequest, online, calls, server, carried>>
  BY <1>5 DEF TargetTold
 <2> QED BY <1>0, <2>1, <2>3, <2>4, TerminalMoves
<1>6. CASE OthersChange
 BY <1>6, OthersTyped
<1>7. CASE AccountSwitch(NoPreview)
 BY <1>1, <1>7, SwitchTyped
<1>8. ASSUME NEW c \in calls, CallFails(c) \/ AnswerIgnored(c) PROVE DialogTyped'
 BY <1>8, AnswersTyped
<1>9. ASSUME NEW c \in calls, CachedPreview(c) PROVE DialogTyped'
 <2>1. Planned(prompt')
  BY <1>0, <1>9 DEF CachedPreview, Planned
 <2>2. UNCHANGED <<mode, pending, nextRequest, online, calls, server, told, carried>>
  BY <1>9 DEF CachedPreview, serverVars
 <2> QED BY <1>0, <2>1, <2>2, TerminalMoves
<1>10. ASSUME NEW c \in calls, MessageLoaded(c) \/ PreviewsArrive(c) PROVE DialogTyped'
 <2>1. CASE MessageLoaded(c)
  <3>1. Planned(prompt') /\ UNCHANGED <<mode, pending, nextRequest, online, serverVars>>
        /\ calls' \subseteq calls
   BY <1>0, <2>1 DEF MessageLoaded, Planned
  <3> QED BY <1>0, <3>1, TerminalMoves DEF serverVars
 <2>2. CASE PreviewsArrive(c)
  <3>1. Planned(prompt')
   BY <1>0, <2>2 DEF PreviewsArrive, Filled, Planned
  <3>2. /\ calls' \subseteq calls /\ pending' = NoPending
        /\ UNCHANGED <<mode, nextRequest, online, serverVars>>
   BY <2>2 DEF PreviewsArrive, Takes
  <3> QED BY <1>0, <3>1, <3>2, TerminalMoves DEF serverVars
 <2> QED BY <1>10, <2>1, <2>2
<1>11. ASSUME NEW c \in calls, PreviewsFetched(c) PROVE DialogTyped'
 <2>1. Current(server) \in MaybeVersion
  BY <1>1, CurrentType DEF ServerTyped
 <2> QED BY <1>1, <1>11, <2>1, AnswerMoves, CarriedTyped, WorkerMoves
         DEF PreviewsFetched, terminalVars, serverVars, Counted
<1> QED BY <1>2, <1>3, <1>4, <1>5, <1>6, <1>7, <1>8, <1>9, <1>10, <1>11 DEF PreviewNext

LEMMA LoadPinsTyped ==
  ASSUME DialogTyped, NEW p, Planned(p), NEW what, LoadPinPage(p, what), mode' \in Modes,
         online' \in BOOLEAN, UNCHANGED <<server, carried>>,
         told' \in {told, told + 1}, told' <= Changes(server)
  PROVE  DialogTyped'
<1>1. Planned(prompt') /\ Submit(FALSE, NoVersion, what)
 BY DEF LoadPinPage, Planned
<1> QED BY <1>1, NothingPlanned, TerminalAsks

LEMMA ReloadPinsTyped ==
  ASSUME DialogTyped, NEW c \in calls, NEW p, Planned(p), AnswerReloads(c, p),
         nextRequest < MaxRequests, mode' \in Modes, UNCHANGED <<online, serverVars>>
  PROVE  DialogTyped'
<1>1. Planned(prompt')
 BY DEF AnswerReloads, Planned
<1>2. CallsTyped'
 BY NothingPlanned, OneMoreCall DEF AnswerReloads, DialogTyped
<1>3. TerminalTyped' /\ ServerTyped'
 BY <1>1, CarriedTyped DEF DialogTyped, TerminalTyped, serverVars, Counted
<1> QED BY <1>2, <1>3 DEF DialogTyped

LEMMA PinsTyped ==
  ASSUME DialogTyped, PinReturns, PinsNext
  PROVE  DialogTyped'
<1>0. /\ told \in Nat \ {0} /\ told <= Changes(server) /\ Changes(server) \in Nat
      /\ server.version \in Version /\ NoVersion \in MaybeVersion
      /\ mode \in Modes /\ online \in BOOLEAN /\ Planned(prompt)
      /\ (\A c \in calls : c.version \in MaybeVersion) /\ Version \subseteq MaybeVersion
      /\ "asking" \in DOMAIN prompt /\ prompt.asking \in Modes \cup {"no"}
 BY ToldInBounds DEF MaybeVersion, PinReturns
<1>1. CallsTyped /\ ServerTyped /\ Planned(PinsClosed)
 BY <1>0 DEF DialogTyped, Planned, PinsClosed
<1>2. CASE OpenPins
 <2>1. Planned([prompt EXCEPT !.plan = NoVersion]) /\ mode' \in Modes
  BY <1>0, <1>2 DEF OpenPins, Planned, Modes
 <2> QED BY <1>0, <1>2, <2>1, LoadPinsTyped DEF OpenPins, serverVars
<1>3. CASE RefreshPins \/ OpenPinContext
 BY <1>0, <1>3, LoadPinsTyped DEF RefreshPins, OpenPinContext, serverVars
<1>4. CASE LeavePins \/ BeginMessagePin \/ CancelPinPrompt
 <2>1. Planned(prompt') /\ mode' \in Modes
  BY <1>0, <1>4 DEF LeavePins, BeginMessagePin, CancelPinPrompt, Planned, Modes
 <2>2. /\ UNCHANGED <<nextRequest, online, calls, server, told, carried>>
       /\ pending' \in {pending, NoPending}
  BY <1>4 DEF LeavePins, BeginMessagePin, CancelPinPrompt, serverVars
 <2> QED BY <1>0, <2>1, <2>2, TerminalMoves
<1>5. CASE ConfirmPin
 <2>1. UNCHANGED <<mode, pending, online, server, told, carried>>
       /\ nextRequest < MaxRequests /\ nextRequest' = nextRequest + 1
       /\ calls' = calls \cup {[id |-> nextRequest + 1, acts |-> TRUE, phase |-> "sent",
                                version |-> NoVersion, detail |-> "pin"]}
  BY <1>5 DEF ConfirmPin, serverVars
 <2>2. CallsTyped'
  BY <1>0, <1>1, <2>1, OneMoreCall
 <2>3. Planned(prompt')
  BY <1>0, <1>5 DEF ConfirmPin, Planned
 <2>4. TerminalTyped' /\ ServerTyped'
  BY <1>0, <1>1, <2>1, <2>3, CarriedTyped DEF TerminalTyped, Counted
 <2> QED BY <2>2, <2>4 DEF DialogTyped
<1>6. CASE PinTold
 <2>1. told' = told + 1 /\ told' <= Changes(server) /\ UNCHANGED <<mode, online, server, carried>>
  BY <1>0, <1>6, DialogBounds DEF PinTold, Changes, Version
 <2>2. CASE LoadPinPage(prompt, "page")
  BY <1>0, <2>1, <2>2, LoadPinsTyped
 <2>3. CASE Stays([prompt EXCEPT !.dirty = TRUE]) \/ Stays(prompt)
  <3>1. Planned(prompt') /\ UNCHANGED <<pending, nextRequest, calls>>
   BY <1>0, <2>3 DEF Stays, Planned
  <3> QED BY <1>0, <2>1, <3>1, TerminalMoves
 <2> QED BY <1>6, <2>2, <2>3 DEF PinTold
<1>7. CASE PinsInvalidated
 <2> DEFINE fresh == [PinsClosed EXCEPT !.mutation = prompt.mutation]
 <2>1. Planned(fresh)
  BY <1>1 DEF Planned
 <2>2. mode' \in Modes /\ UNCHANGED <<online, server, told, carried>>
  BY <1>0, <1>7 DEF PinsInvalidated, serverVars
 <2>3. \/ LoadPinPage(fresh, "page")
       \/ prompt' = fresh /\ pending' = NoPending /\ UNCHANGED <<nextRequest, calls>>
  BY <1>7 DEF PinsInvalidated
 <2> HIDE DEF fresh
 <2> QED BY <1>0, <2>1, <2>2, <2>3, LoadPinsTyped, TerminalMoves
<1>8. CASE OthersPin
 <2>1. UNCHANGED terminalVars /\ UNCHANGED <<pending, nextRequest, calls, told, carried>>
  BY <1>8 DEF OthersPin, terminalVars
 <2>2. ServerTyped'
  BY <1>1, <1>8, <2>1, ServerMoves DEF OthersPin, Counted
 <2> QED BY <1>1, <2>1, <2>2, FewerCalls, WorkerMoves
<1>9. CASE ConnectionChanges
 BY <1>9, SurroundingsTyped DEF Surroundings
<1>10. CASE AccountSwitch(PinsClosed)
 BY <1>1, <1>10, SwitchTyped
<1>11. ASSUME NEW c \in calls, CallFails(c) PROVE DialogTyped'
 BY <1>11, AnswersTyped
<1>12. ASSUME NEW c \in calls, PinFinished(c) PROVE DialogTyped'
 <2> DEFINE closed == [prompt EXCEPT !.mutation = 0, !.asking = "no"]
 <2>1. /\ Planned([prompt EXCEPT !.mutation = 0, !.error = TRUE]) /\ Planned(closed)
       /\ \A b : Planned([closed EXCEPT !.error = b])
  BY <1>0 DEF Planned
 <2>2. mode' \in Modes /\ UNCHANGED <<online, serverVars>>
  BY <1>0, <1>12 DEF PinFinished
 <2>3. \/ nextRequest < MaxRequests /\ AnswerReloads(c, closed)
       \/ /\ calls' = calls \ {c} /\ UNCHANGED <<pending, nextRequest>>
          /\ \/ prompt' = [prompt EXCEPT !.mutation = 0, !.error = TRUE]
             \/ \E b : prompt' = [closed EXCEPT !.error = b]
  <3>1. CASE c.phase = "failed"
   BY <1>12, <3>1 DEF PinFinished
  <3>2. CASE c.phase # "failed"
   BY <1>12, <3>2 DEF PinFinished
  <3> QED BY <3>1, <3>2
 <2> HIDE DEF closed
 <2>4. CASE nextRequest < MaxRequests /\ AnswerReloads(c, closed)
  BY <2>1, <2>2, <2>4, ReloadPinsTyped
 <2>5. CASE /\ calls' = calls \ {c} /\ UNCHANGED <<pending, nextRequest>>
            /\ \/ prompt' = [prompt EXCEPT !.mutation = 0, !.error = TRUE]
               \/ \E b : prompt' = [closed EXCEPT !.error = b]
  <3>1. Planned(prompt')
   BY <2>1, <2>5
  <3> QED BY <1>0, <2>2, <2>5, <3>1, TerminalMoves DEF serverVars
 <2> QED BY <2>3, <2>4, <2>5
<1>13. ASSUME NEW c \in calls, CachedPinsArrive(c) PROVE DialogTyped'
 <2>1. Planned(prompt')
  BY <1>0, <1>13 DEF CachedPinsArrive, Planned
 <2> QED BY <1>0, <1>13, <2>1, TerminalMoves DEF CachedPinsArrive, serverVars
<1>14. ASSUME NEW c \in calls, PinPageArrives(c) PROVE DialogTyped'
 <2>1. UNCHANGED <<mode, online, serverVars>>
  BY <1>14 DEF PinPageArrives
 <2>2. CASE nextRequest < MaxRequests /\ AnswerReloads(c, prompt)
  BY <1>0, <2>1, <2>2, ReloadPinsTyped
 <2>3. CASE /\ calls' = calls \ {c} /\ pending' = NoPending /\ UNCHANGED nextRequest
            /\ \/ prompt' = [prompt EXCEPT !.loading = FALSE, !.error = TRUE]
               \/ prompt' = [prompt EXCEPT !.loading = FALSE, !.plan = c.version]
  <3>1. Planned(prompt')
   BY <1>0, <2>3 DEF Planned
  <3> QED BY <1>0, <2>1, <2>3, <3>1, TerminalMoves DEF serverVars
 <2> QED BY <1>14, <2>2, <2>3 DEF PinPageArrives
<1>15. ASSUME NEW c \in calls, PinContextArrives(c) PROVE DialogTyped'
 <2>1. Planned(prompt') /\ mode' \in Modes
  BY <1>0, <1>15 DEF PinContextArrives, Planned, Modes
 <2>2. /\ calls' \subseteq calls /\ pending' = NoPending
       /\ UNCHANGED <<nextRequest, online, server, told, carried>>
  BY <1>15 DEF PinContextArrives, Takes, serverVars
 <2> QED BY <1>0, <2>1, <2>2, TerminalMoves
<1>16. ASSUME NEW c \in calls, PinAnswerDropped(c) PROVE DialogTyped'
 BY <1>0, <1>16, TerminalMoves DEF PinAnswerDropped, terminalVars, serverVars
<1>17. ASSUME NEW c \in calls, PinsFetched(c) PROVE DialogTyped'
 BY <1>0, <1>1, <1>17, AnswerMoves, CarriedTyped, WorkerMoves
    DEF PinsFetched, terminalVars, serverVars, Counted
<1>18. ASSUME NEW c \in calls, ChangeMessagePin(c) PROVE DialogTyped'
 BY <1>1, <1>18, PhaseMoves, ServerMoves, WorkerMoves
    DEF ChangeMessagePin, terminalVars, Counted, Phases
<1> QED BY <1>2, <1>3, <1>4, <1>5, <1>6, <1>7, <1>8, <1>9, <1>10, <1>11, <1>12, <1>13, <1>14,
<1>15, <1>16, <1>17, <1>18 DEF PinsNext

LEMMA PinsKeepReturning ==
  ASSUME PinReturns, mode \in Modes, PinsNext
  PROVE  PinReturns'
<1>0. "asking" \in DOMAIN prompt /\ prompt.asking \in Modes \cup {"no"}
 BY DEF PinReturns
<1>1. "asking" \in DOMAIN PinsClosed /\ PinsClosed.asking = "no"
 BY DEF PinsClosed
<1>2. CASE OpenPins \/ RefreshPins \/ OpenPinContext \/ LeavePins \/ BeginMessagePin
           \/ CancelPinPrompt \/ ConfirmPin
 BY <1>0, <1>2 DEF OpenPins, RefreshPins, OpenPinContext, LeavePins, BeginMessagePin,
    CancelPinPrompt, ConfirmPin, LoadPinPage, PinReturns
<1>3. CASE PinTold
 BY <1>0, <1>3 DEF PinTold, LoadPinPage, Stays, PinReturns
<1>4. CASE PinsInvalidated
 BY <1>1, <1>4 DEF PinsInvalidated, LoadPinPage, PinReturns
<1>5. CASE OthersPin \/ ConnectionChanges
 BY <1>0, <1>5 DEF OthersPin, ConnectionChanges, terminalVars, PinReturns
<1>6. CASE AccountSwitch(PinsClosed)
 BY <1>1, <1>6 DEF AccountSwitch, PinReturns
<1>7. ASSUME NEW c \in calls,
             CallFails(c) \/ PinAnswerDropped(c) \/ PinsFetched(c) \/ ChangeMessagePin(c)
      PROVE  PinReturns'
 BY <1>0, <1>7 DEF CallFails, PinAnswerDropped, PinsFetched, ChangeMessagePin, terminalVars,
    PinReturns
<1>8. ASSUME NEW c \in calls, PinFinished(c) PROVE PinReturns'
 BY <1>0, <1>8 DEF PinFinished, AnswerReloads, PinReturns
<1>9. ASSUME NEW c \in calls, CachedPinsArrive(c) \/ PinPageArrives(c) \/ PinContextArrives(c)
      PROVE  PinReturns'
 BY <1>0, <1>9 DEF CachedPinsArrive, PinPageArrives, PinContextArrives, AnswerReloads, PinReturns
<1> QED BY <1>2, <1>3, <1>4, <1>5, <1>6, <1>7, <1>8, <1>9 DEF PinsNext

LEMMA EnsuresTyped ==
  ASSUME DialogTyped, NEW p, Planned(p), NEW others \in SUBSET calls, Ensures(p, others),
         pending' \in {pending, NoPending}, UNCHANGED <<mode, online, serverVars>>
  PROVE  DialogTyped'
<1>0. CallsTyped /\ NoVersion \in MaybeVersion
 BY NothingPlanned DEF DialogTyped
<1>1. CASE prompt' = p /\ calls' = others /\ UNCHANGED nextRequest
 <2>1. told \in Nat \ {0} /\ told <= Changes(server) /\ mode \in Modes /\ online \in BOOLEAN
  BY ToldInBounds
 <2> QED BY <1>1, <2>1, TerminalMoves DEF serverVars
<1>2. CASE /\ nextRequest < MaxRequests /\ nextRequest' = nextRequest + 1
           /\ prompt' = [p EXCEPT !.documents = "loading", !.set = nextRequest + 1]
           /\ calls' = others \cup {Order(nextRequest + 1, "set")}
 <2>1. CallsTyped'
  BY <1>0, <1>2, OneMoreCall DEF Order
 <2>2. Planned(prompt')
  BY <1>2 DEF Planned
 <2>3. TerminalTyped' /\ ServerTyped'
  BY <2>2, CarriedTyped DEF DialogTyped, TerminalTyped, serverVars, Counted
 <2> QED BY <2>1, <2>3 DEF DialogTyped
<1> QED BY <1>1, <1>2 DEF Ensures

(* No update is about stickers. *)
LEMMA StickersAreUntold == StickersNext => UNCHANGED told
  BY DEF StickersNext, BeginStickers, CloseStickers, RefreshStickers, SelectSection, AccountSwitch,
         QueueThumb, RequestStickerThumb, CallFails, AnswerIgnored, CachedOverview, StickersLoaded,
         CachedSet, StickerSetLoaded, StickerThumbDownloaded, StickersFetched, serverVars

LEMMA StickersTyped ==
  ASSUME DialogTyped, told = 1, StickersNext
  PROVE  DialogTyped'
<1>0. /\ told \in Nat \ {0} /\ told <= Changes(server) /\ Changes(server) \in Nat
      /\ server.version \in MaybeVersion /\ NoVersion \in MaybeVersion
      /\ mode \in Modes /\ online \in BOOLEAN /\ Planned(prompt)
      /\ \A c \in calls : c.version \in MaybeVersion
 BY ToldInBounds
<1>1. CallsTyped /\ ServerTyped /\ Planned(NoStickers)
 BY <1>0 DEF DialogTyped, Planned, NoStickers
<1>2. CASE BeginStickers \/ RefreshStickers
 <2>1. Planned(prompt') /\ mode' \in Modes
  BY <1>0, <1>2 DEF BeginStickers, RefreshStickers, Planned, Modes
 <2> QED BY <1>0, <1>2, <2>1, TerminalAsks DEF BeginStickers, RefreshStickers, serverVars
<1>3. CASE CloseStickers \/ \E s \in Sticker : QueueThumb(s)
 <2>1. Planned(prompt') /\ mode' \in Modes
  BY <1>0, <1>3 DEF CloseStickers, QueueThumb, Planned, Modes
 <2>2. /\ UNCHANGED <<nextRequest, online, calls, server, told, carried>>
       /\ pending' \in {pending, NoPending}
  BY <1>3 DEF CloseStickers, QueueThumb, serverVars
 <2> QED BY <1>0, <2>1, <2>2, TerminalMoves
<1>4. CASE SelectSection
 BY <1>0, <1>4, EnsuresTyped DEF SelectSection
<1>5. CASE AccountSwitch(NoStickers)
 BY <1>1, <1>5, SwitchTyped
<1>6. ASSUME NEW s \in Sticker, RequestStickerThumb(s) PROVE DialogTyped'
 <2>1. calls' = calls \cup {Order(0, s)}
       /\ UNCHANGED <<mode, pending, nextRequest, online, server, told, carried>>
  BY <1>6 DEF RequestStickerThumb, serverVars
 <2>2. CallTyped(Order(0, s), nextRequest) /\ Order(0, s).id = 0
  BY <1>0, <1>1 DEF CallTyped, Order, Fields, Phases, CallsTyped
 <2>3. CallsTyped'
  BY <1>1, <2>1, <2>2 DEF CallsTyped
 <2>4. Planned(prompt')
  BY <1>0, <1>6 DEF RequestStickerThumb, Planned
 <2>5. TerminalTyped' /\ ServerTyped'
  BY <1>0, <1>1, <2>1, <2>4, CarriedTyped DEF TerminalTyped, Counted
 <2> QED BY <2>3, <2>5 DEF DialogTyped
<1>7. ASSUME NEW c \in calls, CallFails(c) \/ AnswerIgnored(c) PROVE DialogTyped'
 BY <1>7, AnswersTyped
<1>8. ASSUME NEW c \in calls, CachedOverview(c) PROVE DialogTyped'
 <2>1. Planned([prompt EXCEPT !.plan = told])
  BY <1>0, DialogBounds DEF Planned, MaybeVersion, Version
 <2> QED BY <1>8, <2>1, EnsuresTyped DEF CachedOverview
<1>9. ASSUME NEW c \in calls, StickersLoaded(c) PROVE DialogTyped'
 <2>1. UNCHANGED <<mode, online, serverVars>> /\ pending' = NoPending
  BY <1>9 DEF StickersLoaded
 <2>2. CASE c.phase = "failed"
  <3>1. Planned(prompt')
   BY <1>0, <1>9, <2>2 DEF StickersLoaded, Planned
  <3> QED BY <1>0, <1>9, <2>1, <2>2, <3>1, TerminalMoves DEF StickersLoaded, serverVars
 <2>3. CASE Ensures([prompt EXCEPT !.plan = c.version, !.error = FALSE], calls \ {c})
  <3>1. Planned([prompt EXCEPT !.plan = c.version, !.error = FALSE])
   BY <1>0 DEF Planned
  <3> QED BY <2>1, <2>3, <3>1, EnsuresTyped
 <2> QED BY <1>9, <2>2, <2>3 DEF StickersLoaded
<1>10. ASSUME NEW c \in calls, CachedSet(c) \/ StickerSetLoaded(c) \/ StickerThumbDownloaded(c)
       PROVE  DialogTyped'
 <2>1. Planned(prompt')
  BY <1>0, <1>10 DEF CachedSet, StickerSetLoaded, StickerThumbDownloaded, Planned
 <2>2. /\ calls' \subseteq calls
       /\ UNCHANGED <<mode, pending, nextRequest, online, server, told, carried>>
  BY <1>10 DEF CachedSet, StickerSetLoaded, StickerThumbDownloaded, serverVars
 <2> QED BY <1>0, <2>1, <2>2, TerminalMoves
<1>11. ASSUME NEW c \in calls, StickersFetched(c) PROVE DialogTyped'
 BY <1>0, <1>1, <1>11, AnswerMoves, CarriedTyped, WorkerMoves
    DEF StickersFetched, terminalVars, serverVars, Counted
<1> QED BY <1>2, <1>3, <1>4, <1>5, <1>6, <1>7, <1>8, <1>9, <1>10, <1>11 DEF StickersNext

-----------------------------------------------------------------------------
(* The types of pasting: every paste has at most one draft number, two reads   *)
(* and one preparation, which is in one place at a time.                       *)

One(present) == IF present THEN 1 ELSE 0

Reading == One(broker.id # 0)
AskingTypes == One(broker.wants = "types")
Preparing == One(job # NoTask /\ ~job.expired)

PastesInBounds ==
    /\ pastes \in 0..MaxPastes
    /\ reserved.id \in 0..nextDraft /\ nextDraft \in 0..pastes
    /\ broker.id = 0 => broker = NoRead
    /\ nextRead + AskingTypes <= 2 * pastes
    /\ Reading + Len(orders) + Preparing + Len(results) <= pastes

PastingTyped == PastingInv /\ PastesInBounds

LEMMA OneTyped ==
  /\ Reading \in {0, 1} /\ AskingTypes \in {0, 1} /\ Preparing \in {0, 1}
  /\ Reading = 0 <=> broker.id = 0
  /\ broker.wants = "types" <=> AskingTypes = 1
  BY DEF One, Reading, AskingTypes, Preparing

LEMMA PastingIsTyped == PastingTyped => PastingType
<1> SUFFICES ASSUME PastingTyped PROVE PastingType
 OBVIOUS
<1>1. PastingInv /\ PastesInBounds
 BY DEF PastingTyped
<1>2. MaxPastes \in Nat /\ pastes \in Nat /\ pastes <= MaxPastes
 BY <1>1, PastingBounds DEF PastesInBounds
<1>3. account \in Owner /\ place \in Spot /\ meant \in Seq(Places) /\ Len(meant) = pastes
 BY <1>1 DEF PastingInv, PastesAreCounted
<1>4. reserved.id \in 0..MaxPastes /\ nextDraft \in 0..MaxPastes
 BY <1>1, <1>2 DEF PastesInBounds
<1>5. broker.wants \in {"none", "types", "data"} /\ nextRead \in Nat /\ \A r \in reads : r.id \in 1..nextRead
 BY <1>1 DEF PastingInv, ReadsShape, Read, ReadsAreMeant
<1>6. nextRead \in 0..2 * MaxPastes
 BY <1>1, <1>2, <1>5, OneTyped DEF PastesInBounds
<1>7. Len(orders) \in Nat /\ Len(results) \in Nat
 BY <1>1 DEF PastingInv, WorkShape
<1>8. Len(orders) <= MaxPastes /\ Len(results) <= 2 * MaxPastes
 BY <1>1, <1>2, <1>7, OneTyped DEF PastesInBounds
<1>9. landed \subseteq (1..pastes) \X [account : Owner, place : Spot]
 <2>1. \A paste \in 1..pastes : meant[paste] \in Places
  BY <1>3
 <2>2. \A l \in landed : \E paste \in 1..pastes : l = <<paste, meant[paste]>>
  BY <1>1, <1>3 DEF PastingInv, LandedAsMeant
 <2>3. \A l \in landed : l \in (1..pastes) \X Places
  <3> TAKE l \in landed
  <3>1. PICK paste \in 1..pastes : l = <<paste, meant[paste]>>
   BY <2>2
  <3> QED BY <2>1, <3>1
 <2> QED BY <2>3 DEF Places
<1> QED BY <1>3, <1>4, <1>5, <1>6, <1>8, <1>9 DEF PastingType

LEMMA PastesAreNumbers ==
  ASSUME PastingInv, PastesInBounds
  PROVE  /\ Len(orders) \in Nat /\ Len(results) \in Nat /\ nextRead \in Nat
         /\ pastes \in Nat /\ MaxPastes \in Nat /\ nextDraft \in Nat /\ nextDraft <= pastes
         /\ reserved.id \in 0..nextDraft
  BY PastingBounds DEF PastingInv, WorkShape, ReadsShape, PastesInBounds

LEMMA NothingReserved == NoReservation.id = 0 /\ NoRead.id = 0 /\ NoRead.wants = "none"
  BY DEF NoReservation, NoRead

(* Pasting leaves the terminal's numbers within bounds: what it says of the rest follows. *)
LEMMA BoundsStay ==
  ASSUME PastingInv, PastesInBounds, UNCHANGED <<pastes, nextDraft>>,
         reserved' \in {reserved, NoReservation}, broker'.id = 0 => broker' = NoRead,
         (nextRead + AskingTypes)' <= nextRead + AskingTypes,
         (nextRead + AskingTypes)' \in Nat,
         (Reading + Len(orders) + Preparing + Len(results))'
              <= Reading + Len(orders) + Preparing + Len(results),
         (Reading + Len(orders) + Preparing + Len(results))' \in Nat
  PROVE  PastesInBounds'
<1>1. reserved'.id \in 0..nextDraft
 BY PastesAreNumbers, NothingReserved
<1>2. nextRead + AskingTypes \in Nat /\ Reading + Len(orders) + Preparing + Len(results) \in Nat
      /\ pastes \in Nat
 BY PastesAreNumbers, OneTyped
<1> DEFINE r == nextRead + AskingTypes
           l == Reading + Len(orders) + Preparing + Len(results)
<1>3. r <= 2 * pastes /\ l <= pastes
 BY DEF PastesInBounds
<1> HIDE DEF r, l
<1>4. r' <= 2 * pastes' /\ l' <= pastes'
 <2>1. r \in Nat /\ l \in Nat /\ r' \in Nat /\ l' \in Nat /\ r' <= r /\ l' <= l
  BY <1>2 DEF r, l
 <2> QED BY <1>2, <1>3, <2>1
<1> QED BY <1>1, <1>4 DEF PastesInBounds, r, l

LEMMA OneMorePaste ==
  ASSUME NEW r \in Nat, NEW q, q = r + 1, NEW a \in Nat, a <= 1,
         NEW p \in Nat, NEW s, s = p + 1, r <= 2 * p
  PROVE  q + a <= 2 * s
  OBVIOUS

LEMMA OrderToResult ==
  ASSUME NEW o \in Nat, NEW o2 \in Nat, o2 = o - 1, NEW p \in {0, 1}, NEW p2, p2 = p,
         NEW r \in Nat, NEW r2, r2 = r + 1
  PROVE  r2 \in Nat /\ o2 + p2 + r2 <= o + p + r
  OBVIOUS

LEMMA OrderToJob ==
  ASSUME NEW o \in Nat, NEW o2 \in Nat, o2 = o - 1, NEW p, p = 0, NEW p2 \in Nat, p2 <= 1,
         NEW r \in Nat, NEW r2, r2 = r
  PROVE  r2 \in Nat /\ o2 + p2 + r2 <= o + p + r
  OBVIOUS

LEMMA TotalFalls ==
  ASSUME NEW a \in {0, 1}, NEW a2, a2 = a, NEW o \in Nat, NEW o2 \in Nat,
         NEW p \in {0, 1}, NEW p2 \in {0, 1}, NEW r \in Nat, NEW r2 \in Nat,
         o2 + p2 + r2 <= o + p + r
  PROVE  a2 + o2 + p2 + r2 <= a + o + p + r /\ a2 + o2 + p2 + r2 \in Nat
  OBVIOUS

LEMMA BoundsKeep ==
  ASSUME PastingTyped, [PastingNext]_pasteVars
  PROVE  PastesInBounds'
<1>0. PastingInv /\ PastesInBounds
 BY DEF PastingTyped
<1>1. /\ Len(orders) \in Nat /\ Len(results) \in Nat /\ nextRead \in Nat
      /\ pastes \in Nat /\ MaxPastes \in Nat /\ nextDraft \in Nat /\ nextDraft <= pastes
      /\ reserved.id \in 0..nextDraft
 BY <1>0, PastesAreNumbers
<1>2. /\ Reading \in {0, 1} /\ AskingTypes \in {0, 1} /\ Preparing \in {0, 1}
      /\ nextRead + AskingTypes <= 2 * pastes
      /\ Reading + Len(orders) + Preparing + Len(results) <= pastes
      /\ broker.id = 0 => broker = NoRead
 BY <1>0, OneTyped DEF PastesInBounds
<1>3. orders \in Seq(PasteOrder) /\ results \in Seq(Outcome) /\ job \in Task /\ broker \in Read
      /\ threads \subseteq PasteOrder
 BY <1>0 DEF PastingInv, WorkShape, ReadsShape
<1>4. Preparing' \in {0, 1} /\ Reading' \in {0, 1} /\ AskingTypes' \in {0, 1}
 BY DEF One, Preparing, Reading, AskingTypes
<1>5. /\ UNCHANGED broker => UNCHANGED <<Reading, AskingTypes>>
      /\ broker' = NoRead => Reading' = 0 /\ AskingTypes' = 0
      /\ UNCHANGED job => UNCHANGED Preparing
      /\ job' = NoTask => Preparing' = 0
 BY NothingReserved DEF One, Reading, AskingTypes, Preparing
<1>6. ASSUME UNCHANGED <<pastes, nextDraft>>, reserved' \in {reserved, NoReservation},
             UNCHANGED <<broker, nextRead>>, Len(orders') \in Nat, Len(results') \in Nat,
             Len(orders') + Preparing' + Len(results') <= Len(orders) + Preparing + Len(results)
      PROVE  PastesInBounds'
 <2>1. UNCHANGED <<Reading, AskingTypes>>
  BY <1>5, <1>6
 <2>2. /\ (nextRead + AskingTypes)' <= nextRead + AskingTypes
       /\ (nextRead + AskingTypes)' \in Nat
  BY <1>1, <1>2, <1>6, <2>1
 <2>3. /\ (Reading + Len(orders) + Preparing + Len(results))'
               <= Reading + Len(orders) + Preparing + Len(results)
       /\ (Reading + Len(orders) + Preparing + Len(results))' \in Nat
  <3>1. /\ Reading \in {0, 1} /\ Preparing \in {0, 1} /\ Preparing' \in {0, 1}
        /\ Len(orders) \in Nat /\ Len(results) \in Nat
   BY <1>1, <1>2, <1>4
  <3>2. Reading' = Reading
   BY <2>1
  <3> QED BY ONLY <1>6, <3>1, <3>2, TotalFalls
 <2> QED BY <1>0, <1>2, <1>6, <2>2, <2>3, BoundsStay
<1>7. ASSUME UNCHANGED <<pastes, nextDraft, nextRead>>, reserved' \in {reserved, NoReservation},
             broker' = NoRead, UNCHANGED <<job, results>>, Len(orders') \in Nat,
             Len(orders') <= Len(orders) + Reading
      PROVE  PastesInBounds'
 <2>1. Reading' = 0 /\ AskingTypes' = 0 /\ Preparing' = Preparing
  BY <1>5, <1>7
 <2>2. /\ (nextRead + AskingTypes)' <= nextRead + AskingTypes
       /\ (nextRead + AskingTypes)' \in Nat
  BY <1>1, <1>2, <1>7, <2>1
 <2>3. /\ (Reading + Len(orders) + Preparing + Len(results))'
               <= Reading + Len(orders) + Preparing + Len(results)
       /\ (Reading + Len(orders) + Preparing + Len(results))' \in Nat
  BY <1>1, <1>2, <1>7, <2>1
 <2> QED BY <1>0, <1>7, <2>2, <2>3, BoundsStay
<1>8. CASE AttachInput \/ PasteAsText \/ PasteRemotely \/ PasteAnnounced
 <2>1. pastes' = pastes + 1 /\ pastes < MaxPastes /\ pastes' \in 0..MaxPastes
  BY <1>1, <1>8 DEF AttachInput, PasteAsText, PasteRemotely, PasteAnnounced, Pasted
 <2>2. reserved' \in {reserved, [at |-> Here, id |-> nextDraft + 1]}
       /\ nextDraft' \in {nextDraft, nextDraft + 1}
       /\ (reserved' # reserved => nextDraft' = nextDraft + 1)
  BY <1>8 DEF AttachInput, PasteAsText, PasteRemotely, PasteAnnounced, Reserves, appPasteVars
 <2>3. reserved'.id \in 0..nextDraft' /\ nextDraft' \in 0..pastes'
  BY <1>1, <2>1, <2>2
 <2>4. CASE AttachInput \/ PasteAsText
  <3>1. UNCHANGED <<broker, nextRead, job, results>>
   BY <2>4 DEF AttachInput, PasteAsText, workerPasteVars
  <3>2. Len(orders') \in Nat /\ Len(orders') <= Len(orders) + 1
   BY <1>1, <1>3, <2>4 DEF AttachInput, PasteAsText, workerPasteVars
  <3>3. /\ nextRead' + AskingTypes' <= 2 * pastes'
        /\ Reading' + Len(orders') + Preparing' + Len(results') <= pastes'
   BY <1>1, <1>2, <1>5, <2>1, <3>1, <3>2
  <3> QED BY <1>2, <2>1, <2>3, <3>1, <3>3 DEF PastesInBounds
 <2>5. CASE PasteRemotely \/ PasteAnnounced
  <3>1. UNCHANGED <<orders, job, results>>
   BY <2>5 DEF PasteRemotely, PasteAnnounced, workerPasteVars
  <3>2. CASE UNCHANGED <<broker, nextRead>>
   <4>1. /\ nextRead' + AskingTypes' <= 2 * pastes'
         /\ Reading' + Len(orders') + Preparing' + Len(results') <= pastes'
    BY <1>1, <1>2, <1>5, <2>1, <3>1, <3>2
   <4> QED BY <1>2, <2>1, <2>3, <3>2, <4>1 DEF PastesInBounds
  <3>3. CASE broker = NoRead /\ nextRead' = nextRead + 1 /\ broker'.id = nextRead + 1
   <4>1. Reading = 0 /\ AskingTypes = 0
    BY <3>3, NothingReserved DEF One, Reading, AskingTypes
   <4>2. nextRead' + AskingTypes' <= 2 * pastes'
    <5>1. nextRead <= 2 * pastes /\ nextRead' = nextRead + 1 /\ AskingTypes' <= 1
     BY <1>1, <1>2, <1>4, <3>3, <4>1
    <5>2. AskingTypes' \in Nat /\ nextRead \in Nat /\ pastes \in Nat
     BY <1>1, <1>4
    <5> QED BY <2>1, <5>1, <5>2, OneMorePaste
   <4>4. Preparing' = Preparing
    BY <1>5, <3>1
   <4>5. Reading' + Len(orders') + Preparing' + Len(results') <= pastes'
    BY <1>1, <1>2, <1>4, <2>1, <3>1, <4>1, <4>4
   <4>3. broker'.id # 0
    BY <1>1, <3>3
   <4> QED BY <2>1, <2>3, <4>2, <4>3, <4>5 DEF PastesInBounds
  <3> QED BY <2>5, <3>2, <3>3 DEF PasteRemotely, PasteAnnounced, Enqueue
 <2> QED BY <1>8, <2>4, <2>5
<1>9. CASE TypesArrive
 <2>1. UNCHANGED <<pastes, nextDraft, orders, job, results>>
  BY <1>9 DEF TypesArrive, workerPasteVars, pasteBounds
 <2>2. reserved' \in {reserved, NoReservation}
  BY <1>9 DEF TypesArrive, FailDestination, AttachmentsArePrepared
 <2>3. PICK read \in reads :
         /\ broker.id = read.id /\ broker.wants = "types"
         /\ \/ /\ nextRead' = nextRead + 1
               /\ broker' = [broker EXCEPT !.id = nextRead + 1, !.wants = "data"]
            \/ broker' = NoRead /\ UNCHANGED nextRead
  BY <1>9 DEF TypesArrive, Awaited
 <2>4. CASE broker' = NoRead /\ UNCHANGED nextRead
  BY <1>1, <1>2, <1>7, <2>1, <2>2, <2>4
 <2>5. CASE /\ nextRead' = nextRead + 1
            /\ broker' = [broker EXCEPT !.id = nextRead + 1, !.wants = "data"]
  <3>1. broker'.id = nextRead + 1 /\ broker'.wants = "data"
   <4>1. "id" \in DOMAIN broker /\ "wants" \in DOMAIN broker
    BY <1>3 DEF Read
   <4> QED BY <2>5, <4>1
  <3>2. broker'.id # 0 /\ AskingTypes = 1 /\ AskingTypes' = 0 /\ Reading = 1
   <4>1. read.id # 0
    BY <1>0 DEF PastingInv, ReadsAreMeant
   <4> QED BY <1>1, <2>3, <3>1, <4>1 DEF One, AskingTypes, Reading
  <3>3. /\ (nextRead + AskingTypes)' <= nextRead + AskingTypes
        /\ (nextRead + AskingTypes)' \in Nat
   BY <1>1, <2>5, <3>2
  <3>4. /\ (Reading + Len(orders) + Preparing + Len(results))'
                <= Reading + Len(orders) + Preparing + Len(results)
        /\ (Reading + Len(orders) + Preparing + Len(results))' \in Nat
   BY <1>1, <1>2, <1>4, <1>5, <2>1, <3>2
  <3> QED BY <1>0, <2>1, <2>2, <3>2, <3>3, <3>4, BoundsStay
 <2> QED BY <2>3, <2>4, <2>5
<1>10. CASE DataArrives
 <2>1. UNCHANGED <<pastes, nextDraft, nextRead, job, results>> /\ broker' = NoRead
  BY <1>10 DEF DataArrives, pasteBounds
 <2>2. reserved' \in {reserved, NoReservation}
  BY <1>10 DEF DataArrives, FailDestination, AttachmentsArePrepared
 <2>3. Reading = 1
  <3>1. PICK read \in reads : broker.id = read.id
   BY <1>10 DEF DataArrives, Awaited
  <3>2. read.id # 0
   BY <1>0 DEF PastingInv, ReadsAreMeant
  <3> QED BY <3>1, <3>2 DEF One, Reading
 <2>4. UNCHANGED orders \/ \E order : orders' = Append(orders, order)
  BY <1>10 DEF DataArrives
 <2>5. Len(orders') \in Nat /\ Len(orders') <= Len(orders) + 1
  BY <1>1, <1>3, <2>4
 <2> QED BY <1>7, <2>1, <2>2, <2>3, <2>5
<1>11. CASE LateAnswer
 <2>1. UNCHANGED <<pastes, nextDraft, reserved, broker, nextRead, orders, job, results>>
  BY <1>11 DEF LateAnswer, appPasteVars, workerPasteVars, pasteBounds
 <2> QED BY <1>1, <1>2, <1>5, <1>6, <2>1
<1>12. CASE PasteFails
 <2>1. UNCHANGED <<pastes, nextDraft, nextRead, orders, job, results>> /\ broker' = NoRead
       /\ reserved' \in {reserved, NoReservation}
  BY <1>12 DEF PasteFails, FailDestination, AttachmentsArePrepared, workerPasteVars, pasteBounds
 <2> QED BY <1>1, <1>2, <1>7, <2>1
<1>13. CASE StartPreparation
 <2>1. UNCHANGED <<pastes, nextDraft, reserved, broker, nextRead>>
  BY <1>13 DEF StartPreparation, appPasteVars, pasteBounds
 <2>2. orders' = Tail(orders) /\ Len(orders') \in Nat /\ Len(orders') = Len(orders) - 1
  BY <1>1, <1>3, <1>13, Taken DEF StartPreparation
 <2>3. \/ UNCHANGED job /\ \E r : results' = Append(results, r)
       \/ job = NoTask /\ UNCHANGED results
  BY <1>13 DEF StartPreparation
 <2>4. CASE UNCHANGED job /\ \E r : results' = Append(results, r)
  <3>1. Len(results') = Len(results) + 1
   BY <1>3, <2>4
  <3>2. Preparing' = Preparing
   BY <1>5, <2>4
  <3>3. /\ Len(results') \in Nat
        /\ Len(orders') + Preparing' + Len(results') <= Len(orders) + Preparing + Len(results)
   BY <1>1, <1>2, <2>2, <3>1, <3>2, OrderToResult
  <3> QED BY <1>6, <2>1, <2>2, <3>3
 <2>5. CASE job = NoTask /\ UNCHANGED results
  <3>1. Preparing = 0
   BY <2>5 DEF One, Preparing
  <3>2. /\ Len(results') \in Nat
        /\ Len(orders') + Preparing' + Len(results') <= Len(orders) + Preparing + Len(results)
   <4>1. results' = results /\ Len(results') = Len(results) /\ Preparing' <= 1 /\ Preparing' \in Nat
    BY <1>4, <2>5
   <4> QED BY <1>1, <2>2, <3>1, <4>1, OrderToJob
  <3> QED BY <1>6, <2>1, <2>2, <3>2
 <2> QED BY <2>3, <2>4, <2>5
<1>14. CASE PreparationExpires
 <2>1. UNCHANGED <<pastes, nextDraft, reserved, broker, nextRead, orders>>
  BY <1>14 DEF PreparationExpires, appPasteVars, pasteBounds
 <2>2. Len(results') = Len(results) + 1
  BY <1>3, <1>14 DEF PreparationExpires
 <2>3. Preparing = 1 /\ Preparing' = 0
  <3>1. job'.expired = TRUE
   BY <1>3, <1>14 DEF PreparationExpires, Task
  <3> QED BY <1>14, <3>1 DEF PreparationExpires, One, Preparing
 <2> QED BY <1>1, <1>6, <2>1, <2>2, <2>3
<1>15. CASE TakePrepared
 <2>1. UNCHANGED <<pastes, nextDraft, broker, nextRead, orders, job>>
       /\ reserved' \in {reserved, NoReservation}
  BY <1>15 DEF TakePrepared, AttachmentsArePrepared, pasteBounds
 <2>2. Len(results') \in Nat /\ Len(results') = Len(results) - 1
  BY <1>1, <1>3, <1>15, Taken DEF TakePrepared
 <2> QED BY <1>1, <1>2, <1>5, <1>6, <2>1, <2>2
<1>16. ASSUME NEW order \in threads, PreparationEnds(order) PROVE PastesInBounds'
 <2>1. UNCHANGED <<pastes, nextDraft, reserved, broker, nextRead, orders>>
  BY <1>16 DEF PreparationEnds, appPasteVars, pasteBounds
 <2>2. CASE job.order = order /\ ~job.expired
  <3>1. job # NoTask
   <4>1. order.paste # 0
    BY <1>0 DEF PastingInv, WorkIsMeant, OrderMeant, Meant
   <4> QED BY <2>2, <4>1 DEF NoTask, NoJob
  <3>2. Preparing = 1 /\ Preparing' = 0
   BY <1>5, <1>16, <2>2, <3>1 DEF PreparationEnds, One, Preparing
  <3>3. \E r : results' = Append(results, r)
   BY <1>16, <2>2 DEF PreparationEnds
  <3>4. Len(results') = Len(results) + 1
   BY <1>3, <3>3
  <3> QED BY <1>1, <1>6, <2>1, <3>2, <3>4
 <2>3. CASE ~(job.order = order /\ ~job.expired)
  <3>1. UNCHANGED results /\ job' \in {job, NoTask}
   BY <1>16, <2>3 DEF PreparationEnds
  <3>2. Preparing' <= Preparing
   BY <1>2, <1>5, <3>1
  <3> QED BY <1>1, <1>2, <1>4, <1>6, <2>1, <3>1, <3>2
 <2> QED BY <2>2, <2>3
<1>17. CASE GoTo \/ GiveUpPreparation \/ UNCHANGED pasteVars
 <2>1. UNCHANGED <<pastes, nextDraft, broker, nextRead, orders, job, results>>
       /\ reserved' \in {reserved, NoReservation}
  BY <1>17 DEF GoTo, GiveUpPreparation, pasteVars, appPasteVars, workerPasteVars, pasteBounds
 <2> QED BY <1>1, <1>2, <1>5, <1>6, <2>1
<1>18. CASE SwitchPasting
 <2>1. UNCHANGED <<pastes, nextRead>> /\ reserved' = NoReservation /\ nextDraft' = 0
       /\ broker' = NoRead /\ orders' = <<>> /\ job' = NoTask /\ results' = <<>>
  BY <1>18 DEF SwitchPasting
 <2>2. Reading' = 0 /\ AskingTypes' = 0 /\ Preparing' = 0 /\ Len(orders') = 0 /\ Len(results') = 0
  BY <1>5, <2>1
 <2>3. reserved'.id \in 0..nextDraft' /\ nextDraft' \in 0..pastes' /\ pastes' \in 0..MaxPastes
  BY <1>0, <1>1, <2>1, NothingReserved DEF PastesInBounds
 <2>4. /\ nextRead' + AskingTypes' <= 2 * pastes'
       /\ Reading' + Len(orders') + Preparing' + Len(results') <= pastes'
  BY <1>1, <1>2, <2>1, <2>2
 <2> QED BY <2>1, <2>3, <2>4 DEF PastesInBounds
<1> QED BY <1>8, <1>9, <1>10, <1>11, <1>12, <1>13, <1>14, <1>15, <1>16, <1>17, <1>18 DEF PastingNext

LEMMA BoundsBegin == PastingInit => PastesInBounds
<1> SUFFICES ASSUME PastingInit PROVE PastesInBounds
 OBVIOUS
<1>1. /\ pastes = 0 /\ reserved = NoReservation /\ nextDraft = 0 /\ broker = NoRead /\ nextRead = 0
      /\ Len(orders) = 0 /\ Len(results) = 0 /\ job = NoTask
 BY DEF PastingInit
<1>2. Reading = 0 /\ AskingTypes = 0 /\ Preparing = 0
 BY <1>1, NothingReserved DEF One, Reading, AskingTypes, Preparing
<1> QED BY <1>1, <1>2, NothingReserved, PastingBounds DEF PastesInBounds

-----------------------------------------------------------------------------
(* Both together. *)

TypesInv ==
    /\ DialogTyped /\ PastingTyped
    /\ dialog = "pins" => PinReturns
    /\ dialog = "stickers" => told = 1

LEMMA TypesBegin == Init => TypesInv
<1> SUFFICES ASSUME Init PROVE TypesInv
 OBVIOUS
<1>1. PastingTyped
 BY PastingBegins, BoundsBegin DEF Init, PastingTyped
<1>2. /\ Planned(DeletionClosed) /\ Planned(ForwardClosed) /\ Planned(NothingKept)
      /\ Planned(InviteClosed) /\ Planned(PollClosed) /\ Planned(PanelClosed)
      /\ Planned(PinsClosed) /\ Planned(NoEntry) /\ Planned(NoStickers) /\ Planned(NoPreview)
 BY NothingPlanned DEF Planned, DeletionClosed, ForwardClosed, NothingKept, InviteClosed,
    PollClosed, PanelClosed, PinsClosed, NoEntry, NoStickers, NoPreview
<1>3. DialogTyped
 BY <1>2, DialogBeginsTyped DEF Init, DialogStarts, DeletionInit, ForwardInit, EditInit, InviteInit,
    PollInit, ReactionInit, PinsInit, InfoInit, StickersInit, PreviewInit
<1>4. dialog = "pins" => PinReturns
 BY DEF Init, DialogStarts, PinsInit, DialogInit, PinsClosed, PinReturns
<1>5. dialog = "stickers" => told = 1
 BY DEF Init, DialogStarts, StickersInit, DialogInit
<1> QED BY <1>1, <1>3, <1>4, <1>5 DEF TypesInv

LEMMA TypesKeep == TypesInv /\ [Next]_vars => TypesInv'
<1> SUFFICES ASSUME TypesInv, [Next]_vars PROVE TypesInv'
 OBVIOUS
<1>0. DialogTyped /\ PastingTyped
 BY DEF TypesInv
<1>1. [PastingNext]_pasteVars /\ dialog' = dialog
 BY DEF Next, DialogNext, vars
<1>2. PastingTyped'
 BY <1>0, <1>1, PastingSteps, BoundsKeep DEF PastingTyped
<1>3. CASE UNCHANGED dialogVars
 <2>1. /\ UNCHANGED <<mode, prompt, pending, nextRequest, online, calls, server, told, carried>>
  BY <1>3 DEF dialogVars
 <2>2. DialogTyped'
  BY <1>0, <2>1, TerminalMoves, ToldInBounds
 <2> QED BY <1>1, <1>2, <2>1, <2>2 DEF TypesInv, PinReturns
<1>4. CASE DialogNext
 <2>1. dialog = "stickers" => told = 1
  BY DEF TypesInv
 <2>2. dialog = "pins" => PinReturns
  BY DEF TypesInv
 <2>3. DialogTyped'
  BY <1>0, <1>4, <2>1, <2>2, DeletionTyped, ForwardTyped, EditTyped, InviteTyped, PollTyped,
     ReactionTyped, PinsTyped, InfoTyped, StickersTyped, PreviewTyped DEF DialogNext
 <2>4. dialog' = "pins" => PinReturns'
  BY <1>0, <1>1, <1>4, <2>2, PinsKeepReturning DEF DialogNext, DialogTyped, TerminalTyped
 <2>5. dialog' = "stickers" => told' = 1
  BY <1>1, <1>4, <2>1, StickersAreUntold DEF DialogNext
 <2> QED BY <1>2, <2>3, <2>4, <2>5 DEF TypesInv
<1> QED BY <1>3, <1>4 DEF Next, vars

(* TypeOK, for any numbers of versions, requests, pastes and switches: in every dialog the
   numbers of its requests are its own (State.next_request), what it shows and carries was a
   version of the server, and a paste is asked for, prepared and answered at most once in
   one place (app/staging.rs, terminal/clipboard.rs, staging.rs). *)
THEOREM DialogTypesHold == Spec => []TypeOK
<1>1. TypesInv => TypeOK
 BY TypedIsType, PastingIsTyped DEF TypesInv, TypeOK
<1>2. Spec => []TypesInv
 BY TypesBegin, TypesKeep, PTL DEF Spec
<1> QED BY <1>1, <1>2, PTL
=============================================================================
