------------------------ MODULE DesktopShells_proofs -------------------------
(***************************************************************************)
(* Proofs about DesktopShells: requests to reconnect a session share one,  *)
(* "ok" means there was a shell, and no shell is left without a session,   *)
(* for any sessions, any number of calls and any faults.                   *)
(***************************************************************************)
EXTENDS DesktopShells, SequenceTheorems, TLAPS

CallFields == {"op", "id", "stage", "frame", "ok", "seen"}

AskingStages == {"connect", "waiting", "broken"}

(* The call holds the session's reconnection, or waits for one that does.  *)
Asks(call) == call.op = "reconnect" /\ call.stage \in AskingStages
Joined(call) == call.stage = "joined"

(* A call that is connecting, lost its connection or joined another has    *)
(* nothing under way that could settle it; only reconnections are joined.  *)
WellFormed(call) ==
    /\ DOMAIN call = CallFields
    /\ call.stage \in {"connect", "broken", "joined"} => call.frame = "none"
    /\ Joined(call) => call.op = "reconnect"

(* The inductive invariant: sshReconnectInFlight names the call that asks. *)
CallsInv ==
    /\ DOMAIN calls = Calls /\ DOMAIN inFlight = Ids
    /\ \A c \in Calls : WellFormed(calls[c])

FlightInv ==
    /\ \A c \in Calls : Asks(calls[c]) => calls[c].id \in Ids /\ inFlight[calls[c].id] = c
    /\ \A i \in Ids : inFlight[i] # NoCall =>
          inFlight[i] \in Calls /\ Asks(calls[inFlight[i]]) /\ calls[inFlight[i]].id = i
    /\ \A c \in Calls : Joined(calls[c]) => calls[c].id \in Ids /\ inFlight[calls[c].id] # NoCall

IInv == CallsInv /\ FlightInv

LEMMA InvImplies == IInv => OneReconnect
  <1> SUFFICES ASSUME IInv PROVE OneReconnect
    OBVIOUS
  <1> DEFINE asking(i) == {c \in Calls : Asks(calls[c]) /\ calls[c].id = i}
  <1>1. ASSUME NEW i \in Ids, NEW c \in asking(i), NEW d \in asking(i)
        PROVE  c = d
    BY <1>1 DEF IInv, FlightInv
  <1>2. ASSUME NEW i \in Ids, NEW c \in Calls, Joined(calls[c]), calls[c].id = i
        PROVE  inFlight[i] \in asking(i)
    BY <1>2 DEF IInv, FlightInv
  <1>3. QED
    BY <1>1, <1>2 DEF OneReconnect, Asks, Joined, AskingStages

-----------------------------------------------------------------------------
(* Steps that change no call's part in a reconnection. *)
SameRole(a, b) ==
    /\ Asks(b) <=> Asks(a)
    /\ Joined(b) <=> Joined(a)
    /\ Asks(a) \/ Joined(a) => b.id = a.id

LEMMA RolesStay ==
    ASSUME IInv, inFlight' = inFlight, DOMAIN calls' = Calls,
           \A c \in Calls : WellFormed(calls'[c]) /\ SameRole(calls[c], calls'[c])
    PROVE  IInv'
  <1>1. CallsInv'
    BY DEF IInv, CallsInv
  <1>2. FlightInv'
    BY DEF IInv, CallsInv, FlightInv, SameRole
  <1>3. QED
    BY <1>1, <1>2 DEF IInv

LEMMA RoleStays ==
    ASSUME IInv, inFlight' = inFlight, NEW c \in Calls, NEW call,
           calls' = [calls EXCEPT ![c] = call], WellFormed(call), SameRole(calls[c], call)
    PROVE  IInv'
  <1>1. DOMAIN calls' = Calls
    BY DEF IInv, CallsInv
  <1>2. ASSUME NEW d \in Calls PROVE WellFormed(calls'[d]) /\ SameRole(calls[d], calls'[d])
    BY DEF IInv, CallsInv, SameRole
  <1>3. QED
    BY <1>1, <1>2, RolesStay

LEMMA CallsStay ==
    ASSUME IInv, UNCHANGED <<calls, inFlight>>
    PROVE  IInv'
  BY DEF IInv, CallsInv, FlightInv

-----------------------------------------------------------------------------
LEMMA OverFacts ==
    ASSUME NEW call, DOMAIN call = CallFields, NEW ok
    PROVE  WellFormed(Over(call, ok)) /\ ~Asks(Over(call, ok)) /\ ~Joined(Over(call, ok))
  BY DEF WellFormed, CallFields, Over, IdleCall, Asks, Joined, AskingStages

(* The promise settles for the call and those that joined it.              *)
LEMMA FinishStep ==
    ASSUME IInv, NEW c \in Calls, NEW ok, Finish(c, ok), calls[c].stage \in AskingStages
    PROVE  IInv'
  <1> DEFINE i == calls[c].id
             joined == IF calls[c].op = "reconnect"
                       THEN {d \in Calls : calls[d].stage = "joined" /\ calls[d].id = i} ELSE {}
  <1>1. calls' = [d \in Calls |-> IF d = c \/ d \in joined THEN Over(calls[d], ok) ELSE calls[d]]
    BY DEF Finish
  <1> HIDE DEF joined
  <1>2. DOMAIN calls' = Calls
    BY <1>1
  <1>3. ASSUME NEW d \in Calls
        PROVE  /\ WellFormed(calls'[d])
               /\ d = c \/ d \in joined => ~Asks(calls'[d]) /\ ~Joined(calls'[d])
               /\ ~(d = c \/ d \in joined) => calls'[d] = calls[d]
    <2>1. WellFormed(calls[d])
      BY DEF IInv, CallsInv
    <2>2. WellFormed(Over(calls[d], ok)) /\ ~Asks(Over(calls[d], ok)) /\ ~Joined(Over(calls[d], ok))
      BY <2>1, OverFacts DEF WellFormed
    <2>3. calls'[d] = IF d = c \/ d \in joined THEN Over(calls[d], ok) ELSE calls[d]
      BY <1>1
    <2>4. QED
      BY <2>1, <2>2, <2>3
  <1>4. CASE calls[c].op = "reconnect"
    <2>1. i \in Ids /\ inFlight[i] = c
      BY <1>4 DEF IInv, FlightInv, Asks
    <2>2. inFlight' = [inFlight EXCEPT ![i] = NoCall]
      BY <1>4 DEF Finish
    <2>3. CallsInv'
      BY <1>2, <1>3, <2>2 DEF IInv, CallsInv
    <2>4. \A d \in Calls \ {c} : ~(Asks(calls[d]) /\ calls[d].id = i)
      BY <2>1 DEF IInv, FlightInv
    <2>5. joined = {d \in Calls : Joined(calls[d]) /\ calls[d].id = i}
      BY <1>4 DEF Joined, joined
    <2>6. \A d \in Calls : Asks(calls'[d]) \/ Joined(calls'[d]) => calls'[d] = calls[d] /\ d # c /\ d \notin joined
      BY <1>3
    <2>7. \A d \in Calls : Asks(calls'[d]) \/ Joined(calls'[d]) => calls[d].id \in Ids /\ calls[d].id # i
      BY <2>4, <2>5, <2>6 DEF IInv, FlightInv
    <2>8. \A k \in Ids : inFlight'[k] = IF k = i THEN NoCall ELSE inFlight[k]
      BY <2>2 DEF IInv, CallsInv
    <2>9. FlightInv'
      <3>1. \A d \in Calls : Asks(calls'[d]) => calls'[d].id \in Ids /\ inFlight'[calls'[d].id] = d
        BY <2>6, <2>7, <2>8 DEF IInv, FlightInv
      <3>2. \A d \in Calls : Joined(calls'[d]) => calls'[d].id \in Ids /\ inFlight'[calls'[d].id] # NoCall
        BY <2>6, <2>7, <2>8 DEF IInv, FlightInv
      <3>3. ASSUME NEW k \in Ids, inFlight'[k] # NoCall
            PROVE  inFlight'[k] \in Calls /\ Asks(calls'[inFlight'[k]]) /\ calls'[inFlight'[k]].id = k
        <4>1. k # i /\ inFlight'[k] = inFlight[k]
          BY <2>8, <3>3
        <4>2. inFlight[k] \in Calls /\ Asks(calls[inFlight[k]]) /\ calls[inFlight[k]].id = k
          BY <3>3, <4>1 DEF IInv, FlightInv
        <4>3. inFlight[k] # c /\ inFlight[k] \notin joined
          BY <2>5, <4>1, <4>2 DEF Joined
        <4>4. QED
          BY <1>3, <4>1, <4>2, <4>3
      <3>4. QED
        BY <3>1, <3>2, <3>3 DEF FlightInv
    <2>10. QED
      BY <2>3, <2>9 DEF IInv
  <1>5. CASE calls[c].op # "reconnect"
    <2>1. inFlight' = inFlight /\ joined = {}
      BY <1>5 DEF Finish, joined
    <2>2. \A d \in Calls : SameRole(calls[d], calls'[d])
      <3>1. ~Asks(calls[c]) /\ ~Joined(calls[c]) /\ ~Asks(calls'[c]) /\ ~Joined(calls'[c])
        BY <1>3, <1>5 DEF Asks, Joined, AskingStages
      <3>2. QED
        BY <1>3, <2>1, <3>1 DEF SameRole
    <2>3. QED
      BY <1>2, <1>3, <2>1, <2>2, RolesStay
  <1>6. QED
    BY <1>4, <1>5

-----------------------------------------------------------------------------
(* The calls of the window. *)
LEMMA IdleFacts ==
    ASSUME IInv, NEW c \in Calls, Idle(c)
    PROVE  ~Asks(calls[c]) /\ ~Joined(calls[c])
  BY DEF Idle, Asks, Joined, AskingStages

LEMMA IdleCallFacts == WellFormed(IdleCall) /\ ~Asks(IdleCall) /\ ~Joined(IdleCall)
  BY DEF WellFormed, CallFields, IdleCall, Asks, Joined, AskingStages

LEMMA StartCreateStep ==
    ASSUME IInv, NEW c \in Calls, NEW kind \in {"pty", "ssh"}, StartCreate(c, kind)
    PROVE  IInv'
  <1> DEFINE call == [op |-> kind, id |-> "none", stage |-> "connect", frame |-> "none", ok |-> FALSE,
                      seen |-> FALSE]
  <1>1. calls' = [calls EXCEPT ![c] = call] /\ inFlight' = inFlight
    BY DEF StartCreate, Begin, deskVars
  <1>2. WellFormed(call) /\ ~Asks(call) /\ ~Joined(call)
    BY DEF WellFormed, CallFields, Asks, Joined
  <1>3. SameRole(calls[c], call)
    BY <1>2, IdleFacts DEF SameRole, StartCreate
  <1> HIDE DEF call
  <1>4. QED
    BY <1>1, <1>2, <1>3, RoleStays

LEMMA StartRemoveStep ==
    ASSUME IInv, NEW c \in Calls, NEW i \in Ids, StartRemove(c, i)
    PROVE  IInv'
  <1> DEFINE call == [op |-> "remove", id |-> i, stage |-> "connect", frame |-> "none", ok |-> FALSE,
                      seen |-> FALSE]
  <1>1. calls' = [calls EXCEPT ![c] = call] /\ inFlight' = inFlight
    BY DEF StartRemove, Begin, deskVars
  <1>2. WellFormed(call) /\ ~Asks(call) /\ ~Joined(call)
    BY DEF WellFormed, CallFields, Asks, Joined
  <1>3. SameRole(calls[c], call)
    BY <1>2, IdleFacts DEF SameRole, StartRemove
  <1> HIDE DEF call
  <1>4. QED
    BY <1>1, <1>2, <1>3, RoleStays

(* The first request enters the map, the others join it. *)
LEMMA StartReconnectStep ==
    ASSUME IInv, NEW c \in Calls, NEW i \in Ids, StartReconnect(c, i)
    PROVE  IInv'
  <1>1. ~Asks(calls[c]) /\ ~Joined(calls[c])
    BY IdleFacts DEF StartReconnect
  <1>2. CASE inFlight[i] # NoCall
    <2> DEFINE call == [calls[inFlight[i]] EXCEPT !.stage = "joined", !.frame = "none"]
    <2>1. calls' = [calls EXCEPT ![c] = call] /\ inFlight' = inFlight
      BY <1>2 DEF StartReconnect
    <2>2. /\ inFlight[i] \in Calls \ {c} /\ WellFormed(calls[inFlight[i]])
          /\ Asks(calls[inFlight[i]]) /\ calls[inFlight[i]].id = i
      BY <1>1, <1>2 DEF IInv, CallsInv, FlightInv
    <2>3. WellFormed(call) /\ Joined(call) /\ ~Asks(call) /\ call.id = i
      BY <2>2 DEF WellFormed, CallFields, Asks, Joined, AskingStages
    <2> HIDE DEF call
    <2>4. CallsInv'
      BY <2>1, <2>3 DEF IInv, CallsInv
    <2>5. calls'[c] = call /\ \A d \in Calls \ {c} : calls'[d] = calls[d]
      BY <2>1 DEF IInv, CallsInv
    <2>6. FlightInv'
      <3>1. \A d \in Calls : Asks(calls'[d]) => calls'[d].id \in Ids /\ inFlight'[calls'[d].id] = d
        BY <2>1, <2>3, <2>5 DEF IInv, FlightInv
      <3>2. \A d \in Calls : Joined(calls'[d]) => calls'[d].id \in Ids /\ inFlight'[calls'[d].id] # NoCall
        BY <1>2, <2>1, <2>3, <2>5 DEF IInv, FlightInv
      <3>3. ASSUME NEW k \in Ids, inFlight'[k] # NoCall
            PROVE  inFlight'[k] \in Calls /\ Asks(calls'[inFlight'[k]]) /\ calls'[inFlight'[k]].id = k
        <4>1. inFlight[k] \in Calls /\ Asks(calls[inFlight[k]]) /\ calls[inFlight[k]].id = k
          BY <2>1, <3>3 DEF IInv, FlightInv
        <4>2. inFlight[k] # c
          BY <1>1, <4>1
        <4>3. QED
          BY <2>1, <2>5, <4>1, <4>2
      <3>4. QED
        BY <3>1, <3>2, <3>3 DEF FlightInv
    <2>7. QED
      BY <2>4, <2>6 DEF IInv
  <1>3. CASE inFlight[i] = NoCall /\ Lookup(i) # "ssh"
    <2>1. calls' = [calls EXCEPT ![c] = IdleCall] /\ inFlight' = inFlight
      BY <1>3 DEF StartReconnect
    <2>2. SameRole(calls[c], IdleCall)
      BY <1>1, IdleCallFacts DEF SameRole
    <2>3. QED
      BY <2>1, <2>2, IdleCallFacts, RoleStays
  <1>4. CASE inFlight[i] = NoCall /\ Lookup(i) = "ssh"
    <2> DEFINE call == [op |-> "reconnect", id |-> i, stage |-> "connect", frame |-> "none",
                        ok |-> FALSE, seen |-> i \in shells]
    <2>1. calls' = [calls EXCEPT ![c] = call] /\ inFlight' = [inFlight EXCEPT ![i] = c]
      BY <1>4 DEF StartReconnect, Begin
    <2>2. WellFormed(call) /\ Asks(call) /\ ~Joined(call) /\ call.id = i
      BY DEF WellFormed, CallFields, Asks, Joined, AskingStages
    <2> HIDE DEF call
    <2>3. CallsInv'
      BY <2>1, <2>2 DEF IInv, CallsInv
    <2>4. /\ calls'[c] = call /\ \A d \in Calls \ {c} : calls'[d] = calls[d]
          /\ inFlight'[i] = c /\ \A k \in Ids \ {i} : inFlight'[k] = inFlight[k]
      BY <2>1 DEF IInv, CallsInv
    <2>5. ASSUME NEW d \in Calls \ {c}, Asks(calls[d])
          PROVE  calls[d].id # i
      <3>1. inFlight[calls[d].id] # NoCall
        BY <2>5, DesktopAssumption DEF IInv, FlightInv
      <3>2. QED
        BY <1>4, <3>1
    <2>6. FlightInv'
      <3>1. \A d \in Calls : Asks(calls'[d]) => calls'[d].id \in Ids /\ inFlight'[calls'[d].id] = d
        BY <2>2, <2>4, <2>5 DEF IInv, FlightInv
      <3>2. \A d \in Calls : Joined(calls'[d]) => calls'[d].id \in Ids /\ inFlight'[calls'[d].id] # NoCall
        <4>1. ASSUME NEW d \in Calls, Joined(calls'[d])
              PROVE  calls'[d].id \in Ids /\ inFlight'[calls'[d].id] # NoCall
          <5>1. d # c /\ calls'[d] = calls[d]
            BY <2>2, <2>4, <4>1
          <5>2. calls[d].id \in Ids /\ inFlight[calls[d].id] # NoCall
            BY <4>1, <5>1 DEF IInv, FlightInv
          <5>3. QED
            BY <1>4, <2>4, <5>1, <5>2
        <4>2. QED
          BY <4>1
      <3>3. ASSUME NEW k \in Ids, inFlight'[k] # NoCall
            PROVE  inFlight'[k] \in Calls /\ Asks(calls'[inFlight'[k]]) /\ calls'[inFlight'[k]].id = k
        <4>1. CASE k = i
          BY <2>2, <2>4, <4>1
        <4>2. CASE k # i
          <5>1. /\ inFlight'[k] = inFlight[k] /\ inFlight[k] \in Calls
                /\ Asks(calls[inFlight[k]]) /\ calls[inFlight[k]].id = k
            BY <2>4, <3>3, <4>2 DEF IInv, FlightInv
          <5>2. inFlight[k] # c
            BY <1>1, <5>1
          <5>3. QED
            BY <2>4, <5>1, <5>2
        <4>3. QED
          BY <4>1, <4>2
      <3>4. QED
        BY <3>1, <3>2, <3>3 DEF FlightInv
    <2>7. QED
      BY <2>3, <2>6 DEF IInv
  <1>5. QED
    BY <1>2, <1>3, <1>4

(* A call that takes no part in a reconnection, before and after. *)
LEMMA NoPart ==
    ASSUME IInv, NEW c \in Calls, NEW call, calls' = [calls EXCEPT ![c] = call], inFlight' = inFlight,
           ~Asks(calls[c]), ~Joined(calls[c]), WellFormed(call), ~Asks(call), ~Joined(call)
    PROVE  IInv'
  <1>1. SameRole(calls[c], call)
    BY DEF SameRole
  <1>2. QED
    BY <1>1, RoleStays

LEMMA RemovesAreApart ==
    ASSUME IInv, NEW c \in Calls, calls[c].op = "remove"
    PROVE  ~Asks(calls[c]) /\ ~Joined(calls[c]) /\ DOMAIN calls[c] = CallFields
  BY DEF IInv, CallsInv, WellFormed, Asks

LEMMA AfterKillStep ==
    ASSUME IInv, NEW c \in Calls, NEW frame, calls[c].op = "remove", AfterKill(c, frame)
    PROVE  IInv'
  <1> DEFINE sent == [calls[c] EXCEPT !.frame = frame]
             posts == [sent EXCEPT !.stage = "post"]
             next == IF role = "mirror" THEN posts ELSE Over(sent, TRUE)
  <1>1. ~Asks(calls[c]) /\ ~Joined(calls[c]) /\ DOMAIN calls[c] = CallFields
    BY RemovesAreApart
  <1>2. DOMAIN sent = CallFields
    BY <1>1
  <1>3. calls' = [calls EXCEPT ![c] = next] /\ inFlight' = inFlight
    BY DEF AfterKill
  <1>4. WellFormed(posts) /\ ~Asks(posts) /\ ~Joined(posts)
    BY <1>1 DEF WellFormed, CallFields, Asks, Joined, AskingStages
  <1> HIDE DEF sent
  <1>5. WellFormed(Over(sent, TRUE)) /\ ~Asks(Over(sent, TRUE)) /\ ~Joined(Over(sent, TRUE))
    BY <1>2, OverFacts
  <1> HIDE DEF posts
  <1>6. WellFormed(next) /\ ~Asks(next) /\ ~Joined(next)
    BY <1>4, <1>5
  <1> HIDE DEF next
  <1>7. QED
    BY <1>1, <1>3, <1>6, NoPart

(* The gateway's answers, and the timers. *)
LEMMA ReadyStep ==
    ASSUME IInv, NEW c \in Calls, Ready(c)
    PROVE  IInv'
  <1>1. CASE calls[c].op = "remove"
    BY <1>1, AfterKillStep DEF Ready
  <1>2. CASE calls[c].op # "remove" /\ locked
    BY <1>2, FinishStep DEF Ready, AskingStages
  <1>3. CASE calls[c].op # "remove" /\ ~locked
    <2> DEFINE call == [calls[c] EXCEPT !.stage = "waiting", !.frame = "sent"]
    <2>1. WellFormed(calls[c]) /\ calls[c].stage = "connect"
      BY DEF IInv, CallsInv, Ready
    <2>2. calls' = [calls EXCEPT ![c].stage = "waiting", ![c].frame = "sent"] /\ inFlight' = inFlight
      BY <1>3 DEF Ready, deskVars
    <2>3. calls' = [calls EXCEPT ![c] = call]
      BY <2>2 DEF IInv, CallsInv
    <2>4. WellFormed(call) /\ SameRole(calls[c], call)
      BY <2>1 DEF WellFormed, CallFields, SameRole, Asks, Joined, AskingStages
    <2> HIDE DEF call
    <2>5. QED
      BY <2>2, <2>3, <2>4, RoleStays
  <1>4. QED
    BY <1>1, <1>2, <1>3

LEMMA GiveUpStep ==
    ASSUME IInv, NEW c \in Calls, GiveUp(c)
    PROVE  IInv'
  <1>1. CASE calls[c].op = "remove"
    BY <1>1, AfterKillStep DEF GiveUp
  <1>2. CASE calls[c].op # "remove"
    BY <1>2, FinishStep DEF GiveUp, AskingStages
  <1>3. QED
    BY <1>1, <1>2

LEMMA AnsweredStep ==
    ASSUME IInv, NEW c \in Calls, Answered(c)
    PROVE  IInv'
  BY FinishStep DEF Answered, AskingStages

LEMMA RemovalSteps ==
    ASSUME IInv, NEW c \in Calls, BackendRemoves(c) \/ RemovalAnswered(c) \/ RemovalFails(c)
    PROVE  IInv'
  <1>1. calls[c].stage \in {"post", "posted"} /\ inFlight' = inFlight
    BY DEF BackendRemoves, RemovalAnswered, RemovalFails, deskVars
  <1>2. ~Asks(calls[c]) /\ ~Joined(calls[c]) /\ WellFormed(calls[c])
    BY <1>1 DEF IInv, CallsInv, Asks, Joined, AskingStages
  <1>3. CASE BackendRemoves(c)
    <2> DEFINE call == [calls[c] EXCEPT !.stage = "posted"]
    <2>1. calls' = [calls EXCEPT ![c] = call]
      BY <1>3 DEF BackendRemoves, IInv, CallsInv
    <2>2. WellFormed(call) /\ ~Asks(call) /\ ~Joined(call)
      BY <1>2 DEF WellFormed, CallFields, Asks, Joined, AskingStages
    <2> HIDE DEF call
    <2>3. QED
      BY <1>1, <1>2, <2>1, <2>2, NoPart
  <1>4. CASE RemovalAnswered(c) \/ RemovalFails(c)
    <2>1. PICK ok \in BOOLEAN : calls' = [calls EXCEPT ![c] = Over(calls[c], ok)]
      BY <1>4 DEF RemovalAnswered, RemovalFails, IInv, CallsInv
    <2>2. WellFormed(Over(calls[c], ok)) /\ ~Asks(Over(calls[c], ok)) /\ ~Joined(Over(calls[c], ok))
      BY <1>2, OverFacts DEF WellFormed
    <2>3. QED
      BY <1>1, <1>2, <2>1, <2>2, NoPart
  <1>5. QED
    BY <1>3, <1>4

-----------------------------------------------------------------------------
(* The gateway and the supervisor act on a request. *)
LEMMA HeardFacts ==
    ASSUME NEW call, WellFormed(call), call.frame = "sent", NEW outcome
    PROVE  WellFormed(Heard(call, outcome)) /\ SameRole(call, Heard(call, outcome))
  <1>1. CASE call.stage = "waiting"
    BY <1>1 DEF Heard, WellFormed, CallFields, SameRole, Asks, Joined, AskingStages
  <1>2. CASE call.stage # "waiting"
    <2>1. ~Asks(call) /\ ~Joined(call)
      BY <1>2 DEF WellFormed, Asks, Joined, AskingStages
    <2>2. Heard(call, outcome) = [IdleCall EXCEPT !.ok = call.ok]
      BY <1>2 DEF Heard, Settled
    <2>3. WellFormed(Heard(call, outcome)) /\ ~Asks(Heard(call, outcome)) /\ ~Joined(Heard(call, outcome))
      BY <2>2 DEF IdleCall, WellFormed, CallFields, Asks, Joined, AskingStages
    <2>4. QED
      BY <2>1, <2>3 DEF SameRole
  <1>3. QED
    BY <1>1, <1>2

(* The id of a reconnection is given, another shell's is fresh. *)
LEMMA IdFacts ==
    ASSUME NEW call, WellFormed(call), NEW i, call.op = "reconnect" => i = call.id
    PROVE  WellFormed([call EXCEPT !.id = i]) /\ SameRole(call, [call EXCEPT !.id = i])
  BY DEF WellFormed, CallFields, SameRole, Asks, Joined, AskingStages

LEMMA SeenFacts ==
    ASSUME NEW call, WellFormed(call)
    PROVE  WellFormed([call EXCEPT !.seen = TRUE]) /\ SameRole(call, [call EXCEPT !.seen = TRUE])
  BY DEF WellFormed, CallFields, SameRole, Asks, Joined, AskingStages

LEMMA SupervisorCreatesStep ==
    ASSUME IInv, NEW c \in Calls, NEW i \in Ids, SupervisorCreates(c, i)
    PROVE  IInv'
  <1> DEFINE call == calls[c]
             named == [call EXCEPT !.id = i]
             heard == Heard(named, "made")
             e(d) == IF d = c THEN heard ELSE calls[d]
  <1>1. /\ WellFormed(call) /\ call.frame = "sent" /\ inFlight' = inFlight
        /\ call.op = "reconnect" => i = call.id
    BY DEF SupervisorCreates, IInv, CallsInv, deskVars
  <1>2. CASE i \in shells
    <2>1. calls' = [calls EXCEPT ![c] = Heard(call, "exists")]
      BY <1>2 DEF SupervisorCreates
    <2>2. QED
      BY <1>1, <2>1, HeardFacts, RoleStays
  <1>3. CASE i \notin shells
    <2>1. calls' = [d \in Calls |-> IF e(d).op = "reconnect" /\ e(d).id = i /\ e(d).stage # "done"
                                    THEN [e(d) EXCEPT !.seen = TRUE] ELSE e(d)]
      BY <1>3 DEF SupervisorCreates
    <2>2. WellFormed(named) /\ SameRole(call, named) /\ named.frame = "sent"
      <3>1. WellFormed(named) /\ SameRole(call, named)
        BY <1>1, IdFacts
      <3>2. named.frame = "sent"
        BY <1>1 DEF WellFormed, CallFields
      <3>3. QED
        BY <3>1, <3>2
    <2> HIDE DEF named
    <2>3. WellFormed(heard) /\ SameRole(named, heard)
      BY <2>2, HeardFacts
    <2>4. SameRole(call, heard)
      BY <2>2, <2>3 DEF SameRole
    <2> HIDE DEF heard
    <2>5. ASSUME NEW d \in Calls
          PROVE  WellFormed(calls'[d]) /\ SameRole(calls[d], calls'[d])
      <3>1. WellFormed(e(d)) /\ SameRole(calls[d], e(d))
        BY <2>3, <2>4 DEF IInv, CallsInv, SameRole
      <3> HIDE DEF e
      <3>2. calls'[d] = e(d) \/ calls'[d] = [e(d) EXCEPT !.seen = TRUE]
        BY <2>1
      <3>3. WellFormed([e(d) EXCEPT !.seen = TRUE]) /\ SameRole(e(d), [e(d) EXCEPT !.seen = TRUE])
        BY <3>1, SeenFacts
      <3>4. QED
        BY <3>1, <3>2, <3>3 DEF SameRole
    <2>6. DOMAIN calls' = Calls
      BY <2>1
    <2>7. QED
      BY <1>1, <2>5, <2>6, RolesStay
  <1>4. QED
    BY <1>2, <1>3

LEMMA SpawnFailsStep ==
    ASSUME IInv, NEW c \in Calls, SpawnFails(c)
    PROVE  IInv'
  <1>1. WellFormed(calls[c]) /\ calls[c].frame = "sent" /\ inFlight' = inFlight
    BY DEF SpawnFails, IInv, CallsInv, deskVars
  <1>2. calls' = [calls EXCEPT ![c] = Heard(calls[c], "error")]
    BY DEF SpawnFails, IInv, CallsInv
  <1>3. QED
    BY <1>1, <1>2, HeardFacts, RoleStays

LEMMA GatewayKillsStep ==
    ASSUME IInv, NEW c \in Calls, GatewayKills(c)
    PROVE  IInv'
  <1> DEFINE quiet == [calls[c] EXCEPT !.frame = "none"]
             next == IF calls[c].stage = "done" THEN Settled(calls[c]) ELSE quiet
  <1>1. ~Asks(calls[c]) /\ ~Joined(calls[c]) /\ DOMAIN calls[c] = CallFields /\ inFlight' = inFlight
    BY RemovesAreApart DEF GatewayKills, deskVars
  <1>2. calls' = [calls EXCEPT ![c] = next]
    BY DEF GatewayKills, IInv, CallsInv
  <1>3. WellFormed(quiet) /\ ~Asks(quiet) /\ ~Joined(quiet)
    BY <1>1 DEF WellFormed, CallFields, Asks, Joined, AskingStages
  <1>4. WellFormed(Settled(calls[c])) /\ ~Asks(Settled(calls[c])) /\ ~Joined(Settled(calls[c]))
    BY DEF Settled, IdleCall, WellFormed, CallFields, Asks, Joined, AskingStages
  <1> HIDE DEF quiet
  <1>5. WellFormed(next) /\ ~Asks(next) /\ ~Joined(next)
    BY <1>3, <1>4
  <1> HIDE DEF next
  <1>6. QED
    BY <1>1, <1>2, <1>5, NoPart

(* A broken connection leaves every call its part. *)
LEMMA BrokenFacts ==
    ASSUME IInv, NEW c \in Calls
    PROVE  WellFormed(Broken(c)) /\ SameRole(calls[c], Broken(c))
  <1>1. WellFormed(calls[c])
    BY DEF IInv, CallsInv
  <1>2. CASE calls[c].stage = "done"
    <2>1. Broken(c) = [IdleCall EXCEPT !.ok = calls[c].ok] /\ ~Asks(calls[c]) /\ ~Joined(calls[c])
      BY <1>2 DEF Broken, Settled, Asks, Joined, AskingStages
    <2>2. WellFormed(Broken(c)) /\ ~Asks(Broken(c)) /\ ~Joined(Broken(c))
      BY <2>1 DEF IdleCall, WellFormed, CallFields, Asks, Joined, AskingStages
    <2>3. QED
      BY <2>1, <2>2 DEF SameRole
  <1>3. CASE calls[c].stage # "done"
    BY <1>1, <1>3 DEF Broken, WellFormed, CallFields, SameRole, Asks, Joined, AskingStages
  <1>4. QED
    BY <1>2, <1>3

LEMMA RestartSteps ==
    ASSUME IInv, GatewayRestarts \/ SupervisorDies
    PROVE  IInv'
  <1>1. calls' = [c \in Calls |-> Broken(c)] /\ inFlight' = inFlight
    BY DEF GatewayRestarts, SupervisorDies, deskVars
  <1>2. QED
    BY <1>1, BrokenFacts, RolesStay

LEMMA DesktopRestartsStep ==
    ASSUME IInv, DesktopRestarts
    PROVE  IInv'
  <1>1. calls' = [c \in Calls |-> Over(calls[c], FALSE)] /\ inFlight' = [i \in Ids |-> NoCall]
    BY DEF DesktopRestarts
  <1>2. ASSUME NEW c \in Calls
        PROVE  WellFormed(calls'[c]) /\ ~Asks(calls'[c]) /\ ~Joined(calls'[c])
    <2>1. DOMAIN calls[c] = CallFields /\ calls'[c] = Over(calls[c], FALSE)
      BY <1>1 DEF IInv, CallsInv, WellFormed
    <2>2. QED
      BY <2>1, OverFacts
  <1>3. DOMAIN calls' = Calls /\ DOMAIN inFlight' = Ids /\ \A i \in Ids : inFlight'[i] = NoCall
    BY <1>1
  <1>4. QED
    BY <1>2, <1>3 DEF IInv, CallsInv, FlightInv

-----------------------------------------------------------------------------
LEMMA InitIInv == Init => IInv
  BY IdleCallFacts DEF Init, IInv, CallsInv, FlightInv

LEMMA NextIInv ==
    ASSUME IInv, [Next]_vars
    PROVE  IInv'
  <1>1. ASSUME NEW c \in Calls, DesktopCall(c) PROVE IInv'
    BY <1>1, StartCreateStep, StartReconnectStep, StartRemoveStep, ReadyStep, GiveUpStep,
       AnsweredStep, RemovalSteps DEF DesktopCall
  <1>2. CASE Elsewhere
    <2>1. ASSUME NEW c \in Calls, (\E i \in Ids : SupervisorCreates(c, i)) \/ SpawnFails(c) \/ GatewayKills(c)
          PROVE  IInv'
      BY <2>1, SupervisorCreatesStep, SpawnFailsStep, GatewayKillsStep
    <2>2. ASSUME NEW i \in Ids, GatewayHears(i) \/ ShellExits(i) \/ RemovalPosted(i)
                                \/ OthersCreate(i) \/ SessionEnds(i)
          PROVE  IInv'
      <3>1. UNCHANGED <<calls, inFlight>>
        BY <2>2 DEF GatewayHears, ShellExits, RemovalPosted, OthersCreate, SessionEnds, deskVars
      <3>2. QED
        BY <3>1, CallsStay
    <2>3. QED
      BY <1>2, <2>1, <2>2 DEF Elsewhere
  <1>3. CASE StartMirroring \/ Listen \/ MirrorReads \/ \E i \in Ids : CreateSession(i)
    <2>1. UNCHANGED <<calls, inFlight>>
      BY <1>3 DEF StartMirroring, MirrorBackend, Listen, MirrorReads, CreateSession
    <2>2. QED
      BY <2>1, CallsStay
  <1>4. CASE GatewayRestarts \/ SupervisorDies
    BY <1>4, RestartSteps
  <1>5. CASE DesktopRestarts
    BY <1>5, DesktopRestartsStep
  <1>6. CASE UNCHANGED vars
    BY <1>6, CallsStay DEF vars, deskVars
  <1>7. QED
    BY <1>1, <1>2, <1>3, <1>4, <1>5, <1>6 DEF Next

(* Two requests to reconnect a session are never under way at once, and    *)
(* whoever joined one has somebody to wait for (main.ts:3444-3455).        *)
THEOREM ReconnectsShared == Spec => []OneReconnect
  <1>1. IInv /\ [Next]_vars => IInv'
    BY NextIInv
  <1>2. QED
    BY <1>1, InitIInv, InvImplies, PTL DEF Spec

-----------------------------------------------------------------------------
(* What an "ok" stands for.  A call that wants a session reconnected has   *)
(* seen the shell if there is one, and also if any call of that session,   *)
(* the one it joined among them, has been told so by the supervisor.       *)
Wants(call) == call.op = "reconnect" /\ call.stage # "done"

Found(call) == call.frame \in {"made", "exists"}

Staged(call) ==
    \/ call.stage \in {"connect", "waiting", "broken", "joined", "done"}
    \/ call.stage \in {"post", "posted"} /\ call.op = "remove"

SeenInv ==
    /\ \A c \in Calls : Staged(calls[c])
    /\ \A c \in Calls : Wants(calls[c]) =>
          calls[c].id \in used /\ (calls[c].id \in shells => calls[c].seen)
    /\ \A c, d \in Calls : (/\ Wants(calls[c]) /\ Wants(calls[d]) /\ calls[c].id = calls[d].id
                            /\ Found(calls[c])) => calls[d].seen

(* The call goes from a to b, and is not answered "ok" without a shell.    *)
Answers(a, b) == Wants(a) /\ b.stage = "done" /\ b.ok => a.seen

(* It wants nothing new and has been told nothing new. *)
Keeps(a, b) ==
    /\ Staged(b)
    /\ Wants(b) => Wants(a) /\ b.id = a.id /\ (a.seen => b.seen)
    /\ Wants(b) /\ Found(b) => Found(a)

(* A step that keeps the invariant and answers well. *)
GoodStep == SeenInv' /\ \A c \in Calls : Answers(calls[c], calls'[c])

LEMMA AllKeep ==
    ASSUME SeenInv, used \subseteq used', shells' \cap used \subseteq shells,
           \A c \in Calls : Keeps(calls[c], calls'[c]) /\ Answers(calls[c], calls'[c])
    PROVE  GoodStep
  <1>1. \A c \in Calls : Staged(calls'[c])
    BY DEF Keeps
  <1>2. \A c \in Calls : Wants(calls'[c]) =>
            calls'[c].id \in used' /\ (calls'[c].id \in shells' => calls'[c].seen)
    BY DEF Keeps, SeenInv
  <1>3. ASSUME NEW c \in Calls, NEW d \in Calls, Wants(calls'[c]), Wants(calls'[d]),
               calls'[c].id = calls'[d].id, Found(calls'[c])
        PROVE  calls'[d].seen
    BY <1>3 DEF Keeps, SeenInv
  <1>4. QED
    BY <1>1, <1>2, <1>3 DEF GoodStep, SeenInv

LEMMA OneKeeps ==
    ASSUME IInv, SeenInv, used \subseteq used', shells' \cap used \subseteq shells,
           NEW c \in Calls, NEW call, calls' = [calls EXCEPT ![c] = call],
           Keeps(calls[c], call), Answers(calls[c], call)
    PROVE  GoodStep
  <1>1. ASSUME NEW d \in Calls
        PROVE  Keeps(calls[d], calls'[d]) /\ Answers(calls[d], calls'[d])
    <2>1. CASE d = c
      BY <2>1 DEF IInv, CallsInv
    <2>2. CASE d # c
      BY <2>2 DEF Keeps, Answers, SeenInv, Wants
    <2>3. QED
      BY <2>1, <2>2
  <1>2. QED
    BY <1>1, AllKeep

LEMMA SameCalls ==
    ASSUME SeenInv, used \subseteq used', shells' \cap used \subseteq shells, calls' = calls
    PROVE  GoodStep
  BY AllKeep DEF Keeps, Answers, SeenInv, Wants

(* A call that is over, or no reconnection, has nothing to prove. *)
LEMMA NotWanting ==
    ASSUME NEW a, NEW b, Staged(b), ~Wants(b), ~Wants(a) \/ (b.stage = "done" => b.ok = FALSE)
    PROVE  Keeps(a, b) /\ Answers(a, b)
  BY DEF Keeps, Answers

LEMMA OverIsDone ==
    ASSUME NEW call, DOMAIN call = CallFields, NEW ok
    PROVE  Over(call, ok).stage = "done" /\ Over(call, ok).ok = ok
  BY DEF Over, IdleCall, CallFields

LEMMA SettledIsDone == \A call : Settled(call).stage = "done" /\ Settled(call).op = "none"
  BY DEF Settled, IdleCall

LEMMA StartSteps ==
    ASSUME IInv, SeenInv, NEW c \in Calls,
           (\E kind \in {"pty", "ssh"} : StartCreate(c, kind)) \/ (\E i \in Ids : StartRemove(c, i))
    PROVE  GoodStep
  <1>1. PICK op \in {"pty", "ssh", "remove"}, i \in Ids \cup {"none"} : Begin(c, op, i, "connect")
    BY DEF StartCreate, StartRemove
  <1> DEFINE call == [op |-> op, id |-> i, stage |-> "connect", frame |-> "none", ok |-> FALSE,
                      seen |-> op = "reconnect" /\ i \in shells]
  <1>2. calls' = [calls EXCEPT ![c] = call]
    BY <1>1 DEF Begin
  <1>3. Keeps(calls[c], call) /\ Answers(calls[c], call)
    BY DEF Keeps, Answers, Wants, Staged
  <1> HIDE DEF call
  <1>4. used' = used /\ shells' = shells
    BY DEF StartCreate, StartRemove, farVars
  <1>5. QED
    BY <1>2, <1>3, <1>4, OneKeeps

(* A request that joins has seen what the one it joins has. *)
LEMMA StartReconnectSeen ==
    ASSUME IInv, SeenInv, NEW c \in Calls, NEW i \in Ids, StartReconnect(c, i)
    PROVE  GoodStep
  <1>1. used' = used /\ shells' = shells /\ ~Wants(calls[c])
    BY DEF StartReconnect, farVars, Idle, Wants
  <1>2. ASSUME NEW call, calls' = [calls EXCEPT ![c] = call],
               Staged(call), call.id \in used, call.id \in shells => call.seen, ~Found(call),
               \A d \in Calls \ {c} : (Wants(calls[d]) /\ calls[d].id = call.id /\ Found(calls[d])) => call.seen
        PROVE  GoodStep
    <2>1. calls'[c] = call /\ \A d \in Calls \ {c} : calls'[d] = calls[d]
      BY <1>2 DEF IInv, CallsInv
    <2>2. SeenInv'
      <3>1. \A d \in Calls : Staged(calls'[d])
        BY <1>2, <2>1 DEF SeenInv
      <3>2. \A d \in Calls : Wants(calls'[d]) =>
               calls'[d].id \in used' /\ (calls'[d].id \in shells' => calls'[d].seen)
        BY <1>1, <1>2, <2>1 DEF SeenInv
      <3>3. ASSUME NEW d \in Calls, NEW e \in Calls, Wants(calls'[d]), Wants(calls'[e]),
                   calls'[d].id = calls'[e].id, Found(calls'[d])
            PROVE  calls'[e].seen
        <4>1. d # c /\ calls'[d] = calls[d]
          BY <1>2, <2>1, <3>3
        <4>2. CASE e = c
          BY <1>2, <2>1, <3>3, <4>1, <4>2
        <4>3. CASE e # c
          BY <2>1, <3>3, <4>1, <4>3 DEF SeenInv
        <4>4. QED
          BY <4>2, <4>3
      <3>4. QED
        BY <3>1, <3>2, <3>3 DEF SeenInv
    <2>3. \A d \in Calls : Answers(calls[d], calls'[d])
      BY <1>1, <2>1 DEF Answers, Wants
    <2>4. QED
      BY <2>2, <2>3 DEF GoodStep
  <1>3. CASE inFlight[i] # NoCall
    <2> DEFINE leader == calls[inFlight[i]]
               call == [leader EXCEPT !.stage = "joined", !.frame = "none"]
    <2>1. calls' = [calls EXCEPT ![c] = call]
      BY <1>3 DEF StartReconnect
    <2>2. inFlight[i] \in Calls /\ Wants(leader) /\ leader.id = i /\ DOMAIN leader = CallFields
      BY <1>3 DEF IInv, CallsInv, FlightInv, WellFormed, Asks, AskingStages, Wants
    <2> HIDE DEF leader
    <2>3. Staged(call) /\ ~Found(call) /\ call.id = i /\ call.seen = leader.seen
      BY <2>2 DEF Staged, Found, CallFields
    <2>4. i \in used /\ (i \in shells => leader.seen)
      BY <2>2 DEF SeenInv, leader
    <2>5. \A d \in Calls : (Wants(calls[d]) /\ calls[d].id = i /\ Found(calls[d])) => leader.seen
      BY <2>2 DEF SeenInv, leader
    <2> HIDE DEF call
    <2>6. QED
      BY <1>2, <2>1, <2>3, <2>4, <2>5
  <1>4. CASE inFlight[i] = NoCall /\ Lookup(i) # "ssh"
    <2>1. calls' = [calls EXCEPT ![c] = IdleCall]
      BY <1>4 DEF StartReconnect
    <2>2. Keeps(calls[c], IdleCall) /\ Answers(calls[c], IdleCall)
      BY <1>1 DEF Keeps, Answers, IdleCall, Wants, Staged
    <2>3. QED
      BY <1>1, <2>1, <2>2, OneKeeps
  <1>5. CASE inFlight[i] = NoCall /\ Lookup(i) = "ssh"
    <2> DEFINE call == [op |-> "reconnect", id |-> i, stage |-> "connect", frame |-> "none",
                        ok |-> FALSE, seen |-> i \in shells]
    <2>1. calls' = [calls EXCEPT ![c] = call]
      BY <1>5 DEF StartReconnect, Begin
    <2>2. i \in used
      BY DEF StartReconnect
    <2>3. Staged(call) /\ ~Found(call) /\ call.id = i /\ (i \in shells => call.seen)
      BY DEF Staged, Found
    <2>4. ASSUME NEW d \in Calls, Wants(calls[d])
          PROVE  calls[d].id # i
      <3>1. Asks(calls[d]) \/ Joined(calls[d])
        BY <2>4 DEF SeenInv, Wants, Staged, Asks, AskingStages, Joined
      <3>2. inFlight[calls[d].id] # NoCall
        BY <3>1, DesktopAssumption DEF IInv, FlightInv
      <3>3. QED
        BY <1>5, <3>2
    <2> HIDE DEF call
    <2>5. QED
      BY <1>2, <2>1, <2>2, <2>3, <2>4
  <1>6. QED
    BY <1>3, <1>4, <1>5

(* "ok" goes to whoever joined, on the ground of what one call was told. *)
LEMMA FinishSeen ==
    ASSUME IInv, SeenInv, NEW c \in Calls, NEW ok, Finish(c, ok), calls[c].stage \in AskingStages,
           ok = FALSE \/ calls[c].op # "reconnect" \/ Found(calls[c]),
           used' = used, shells' = shells
    PROVE  GoodStep
  <1> DEFINE i == calls[c].id
             joined == IF calls[c].op = "reconnect"
                       THEN {d \in Calls : calls[d].stage = "joined" /\ calls[d].id = i} ELSE {}
  <1>1. calls' = [d \in Calls |-> IF d = c \/ d \in joined THEN Over(calls[d], ok) ELSE calls[d]]
    BY DEF Finish
  <1>2. \A d \in joined : calls[c].op = "reconnect" /\ calls[d].id = i
    OBVIOUS
  <1> HIDE DEF joined
  <1>3. ASSUME NEW d \in Calls, d = c \/ d \in joined
        PROVE  Keeps(calls[d], calls'[d]) /\ Answers(calls[d], calls'[d])
    <2>1. calls'[d].stage = "done" /\ calls'[d].ok = ok
      <3>1. calls'[d] = Over(calls[d], ok) /\ DOMAIN calls[d] = CallFields
        BY <1>1, <1>3 DEF IInv, CallsInv, WellFormed
      <3>2. QED
        BY <3>1, OverIsDone
    <2>2. Wants(calls[d]) /\ ok # FALSE => calls[d].seen
      <3>1. SUFFICES ASSUME Wants(calls[d]), ok # FALSE
                     PROVE  calls[d].seen
        OBVIOUS
      <3>2. calls[c].op = "reconnect" /\ calls[d].id = calls[c].id
        BY <1>2, <1>3, <3>1 DEF Wants
      <3>3. Wants(calls[c]) /\ Found(calls[c])
        BY <3>1, <3>2 DEF Wants, AskingStages
      <3>4. QED
        BY <3>1, <3>2, <3>3 DEF SeenInv
    <2>3. QED
      BY <2>1, <2>2 DEF Keeps, Answers, Staged, Wants
  <1>4. ASSUME NEW d \in Calls, ~(d = c \/ d \in joined)
        PROVE  Keeps(calls[d], calls'[d]) /\ Answers(calls[d], calls'[d])
    BY <1>1, <1>4 DEF Keeps, Answers, SeenInv, Wants
  <1>5. QED
    BY <1>3, <1>4, AllKeep

LEMMA AfterKillSeen ==
    ASSUME IInv, SeenInv, NEW c \in Calls, NEW frame, calls[c].op = "remove", AfterKill(c, frame),
           used' = used, shells' = shells
    PROVE  GoodStep
  <1> DEFINE sent == [calls[c] EXCEPT !.frame = frame]
             next == IF role = "mirror" THEN [sent EXCEPT !.stage = "post"] ELSE Over(sent, TRUE)
  <1>1. calls' = [calls EXCEPT ![c] = next]
    BY DEF AfterKill
  <1>2. DOMAIN calls[c] = CallFields
    BY DEF IInv, CallsInv, WellFormed
  <1>3. Staged(next) /\ ~Wants(next) /\ ~Wants(calls[c])
    BY <1>2 DEF Staged, Wants, Over, IdleCall, CallFields
  <1> HIDE DEF next
  <1>4. Keeps(calls[c], next) /\ Answers(calls[c], next)
    BY <1>3, NotWanting
  <1>5. QED
    BY <1>1, <1>4, OneKeeps

LEMMA AnswerSteps ==
    ASSUME IInv, SeenInv, NEW c \in Calls, Ready(c) \/ GiveUp(c) \/ Answered(c)
    PROVE  GoodStep
  <1>1. used' = used /\ shells' = shells
    BY DEF Ready, GiveUp, Answered, farVars
  <1>2. CASE calls[c].op = "remove" /\ (Ready(c) \/ GiveUp(c))
    BY <1>1, <1>2, AfterKillSeen DEF Ready, GiveUp
  <1>3. CASE calls[c].op # "remove" /\ ((Ready(c) /\ locked) \/ GiveUp(c))
    <2>1. Finish(c, FALSE) /\ calls[c].stage \in AskingStages
      BY <1>3 DEF Ready, GiveUp, AskingStages
    <2>2. QED
      BY <1>1, <2>1, FinishSeen
  <1>4. CASE calls[c].op # "remove" /\ Ready(c) /\ ~locked
    <2> DEFINE call == [calls[c] EXCEPT !.stage = "waiting", !.frame = "sent"]
    <2>1. calls' = [calls EXCEPT ![c] = call]
      BY <1>4 DEF Ready, IInv, CallsInv
    <2>2. DOMAIN calls[c] = CallFields /\ calls[c].stage = "connect"
      BY <1>4 DEF Ready, IInv, CallsInv, WellFormed
    <2>3. Keeps(calls[c], call) /\ Answers(calls[c], call)
      BY <2>2 DEF Keeps, Answers, Staged, Wants, Found, CallFields
    <2> HIDE DEF call
    <2>4. QED
      BY <1>1, <2>1, <2>3, OneKeeps
  <1>5. CASE Answered(c)
    <2> DEFINE ok == calls[c].frame \in {"made"} \cup (IF calls[c].op = "reconnect" THEN {"exists"} ELSE {})
    <2>1. Finish(c, ok) /\ calls[c].stage \in AskingStages
      BY <1>5 DEF Answered, AskingStages
    <2>2. ok = FALSE \/ Found(calls[c])
      BY DEF Found
    <2> HIDE DEF ok
    <2>3. QED
      BY <1>1, <2>1, <2>2, FinishSeen
  <1>6. QED
    BY <1>2, <1>3, <1>4, <1>5

LEMMA RemovalSeen ==
    ASSUME IInv, SeenInv, NEW c \in Calls, BackendRemoves(c) \/ RemovalAnswered(c) \/ RemovalFails(c)
    PROVE  GoodStep
  <1>1. /\ used' = used /\ shells' = shells
        /\ calls[c].op = "remove" /\ DOMAIN calls[c] = CallFields
    BY DEF BackendRemoves, RemovalAnswered, RemovalFails, farVars, SeenInv, Staged,
           IInv, CallsInv, WellFormed
  <1>2. PICK call : /\ calls' = [calls EXCEPT ![c] = call]
                    /\ \/ call = [calls[c] EXCEPT !.stage = "posted"]
                       \/ \E ok \in BOOLEAN : call = Over(calls[c], ok)
    BY DEF BackendRemoves, RemovalAnswered, RemovalFails, IInv, CallsInv
  <1>3. Staged(call) /\ ~Wants(call) /\ ~Wants(calls[c])
    BY <1>1, <1>2 DEF Staged, Wants, Over, IdleCall, CallFields
  <1>4. Keeps(calls[c], call) /\ Answers(calls[c], call)
    BY <1>3, NotWanting
  <1>5. QED
    BY <1>1, <1>2, <1>4, OneKeeps

(* A frame that was sent belongs to a call that waits or is over. *)
LEMMA SentFacts ==
    ASSUME IInv, SeenInv, NEW c \in Calls, calls[c].frame = "sent", calls[c].op # "remove"
    PROVE  calls[c].stage \in {"waiting", "done"} /\ DOMAIN calls[c] = CallFields
  BY DEF IInv, CallsInv, WellFormed, SeenInv, Staged

(* What the supervisor says of a session reaches all who want it: its      *)
(* shell is there, or starts now.                                          *)
LEMMA CreatesSeen ==
    ASSUME IInv, SeenInv, NEW c \in Calls, NEW i \in Ids, SupervisorCreates(c, i)
    PROVE  GoodStep
  <1> DEFINE call == calls[c]
  <1>1. /\ call.frame = "sent" /\ call.op # "remove"
        /\ call.op = "reconnect" => i = call.id
        /\ call.op # "reconnect" => i \notin used
        /\ used' = used \cup {i}
    BY DEF SupervisorCreates
  <1>2. call.stage \in {"waiting", "done"} /\ DOMAIN call = CallFields
    BY <1>1, SentFacts
  <1> HIDE DEF call
  <1>3. CASE i \in shells
    <2> DEFINE heard == Heard(call, "exists")
    <2>1. calls' = [calls EXCEPT ![c] = heard] /\ shells' = shells
      BY <1>3 DEF SupervisorCreates, call
    <2>2. /\ Staged(heard)
          /\ Wants(heard) => Wants(call) /\ heard.id = call.id /\ heard.seen = call.seen
          /\ heard.stage = "done" => call.stage = "done"
      BY <1>2 DEF Heard, Settled, IdleCall, Staged, Wants, CallFields
    <2> HIDE DEF heard
    <2>3. calls'[c] = heard /\ \A d \in Calls \ {c} : calls'[d] = calls[d]
      BY <2>1 DEF IInv, CallsInv
    <2>4. ASSUME NEW d \in Calls
          PROVE  /\ Staged(calls'[d])
                 /\ Wants(calls'[d]) => /\ Wants(calls[d]) /\ calls'[d].id = calls[d].id
                                        /\ calls'[d].seen = calls[d].seen
                 /\ calls'[d].stage = "done" => calls[d].stage = "done"
      BY <2>2, <2>3 DEF SeenInv, call
    <2>5. ASSUME NEW d \in Calls, NEW e \in Calls, Wants(calls'[d]), Wants(calls'[e]),
                 calls'[d].id = calls'[e].id, Found(calls'[d])
          PROVE  calls'[e].seen
      <3>1. CASE d = c
        <4>1. calls[e].id = i
          BY <1>1, <2>4, <2>5, <3>1 DEF Wants, call
        <4>2. calls[e].seen
          BY <1>3, <2>4, <2>5, <4>1 DEF SeenInv
        <4>3. QED
          BY <2>4, <2>5, <4>2
      <3>2. CASE d # c
        <4>1. Found(calls[d])
          BY <2>3, <2>5, <3>2
        <4>2. QED
          BY <2>4, <2>5, <4>1 DEF SeenInv
      <3>3. QED
        BY <3>1, <3>2
    <2>6. SeenInv'
      <3>1. \A d \in Calls : Wants(calls'[d]) =>
                calls'[d].id \in used' /\ (calls'[d].id \in shells' => calls'[d].seen)
        BY <1>1, <2>1, <2>4 DEF SeenInv
      <3>2. QED
        BY <2>4, <2>5, <3>1 DEF SeenInv
    <2>7. QED
      BY <2>4, <2>6 DEF GoodStep, Answers, Wants
  <1>4. CASE i \notin shells
    <2> DEFINE named == [call EXCEPT !.id = i]
               heard == Heard(named, "made")
               e(d) == IF d = c THEN heard ELSE calls[d]
    <2>1. /\ shells' = shells \cup {i}
          /\ calls' = [d \in Calls |-> IF e(d).op = "reconnect" /\ e(d).id = i /\ e(d).stage # "done"
                                       THEN [e(d) EXCEPT !.seen = TRUE] ELSE e(d)]
      BY <1>4 DEF SupervisorCreates, call
    <2>2. /\ Staged(heard) /\ DOMAIN heard = CallFields
          /\ Wants(heard) => Wants(call) /\ heard.id = call.id /\ call.id = i
          /\ heard.stage = "done" => call.stage = "done"
      BY <1>1, <1>2 DEF Heard, Settled, IdleCall, Staged, Wants, CallFields
    <2> HIDE DEF heard
    <2>3. ASSUME NEW d \in Calls
          PROVE  /\ Staged(e(d)) /\ DOMAIN e(d) = CallFields
                 /\ Wants(e(d)) => Wants(calls[d]) /\ e(d).id = calls[d].id
                 /\ e(d).stage = "done" => calls[d].stage = "done"
                 /\ Wants(e(d)) /\ e(d).id # i => e(d) = calls[d]
      BY <2>2 DEF SeenInv, IInv, CallsInv, WellFormed, call
    <2> HIDE DEF e
    <2>4. ASSUME NEW d \in Calls
          PROVE  /\ Staged(calls'[d])
                 /\ Wants(calls'[d]) => Wants(calls[d]) /\ calls'[d].id = calls[d].id
                 /\ calls'[d].stage = "done" => calls[d].stage = "done"
                 /\ Wants(calls'[d]) /\ calls'[d].id = i => calls'[d].seen
                 /\ Wants(calls'[d]) /\ calls'[d].id # i => calls'[d] = calls[d]
      <3>1. calls'[d] = IF Wants(e(d)) /\ e(d).id = i THEN [e(d) EXCEPT !.seen = TRUE] ELSE e(d)
        BY <2>1 DEF Wants
      <3>2. CASE Wants(e(d)) /\ e(d).id = i
        BY <2>3, <3>1, <3>2 DEF Wants, Staged, CallFields
      <3>3. CASE ~(Wants(e(d)) /\ e(d).id = i)
        BY <2>3, <3>1, <3>3
      <3>4. QED
        BY <3>2, <3>3
    <2>5. \A d \in Calls : Wants(calls'[d]) =>
              calls'[d].id \in used' /\ (calls'[d].id \in shells' => calls'[d].seen)
      BY <1>1, <2>1, <2>4 DEF SeenInv
    <2>6. ASSUME NEW d \in Calls, NEW f \in Calls, Wants(calls'[d]), Wants(calls'[f]),
                 calls'[d].id = calls'[f].id, Found(calls'[d])
          PROVE  calls'[f].seen
      <3>1. CASE calls'[f].id = i
        BY <2>4, <2>6, <3>1
      <3>2. CASE calls'[f].id # i
        BY <2>4, <2>6, <3>2 DEF SeenInv
      <3>3. QED
        BY <3>1, <3>2
    <2>7. QED
      BY <2>4, <2>5, <2>6 DEF GoodStep, SeenInv, Answers, Wants
  <1>5. QED
    BY <1>3, <1>4

LEMMA SpawnFailsSeen ==
    ASSUME IInv, SeenInv, NEW c \in Calls, SpawnFails(c)
    PROVE  GoodStep
  <1> DEFINE call == Heard(calls[c], "error")
  <1>1. calls' = [calls EXCEPT ![c] = call] /\ used' = used /\ shells' = shells
    BY DEF SpawnFails, IInv, CallsInv, farVars
  <1>2. calls[c].stage \in {"waiting", "done"} /\ DOMAIN calls[c] = CallFields
    BY SentFacts DEF SpawnFails
  <1>3. Keeps(calls[c], call) /\ Answers(calls[c], call)
    BY <1>2 DEF Heard, Settled, IdleCall, Keeps, Answers, Staged, Wants, Found, CallFields
  <1> HIDE DEF call
  <1>4. QED
    BY <1>1, <1>3, OneKeeps

LEMMA GatewayKillsSeen ==
    ASSUME IInv, SeenInv, NEW c \in Calls, GatewayKills(c)
    PROVE  GoodStep
  <1> DEFINE call == IF calls[c].stage = "done" THEN Settled(calls[c])
                     ELSE [calls[c] EXCEPT !.frame = "none"]
  <1>1. calls' = [calls EXCEPT ![c] = call] /\ used' = used /\ shells' \subseteq shells
    BY DEF GatewayKills, Ended, IInv, CallsInv
  <1>2. calls[c].op = "remove" /\ DOMAIN calls[c] = CallFields /\ Staged(calls[c])
    BY DEF GatewayKills, IInv, CallsInv, WellFormed, SeenInv
  <1>3. Staged(call) /\ ~Wants(call) /\ ~Wants(calls[c])
    BY <1>2, SettledIsDone DEF Staged, Wants, CallFields
  <1> HIDE DEF call
  <1>4. Keeps(calls[c], call) /\ Answers(calls[c], call)
    BY <1>3, NotWanting
  <1>5. QED
    BY <1>1, <1>4, OneKeeps

LEMMA RestartsSeen ==
    ASSUME IInv, SeenInv, GatewayRestarts \/ SupervisorDies \/ DesktopRestarts
    PROVE  GoodStep
  <1>1. used' = used /\ shells' \subseteq shells
    BY DEF GatewayRestarts, SupervisorDies, DesktopRestarts
  <1>2. ASSUME NEW c \in Calls
        PROVE  Keeps(calls[c], calls'[c]) /\ Answers(calls[c], calls'[c])
    <2>1. DOMAIN calls[c] = CallFields /\ Staged(calls[c])
      BY DEF IInv, CallsInv, WellFormed, SeenInv
    <2>2. CASE DesktopRestarts
      <3>1. calls'[c] = Over(calls[c], FALSE)
        BY <2>2 DEF DesktopRestarts
      <3>2. calls'[c].stage = "done" /\ calls'[c].ok = FALSE
        <4>1. Over(calls[c], FALSE).stage = "done" /\ Over(calls[c], FALSE).ok = FALSE
          BY <2>1, OverIsDone
        <4>2. QED
          BY <3>1, <4>1, Zenon
      <3>3. QED
        BY <3>2 DEF Keeps, Answers, Staged, Wants
    <2>3. CASE GatewayRestarts \/ SupervisorDies
      <3>1. calls'[c] = Broken(c)
        BY <2>3 DEF GatewayRestarts, SupervisorDies
      <3>2. CASE calls[c].stage = "done"
        BY <3>1, <3>2, SettledIsDone DEF Broken, Keeps, Answers, Staged, Wants
      <3>3. CASE calls[c].stage # "done"
        BY <2>1, <3>1, <3>3 DEF Broken, Keeps, Answers, Staged, Wants, Found, CallFields
      <3>4. QED
        BY <3>2, <3>3
    <2>4. QED
      BY <2>2, <2>3
  <1>3. QED
    BY <1>1, <1>2, AllKeep

LEMMA InitSeen == Init => SeenInv
  <1> SUFFICES ASSUME Init PROVE SeenInv
    OBVIOUS
  <1>1. IdleCall.stage = "done"
    BY DEF IdleCall
  <1>2. \A c \in Calls : calls[c] = IdleCall
    BY DEF Init
  <1>3. Staged(IdleCall) /\ ~Wants(IdleCall)
    BY <1>1 DEF Staged, Wants
  <1>4. QED
    BY <1>2, <1>3 DEF SeenInv

LEMMA NextSeen ==
    ASSUME IInv, SeenInv, [Next]_vars
    PROVE  GoodStep
  <1>1. ASSUME NEW c \in Calls, DesktopCall(c) PROVE GoodStep
    BY <1>1, StartSteps, StartReconnectSeen, AnswerSteps, RemovalSeen DEF DesktopCall
  <1>2. CASE Elsewhere
    <2>1. ASSUME NEW c \in Calls, (\E i \in Ids : SupervisorCreates(c, i)) \/ SpawnFails(c) \/ GatewayKills(c)
          PROVE  GoodStep
      BY <2>1, CreatesSeen, SpawnFailsSeen, GatewayKillsSeen
    <2>2. ASSUME NEW i \in Ids, GatewayHears(i) \/ ShellExits(i) \/ RemovalPosted(i)
                                \/ OthersCreate(i) \/ SessionEnds(i)
          PROVE  GoodStep
      <3>1. calls' = calls /\ used \subseteq used' /\ shells' \cap used \subseteq shells
        BY <2>2 DEF GatewayHears, ShellExits, Ended, RemovalPosted, OthersCreate, SessionEnds, farVars
      <3>2. QED
        BY <3>1, SameCalls
    <2>3. QED
      BY <1>2, <2>1, <2>2 DEF Elsewhere
  <1>3. CASE StartMirroring \/ Listen \/ MirrorReads \/ \E i \in Ids : CreateSession(i)
    <2>1. calls' = calls /\ used \subseteq used' /\ shells' = shells
      BY <1>3 DEF StartMirroring, MirrorBackend, Listen, MirrorReads, CreateSession, farVars
    <2>2. QED
      BY <2>1, SameCalls
  <1>4. CASE GatewayRestarts \/ SupervisorDies \/ DesktopRestarts
    BY <1>4, RestartsSeen
  <1>5. CASE UNCHANGED vars
    BY <1>5, SameCalls DEF vars, farVars
  <1>6. QED
    BY <1>1, <1>2, <1>3, <1>4, <1>5 DEF Next

(* A reconnect is answered "ok" only if a shell of that id was there at    *)
(* some time since the request, or the one it joined, began, though        *)
(* "already exists" is taken for success (main.ts:3477-3484).              *)
THEOREM OkAlwaysMeansShell == Spec => OkMeansShell
  <1>1. Init => IInv /\ SeenInv
    BY InitIInv, InitSeen
  <1>2. (IInv /\ SeenInv) /\ [Next]_vars => (IInv /\ SeenInv)'
    BY NextIInv, NextSeen DEF GoodStep
  <1>3. (IInv /\ SeenInv) /\ [Next]_vars =>
          [\A c \in Calls :
             (calls[c].op = "reconnect" /\ calls[c].stage # "done" /\ calls'[c].stage = "done" /\ calls'[c].ok)
             => calls[c].seen]_vars
    BY NextSeen DEF GoodStep, Answers, Wants
  <1>4. QED
    BY <1>1, <1>2, <1>3, PTL DEF Spec, OkMeansShell

-----------------------------------------------------------------------------
(* No shell is left without a session. *)
(* A list of sessions that holds none but ids that were given out. *)
Fits(u) == {m \in [Ids -> Kinds] : \A i \in Ids \ u : m[i] = "none"}

ListsInv ==
    /\ used \subseteq Ids
    /\ manager \in Fits(used) /\ saved \in Fits(used) /\ backend \in Fits(used)
    /\ mirror \in Fits(used) \cup {NoList}
    /\ news \in Seq(Fits(used))

CallFits(call, u) ==
    /\ call.op \in {"none", "pty", "ssh", "reconnect", "remove"}
    /\ call.op = "none" => call.stage = "done"
    /\ call.op = "remove" => call.id \in u /\ call.frame \in {"none", "sent"} /\ call.stage # "waiting"
    /\ call.frame = "made" => call.id \in u

(* The call is about to register the shell, or to kill it.  A reconnection *)
(* does not count: its answer registers nothing.                           *)
Covers(call, i) ==
    /\ call.id = i
    /\ \/ call.frame = "made" /\ call.stage = "waiting" /\ call.op # "reconnect"
       \/ call.frame = "sent" /\ call.op = "remove"

(* The call is about to take the session from the backend. *)
Going(call) == call.op = "remove" /\ call.stage \in {"post", "posted"}

Bare == shells \ excused

Held(i) == Registered(i) \/ \E c \in Calls : Covers(calls[c], i)

(* The inductive invariant of NoOrphans. *)
HeldInv ==
    /\ ListsInv
    /\ \A c \in Calls : CallFits(calls[c], used)
    /\ \A c \in Calls : Going(calls[c]) /\ calls[c].id \in Bare => calls[c].frame = "sent"
    /\ \A i \in Bare : i \in Ids /\ Held(i)

LEMMA HeldImplies == HeldInv => NoOrphans
  BY DEF HeldInv, Held, NoOrphans, Bare, Covers

-----------------------------------------------------------------------------
(* The lists. *)
LEMMA FitsGrow ==
    ASSUME NEW u, NEW w, u \subseteq w
    PROVE  Fits(u) \subseteq Fits(w) /\ Seq(Fits(u)) \subseteq Seq(Fits(w))
  <1>1. Fits(u) \subseteq Fits(w)
    BY DEF Fits
  <1>2. QED
    BY <1>1, SeqMonotonic

LEMMA FitsSet ==
    ASSUME NEW u, NEW m \in Fits(u), NEW i \in Ids, NEW kind \in Kinds, kind = "none" \/ i \in u
    PROVE  /\ [m EXCEPT ![i] = kind] \in Fits(u)
           /\ \A k \in Ids : [m EXCEPT ![i] = kind][k] = IF k = i THEN kind ELSE m[k]
  BY DEF Fits

LEMMA NothingFits == \A u : Nothing \in Fits(u)
  BY DEF Nothing, Fits, Kinds

LEMMA ToSaveFits ==
    ASSUME NEW u, NEW m \in Fits(u)
    PROVE  ToSave(m) \in Fits(u)
  BY DEF ToSave, Fits, Kinds

LEMMA SetEntryFacts ==
    ASSUME NEW u, manager \in Fits(u), NEW i \in Ids, NEW kind \in Kinds, kind = "none" \/ i \in u,
           SetEntry(i, kind)
    PROVE  /\ manager' \in Fits(u) /\ saved' \in Fits(u)
           /\ \A k \in Ids : manager'[k] = IF k = i THEN kind ELSE manager[k]
  <1>1. manager' = [manager EXCEPT ![i] = kind] /\ saved' = ToSave(manager')
    BY DEF SetEntry
  <1>2. /\ [manager EXCEPT ![i] = kind] \in Fits(u)
        /\ \A k \in Ids : [manager EXCEPT ![i] = kind][k] = IF k = i THEN kind ELSE manager[k]
    BY FitsSet
  <1>3. ToSave(manager') \in Fits(u)
    BY <1>1, <1>2, ToSaveFits
  <1>4. QED
    BY <1>1, <1>2, <1>3, Zenon

LEMMA SetBackendFacts ==
    ASSUME NEW u, backend \in Fits(u), news \in Seq(Fits(u)), NEW i \in Ids, NEW kind \in Kinds,
           kind = "none" \/ i \in u, SetBackend(i, kind)
    PROVE  /\ backend' \in Fits(u) /\ news' \in Seq(Fits(u))
           /\ \A k \in Ids : backend'[k] = IF k = i THEN kind ELSE backend[k]
  <1>1. backend' = [backend EXCEPT ![i] = kind]
    BY DEF SetBackend
  <1>2. /\ [backend EXCEPT ![i] = kind] \in Fits(u)
        /\ \A k \in Ids : [backend EXCEPT ![i] = kind][k] = IF k = i THEN kind ELSE backend[k]
    BY FitsSet
  <1>3. /\ backend' \in Fits(u)
        /\ \A k \in Ids : backend'[k] = IF k = i THEN kind ELSE backend[k]
    BY <1>1, <1>2, Zenon
  <1>4. Append(news, backend') \in Seq(Fits(u))
    BY <1>3, AppendProperties
  <1>5. news' = Append(news, backend') \/ news' = news
    BY DEF SetBackend
  <1>6. QED
    BY <1>3, <1>4, <1>5

LEMMA ListsStay ==
    ASSUME HeldInv, used \subseteq used'
    PROVE  /\ manager \in Fits(used') /\ saved \in Fits(used') /\ backend \in Fits(used')
           /\ mirror \in Fits(used') \cup {NoList}
           /\ news \in Seq(Fits(used'))
  BY FitsGrow DEF HeldInv, ListsInv

LEMMA CallGrows ==
    ASSUME NEW call, NEW u, NEW w, u \subseteq w, CallFits(call, u)
    PROVE  CallFits(call, w)
  BY DEF CallFits

-----------------------------------------------------------------------------
(* Steps: every shell that is bare afterwards is held afterwards. *)
LEMMA Holds ==
    ASSUME HeldInv, ListsInv',
           \A i \in Bare' \ Bare : i \in Ids /\ Held(i)',
           \A d \in Calls : CallFits(calls'[d], used'),
           \A d \in Calls : Going(calls'[d]) /\ calls'[d].id \in Bare' => calls'[d].frame = "sent",
           \A i \in Bare' : i \in Ids /\ Registered(i) => Held(i)',
           \A d \in Calls, i \in Bare' : i \in Ids /\ Covers(calls[d], i) => Held(i)'
    PROVE  HeldInv'
  <1>1. ASSUME NEW i \in Bare'
        PROVE  i \in Ids /\ Held(i)'
    <2>1. CASE i \in Bare
      BY <2>1 DEF HeldInv, Held
    <2>2. CASE i \notin Bare
      BY <2>2
    <2>3. QED
      BY <2>1, <2>2
  <1>2. QED
    BY <1>1 DEF HeldInv

(* The lists change, the calls do not. *)
LEMMA ListsMove ==
    ASSUME HeldInv, ListsInv', calls' = calls, used \subseteq used', Bare' \subseteq Bare,
           \A i \in Bare' : i \in Ids /\ Registered(i) => Held(i)'
    PROVE  HeldInv'
  <1>1. \A d \in Calls : CallFits(calls'[d], used')
    BY CallGrows DEF HeldInv
  <1>2. \A d \in Calls : Going(calls'[d]) /\ calls'[d].id \in Bare' => calls'[d].frame = "sent"
    BY DEF HeldInv
  <1>3. \A d \in Calls, i \in Bare' : Covers(calls[d], i) => Held(i)'
    BY DEF Held
  <1>4. QED
    BY <1>1, <1>2, <1>3, Holds

(* The call goes from a to b and still covers what it covered. *)
Minds(a, b) ==
    /\ CallFits(b, used)
    /\ Going(b) /\ b.id \in Bare' => b.frame = "sent"
    /\ \A i \in Bare' : i \in Ids /\ Covers(a, i) => Registered(i)' \/ Covers(b, i)

LEMMA CallsMove ==
    ASSUME HeldInv, ListsInv', used' = used, Bare' \subseteq Bare,
           \A i \in Bare' : i \in Ids /\ Registered(i) => Held(i)',
           \A d \in Calls : Minds(calls[d], calls'[d])
    PROVE  HeldInv'
  <1>1. \A d \in Calls, i \in Bare' : i \in Ids /\ Covers(calls[d], i) => Held(i)'
    BY DEF Minds, Held
  <1>2. QED
    BY <1>1, Holds DEF Minds

LEMMA CallMoves ==
    ASSUME IInv, HeldInv, ListsInv', used' = used, Bare' \subseteq Bare,
           NEW c \in Calls, NEW call, calls' = [calls EXCEPT ![c] = call], Minds(calls[c], call),
           \A i \in Bare' : i \in Ids /\ Registered(i) => Registered(i)' \/ Covers(call, i)
    PROVE  HeldInv'
  <1>1. calls'[c] = call /\ \A d \in Calls \ {c} : calls'[d] = calls[d]
    BY DEF IInv, CallsInv
  <1>2. \A i \in Bare' : i \in Ids /\ Registered(i) => Held(i)'
    BY <1>1 DEF Held
  <1>3. ASSUME NEW d \in Calls PROVE Minds(calls[d], calls'[d])
    <2>1. CASE d = c
      BY <1>1, <2>1
    <2>2. CASE d # c
      BY <1>1, <2>2 DEF Minds, HeldInv
    <2>3. QED
      BY <2>1, <2>2
  <1>4. QED
    BY <1>2, <1>3, CallsMove

(* The lists and the shells stay: only the call moves. *)
LEMMA OnlyCallMoves ==
    ASSUME IInv, HeldInv, UNCHANGED <<manager, saved, backend, mirror, news, used>>, Bare' \subseteq Bare,
           NEW c \in Calls, NEW call, calls' = [calls EXCEPT ![c] = call], Minds(calls[c], call)
    PROVE  HeldInv'
  <1>1. ListsInv'
    BY DEF HeldInv, ListsInv
  <1>2. \A i : Registered(i)' <=> Registered(i)
    BY DEF Registered
  <1>3. QED
    BY <1>1, <1>2, CallMoves

-----------------------------------------------------------------------------
(* The steps of the lists. *)
LEMMA BareSame == UNCHANGED <<shells, excused>> => Bare' = Bare
  BY DEF Bare

LEMMA RegisteredSame == UNCHANGED <<manager, backend>> => \A i : Registered(i)' <=> Registered(i)
  BY DEF Registered

LEMMA StartHeld ==
    ASSUME HeldInv, StartMirroring \/ Listen \/ MirrorReads
    PROVE  HeldInv'
  <1>1. /\ UNCHANGED <<manager, saved, backend, shells, excused, calls, used>>
        /\ \/ mirror' = mirror /\ (news' = news \/ news' = <<backend>> \/ news' = <<>>)
           \/ news # <<>> /\ mirror' = Head(news) /\ news' = Tail(news)
    BY DEF StartMirroring, MirrorBackend, Listen, MirrorReads, farVars
  <1>2. /\ mirror' \in Fits(used) \cup {NoList} /\ news' \in Seq(Fits(used))
    <2>1. news \in Seq(Fits(used)) /\ mirror \in Fits(used) \cup {NoList} /\ backend \in Fits(used)
      BY DEF HeldInv, ListsInv
    <2>2. <<backend>> \in Seq(Fits(used)) /\ <<>> \in Seq(Fits(used))
      BY <2>1
    <2>3. CASE news # <<>> /\ mirror' = Head(news) /\ news' = Tail(news)
      BY <2>1, <2>3, HeadTailProperties
    <2>4. QED
      BY <1>1, <2>1, <2>2, <2>3
  <1>3. ListsInv'
    BY <1>1, <1>2 DEF HeldInv, ListsInv
  <1>4. Bare' \subseteq Bare /\ (\A i : Registered(i) => Held(i)')
    BY <1>1, BareSame, RegisteredSame DEF Held
  <1>5. QED
    BY <1>1, <1>3, <1>4, ListsMove DEF HeldInv

(* An entry is made for a fresh id, or one of the desktop's own ends: the  *)
(* session stays on a list.                                                *)
LEMMA EntryHeld ==
    ASSUME HeldInv, NEW i \in Ids, CreateSession(i) \/ SessionEnds(i)
    PROVE  HeldInv'
  <1>1. PICK kind \in {"pty", "over"} : SetEntry(i, kind) /\ i \in used'
    <2>1. CASE CreateSession(i)
      BY <2>1 DEF CreateSession
    <2>2. CASE SessionEnds(i)
      BY <2>2 DEF SessionEnds, HeldInv, ListsInv, Fits
    <2>3. QED
      BY <2>1, <2>2
  <1>2. /\ UNCHANGED <<mirror, news, backend, shells, excused, calls>>
        /\ used \subseteq used' /\ used' \subseteq Ids
    BY DEF CreateSession, SessionEnds, farVars, HeldInv, ListsInv
  <1>3. /\ manager \in Fits(used') /\ backend \in Fits(used')
        /\ mirror \in Fits(used') \cup {NoList} /\ news \in Seq(Fits(used'))
    BY <1>2, ListsStay
  <1>4. kind \in Kinds /\ kind # "none"
    BY DEF Kinds
  <1>5. /\ manager' \in Fits(used') /\ saved' \in Fits(used')
        /\ \A k \in Ids : manager'[k] = IF k = i THEN kind ELSE manager[k]
    BY <1>1, <1>3, <1>4, SetEntryFacts
  <1>6. ListsInv'
    BY <1>2, <1>3, <1>5 DEF ListsInv
  <1>7. \A k \in Ids : Registered(k) => Registered(k)'
    BY <1>2, <1>4, <1>5 DEF Registered
  <1>8. Bare' \subseteq Bare /\ \A k \in Bare : k \in Ids
    BY <1>2, BareSame DEF HeldInv
  <1>9. QED
    BY <1>2, <1>6, <1>7, <1>8, ListsMove DEF Held

(* The gateway learns of a shell, or a shell ends. *)
LEMMA ShellsHeld ==
    ASSUME HeldInv, NEW i \in Ids, GatewayHears(i) \/ ShellExits(i)
    PROVE  HeldInv'
  <1>1. /\ UNCHANGED <<manager, saved, mirror, news, backend, calls, used>>
        /\ Bare' \subseteq Bare
    BY DEF GatewayHears, ShellExits, Ended, deskVars, Bare
  <1>2. ListsInv'
    BY <1>1 DEF HeldInv, ListsInv
  <1>3. \A k \in Bare' : k \in Ids /\ Registered(k) => Held(k)'
    BY <1>1, RegisteredSame DEF Held
  <1>4. QED
    BY <1>1, <1>2, <1>3, ListsMove

(* A removal is posted: what the backend forgets is excused. *)
LEMMA PostedHeld ==
    ASSUME HeldInv, NEW i \in Ids, RemovalPosted(i)
    PROVE  HeldInv'
  <1>1. UNCHANGED <<manager, saved, mirror, shells, calls, used>>
    BY DEF RemovalPosted, deskVars
  <1>2. CASE backend[i] = "none"
    <2>1. UNCHANGED <<backend, news, excused>>
      BY <1>2 DEF RemovalPosted
    <2>2. ListsInv'
      BY <1>1, <2>1 DEF HeldInv, ListsInv
    <2>3. Bare' \subseteq Bare /\ \A k \in Bare' : Registered(k) => Held(k)'
      BY <1>1, <2>1, BareSame, RegisteredSame DEF Held
    <2>4. QED
      BY <1>1, <2>2, <2>3, ListsMove
  <1>3. CASE backend[i] # "none"
    <2>1. SetBackend(i, "none") /\ excused' = excused \cup (shells \cap {i})
      BY <1>3 DEF RemovalPosted
    <2>2. backend \in Fits(used) /\ news \in Seq(Fits(used)) /\ "none" \in Kinds
      BY DEF HeldInv, ListsInv, Kinds
    <2>3. /\ backend' \in Fits(used) /\ news' \in Seq(Fits(used))
          /\ \A k \in Ids : backend'[k] = IF k = i THEN "none" ELSE backend[k]
      BY <2>1, <2>2, SetBackendFacts
    <2>4. ListsInv'
      BY <1>1, <2>3 DEF HeldInv, ListsInv
    <2>5. Bare' \subseteq Bare /\ \A k \in Bare' : k # i
      BY <1>1, <2>1 DEF Bare
    <2>6. \A k \in Bare' : k \in Ids /\ Registered(k) => Registered(k)'
      BY <1>1, <2>3, <2>5 DEF Registered
    <2>7. QED
      BY <1>1, <2>4, <2>5, <2>6, ListsMove DEF Held
  <1>4. QED
    BY <1>2, <1>3

(* Somebody else's shell comes with its session. *)
LEMMA OthersHeld ==
    ASSUME HeldInv, NEW i \in Ids, OthersCreate(i)
    PROVE  HeldInv'
  <1>1. /\ UNCHANGED <<manager, saved, mirror, excused, calls>>
        /\ shells' = shells \cup {i} /\ used' = used \cup {i} /\ i \notin used
        /\ SetBackend(i, "ssh") /\ used' \subseteq Ids
    BY DEF OthersCreate, deskVars, HeldInv, ListsInv
  <1>2. /\ manager \in Fits(used') /\ saved \in Fits(used') /\ backend \in Fits(used')
        /\ mirror \in Fits(used') \cup {NoList} /\ news \in Seq(Fits(used'))
    BY <1>1, ListsStay
  <1>3. /\ backend' \in Fits(used') /\ news' \in Seq(Fits(used'))
        /\ \A k \in Ids : backend'[k] = IF k = i THEN "ssh" ELSE backend[k]
    BY <1>1, <1>2, SetBackendFacts DEF Kinds
  <1>4. ListsInv'
    BY <1>1, <1>2, <1>3 DEF ListsInv
  <1>5. \A k \in Ids : Registered(k) \/ k = i => Registered(k)'
    BY <1>1, <1>3 DEF Registered
  <1>6. \A k \in Bare' \ Bare : k = i
    BY <1>1 DEF Bare
  <1>7. \A d \in Calls : CallFits(calls'[d], used')
    BY <1>1, CallGrows DEF HeldInv
  <1>8. ASSUME NEW d \in Calls, Going(calls'[d]), calls'[d].id \in Bare'
        PROVE  calls'[d].frame = "sent"
    <2>1. Going(calls[d]) /\ calls[d].id \in used
      BY <1>1, <1>8 DEF HeldInv, Going, CallFits
    <2>2. calls[d].id \in Bare
      BY <1>1, <1>6, <1>8, <2>1
    <2>3. QED
      BY <1>1, <2>1, <2>2 DEF HeldInv
  <1>9. \A d \in Calls, k \in Bare' : Covers(calls[d], k) => Held(k)'
    BY <1>1 DEF Held
  <1>10. QED
    BY <1>4, <1>5, <1>6, <1>7, <1>8, <1>9, Holds DEF Held
-----------------------------------------------------------------------------
(* What becomes of a call. *)
LEMMA CallShape ==
    ASSUME IInv, SeenInv, HeldInv, NEW c \in Calls
    PROVE  /\ DOMAIN calls[c] = CallFields /\ WellFormed(calls[c]) /\ Staged(calls[c])
           /\ CallFits(calls[c], used)
           /\ Wants(calls[c]) => calls[c].id \in used
  BY DEF IInv, CallsInv, WellFormed, SeenInv, HeldInv

LEMMA OverMinds ==
    ASSUME NEW call, DOMAIN call = CallFields, NEW u, CallFits(call, u), NEW ok
    PROVE  /\ CallFits(Over(call, ok), u) /\ ~Going(Over(call, ok))
           /\ \A i : Covers(call, i) /\ call.frame = "sent" => Covers(Over(call, ok), i)
  <1>1. CASE call.frame = "sent"
    <2> DEFINE over == [call EXCEPT !.stage = "done", !.ok = ok, !.seen = FALSE]
    <2>1. Over(call, ok) = over
      BY <1>1 DEF Over
    <2>2. over.op = call.op /\ over.id = call.id /\ over.frame = call.frame /\ over.stage = "done"
      BY DEF CallFields
    <2> HIDE DEF over
    <2>3. QED
      BY <1>1, <2>1, <2>2 DEF CallFits, Going, Covers
  <1>2. CASE call.frame # "sent"
    <2> DEFINE over == [IdleCall EXCEPT !.ok = ok]
    <2>1. Over(call, ok) = over
      BY <1>2 DEF Over
    <2>2. over.op = "none" /\ over.frame = "none" /\ over.stage = "done"
      BY DEF IdleCall
    <2> HIDE DEF over
    <2>3. QED
      BY <1>2, <2>1, <2>2 DEF CallFits, Going
  <1>3. QED
    BY <1>1, <1>2

LEMMA SettledMinds ==
    ASSUME NEW call, NEW u
    PROVE  CallFits(Settled(call), u) /\ ~Going(Settled(call))
  <1> DEFINE over == [IdleCall EXCEPT !.ok = call.ok]
  <1>1. Settled(call) = over
    BY DEF Settled
  <1>2. over.op = "none" /\ over.frame = "none" /\ over.stage = "done"
    BY DEF IdleCall
  <1> HIDE DEF over
  <1>3. QED
    BY <1>1, <1>2 DEF CallFits, Going

LEMMA HeardMinds ==
    ASSUME NEW call, DOMAIN call = CallFields, NEW u, CallFits(call, u), call.op # "remove",
           NEW outcome, outcome \in {"made", "exists", "error"}, outcome = "made" => call.id \in u
    PROVE  /\ CallFits(Heard(call, outcome), u) /\ ~Going(Heard(call, outcome))
           /\ outcome = "made" /\ call.stage = "waiting" /\ call.op # "reconnect"
                => Covers(Heard(call, outcome), call.id)
  <1>1. CASE call.stage = "waiting"
    <2> DEFINE heard == [call EXCEPT !.frame = outcome]
    <2>1. Heard(call, outcome) = heard
      BY <1>1 DEF Heard
    <2>2. heard.op = call.op /\ heard.id = call.id /\ heard.frame = outcome /\ heard.stage = "waiting"
      BY <1>1 DEF CallFields
    <2> HIDE DEF heard
    <2>3. QED
      BY <1>1, <2>1, <2>2 DEF CallFits, Going, Covers
  <1>2. CASE call.stage # "waiting"
    BY <1>2, SettledMinds DEF Heard
  <1>3. QED
    BY <1>1, <1>2

(* A call whose frame was not sent, and who was not told "made", covers    *)
(* nothing.                                                                *)
LEMMA CoversNothing ==
    ASSUME NEW call, call.frame \notin {"sent", "made"}
    PROVE  \A i : ~Covers(call, i)
  BY DEF Covers

LEMMA StagesCoverNothing ==
    ASSUME NEW call, WellFormed(call), call.stage \in {"connect", "broken", "joined"}
    PROVE  \A i : ~Covers(call, i)
  BY DEF WellFormed, Covers

LEMMA StartsHeld ==
    ASSUME IInv, HeldInv, NEW c \in Calls,
           \/ \E kind \in {"pty", "ssh"} : StartCreate(c, kind)
           \/ \E i \in Ids : StartReconnect(c, i) \/ StartRemove(c, i)
    PROVE  HeldInv'
  <1>1. UNCHANGED <<manager, saved, backend, mirror, news, used, shells, excused>>
    BY DEF StartCreate, StartReconnect, StartRemove, deskVars, farVars
  <1>2. Idle(c)
    BY DEF StartCreate, StartReconnect, StartRemove
  <1>3. \A i : ~Covers(calls[c], i)
    BY <1>2 DEF Idle, Covers
  <1>4. Bare' \subseteq Bare
    BY <1>1, BareSame
  <1>5. ASSUME NEW call, calls' = [calls EXCEPT ![c] = call], CallFits(call, used), ~Going(call)
        PROVE  HeldInv'
    <2>1. Minds(calls[c], call)
      BY <1>3, <1>5 DEF Minds
    <2>2. QED
      BY <1>1, <1>4, <1>5, <2>1, OnlyCallMoves
  <1>6. ASSUME NEW op \in {"pty", "ssh", "reconnect", "remove"}, NEW i, Begin(c, op, i, "connect"),
               op = "remove" => i \in used
        PROVE  HeldInv'
    <2> DEFINE call == [op |-> op, id |-> i, stage |-> "connect", frame |-> "none", ok |-> FALSE,
                        seen |-> op = "reconnect" /\ i \in shells]
    <2>1. calls' = [calls EXCEPT ![c] = call]
      BY <1>6 DEF Begin
    <2>2. CallFits(call, used) /\ ~Going(call)
      BY <1>6 DEF CallFits, Going
    <2> HIDE DEF call
    <2>3. QED
      BY <1>5, <2>1, <2>2
  <1>7. ASSUME NEW kind \in {"pty", "ssh"}, StartCreate(c, kind) PROVE HeldInv'
    BY <1>6, <1>7 DEF StartCreate
  <1>8. ASSUME NEW i \in Ids, StartRemove(c, i) PROVE HeldInv'
    <2>1. i \in used
      BY <1>8 DEF StartRemove, Shown, HeldInv, ListsInv, Fits
    <2>2. QED
      BY <1>6, <1>8, <2>1 DEF StartRemove
  <1>9. ASSUME NEW i \in Ids, StartReconnect(c, i) PROVE HeldInv'
    <2>1. CASE inFlight[i] # NoCall
      <3> DEFINE leader == calls[inFlight[i]]
                 call == [leader EXCEPT !.stage = "joined", !.frame = "none"]
      <3>1. calls' = [calls EXCEPT ![c] = call]
        BY <1>9, <2>1 DEF StartReconnect
      <3>2. leader.op = "reconnect" /\ DOMAIN leader = CallFields
        BY <2>1 DEF IInv, CallsInv, FlightInv, WellFormed, Asks
      <3> HIDE DEF leader
      <3>3. call.op = "reconnect" /\ call.stage = "joined" /\ call.frame = "none"
        BY <3>2 DEF CallFields
      <3> HIDE DEF call
      <3>4. CallFits(call, used) /\ ~Going(call)
        BY <3>3 DEF CallFits, Going
      <3>5. QED
        BY <1>5, <3>1, <3>4
    <2>2. CASE inFlight[i] = NoCall /\ Lookup(i) # "ssh"
      <3>1. calls' = [calls EXCEPT ![c] = IdleCall]
        BY <1>9, <2>2 DEF StartReconnect
      <3>2. CallFits(IdleCall, used) /\ ~Going(IdleCall)
        BY DEF IdleCall, CallFits, Going
      <3>3. QED
        BY <1>5, <3>1, <3>2
    <2>3. CASE inFlight[i] = NoCall /\ Lookup(i) = "ssh"
      BY <1>6, <1>9, <2>3 DEF StartReconnect
    <2>4. QED
      BY <2>1, <2>2, <2>3
  <1>10. QED
    BY <1>7, <1>8, <1>9

(* The promise settles.  Of the calls that end with it none covered a      *)
(* shell, except one that was told "made".                                 *)
LEMMA FinishHeld ==
    ASSUME IInv, SeenInv, HeldInv, NEW c \in Calls, NEW ok, Finish(c, ok), calls[c].op # "remove",
           used' = used, Bare' \subseteq Bare, ListsInv',
           \A i \in Bare' : i \in Ids /\ Registered(i) => Registered(i)',
           \A i \in Bare' : i \in Ids /\ Covers(calls[c], i) => Registered(i)'
    PROVE  HeldInv'
  <1> DEFINE joined == IF calls[c].op = "reconnect"
                       THEN {d \in Calls : calls[d].stage = "joined" /\ calls[d].id = calls[c].id} ELSE {}
  <1>1. calls' = [d \in Calls |-> IF d = c \/ d \in joined THEN Over(calls[d], ok) ELSE calls[d]]
    BY DEF Finish
  <1>2. \A d \in joined : d \in Calls /\ calls[d].stage = "joined"
    OBVIOUS
  <1> HIDE DEF joined
  <1>3. ASSUME NEW d \in Calls PROVE Minds(calls[d], calls'[d])
    <2>1. DOMAIN calls[d] = CallFields /\ CallFits(calls[d], used) /\ WellFormed(calls[d])
      BY CallShape
    <2>2. CASE d = c \/ d \in joined
      <3>1. calls'[d] = Over(calls[d], ok)
        BY <1>1, <2>2
      <3>2. CallFits(Over(calls[d], ok), used) /\ ~Going(Over(calls[d], ok))
        BY <2>1, OverMinds
      <3>3. \A i \in Bare' : i \in Ids /\ Covers(calls[d], i) => Registered(i)'
        BY <1>2, <2>1, <2>2, StagesCoverNothing
      <3>4. QED
        BY <3>1, <3>2, <3>3 DEF Minds
    <2>3. CASE ~(d = c \/ d \in joined)
      <3>1. calls'[d] = calls[d]
        BY <1>1, <2>3
      <3>2. QED
        BY <2>1, <3>1 DEF Minds, HeldInv
    <2>4. QED
      BY <2>2, <2>3
  <1>4. QED
    BY <1>3, CallsMove DEF Held

(* A kill that was sent covers the shell; one that failed is excused. *)
LEMMA AfterKillHeld ==
    ASSUME IInv, SeenInv, HeldInv, NEW c \in Calls, NEW frame \in {"none", "sent"}, AfterKill(c, frame),
           calls[c].op = "remove", calls[c].stage \in {"connect", "waiting", "broken"},
           UNCHANGED <<backend, news, shells, used>>, excused \subseteq excused',
           frame = "sent" \/ shells \cap {calls[c].id} \subseteq excused'
    PROVE  HeldInv'
  <1> DEFINE i == calls[c].id
             sent == [calls[c] EXCEPT !.frame = frame]
             posts == [sent EXCEPT !.stage = "post"]
             next == IF role = "mirror" THEN posts ELSE Over(sent, TRUE)
  <1>1. /\ DOMAIN calls[c] = CallFields /\ WellFormed(calls[c]) /\ CallFits(calls[c], used)
    BY CallShape
  <1>2. calls' = [calls EXCEPT ![c] = next]
    BY DEF AfterKill
  <1>3. \A k : ~Covers(calls[c], k)
    BY <1>1 DEF CallFits, Covers, WellFormed
  <1>4. /\ DOMAIN sent = CallFields /\ sent.frame = frame /\ sent.op = "remove" /\ sent.id = i
        /\ sent.stage = calls[c].stage
    BY <1>1 DEF CallFields
  <1>5. /\ posts.op = "remove" /\ posts.id = i /\ posts.frame = frame /\ posts.stage = "post"
    BY <1>1 DEF CallFields
  <1> HIDE DEF sent, posts
  <1>6. CallFits(sent, used) /\ CallFits(posts, used)
    BY <1>1, <1>4, <1>5 DEF CallFits
  <1>7. /\ CallFits(next, used)
        /\ Going(next) => next = posts
        /\ frame = "sent" => Covers(next, i)
    <2>1. frame = "sent" => Covers(posts, i) /\ Covers(sent, i)
      BY <1>4, <1>5 DEF Covers
    <2>2. /\ CallFits(Over(sent, TRUE), used) /\ ~Going(Over(sent, TRUE))
          /\ \A k : Covers(sent, k) /\ sent.frame = "sent" => Covers(Over(sent, TRUE), k)
      BY <1>4, <1>6, OverMinds
    <2>3. QED
      BY <1>4, <1>6, <2>1, <2>2
  <1> HIDE DEF next
  <1>8. Bare' \subseteq Bare /\ (i \in Bare' => frame = "sent")
    BY DEF Bare
  <1>9. Minds(calls[c], next)
    BY <1>3, <1>5, <1>7, <1>8 DEF Minds
  <1>10. i \in Ids
    BY <1>1 DEF CallFits, HeldInv, ListsInv
  <1>11. CASE role = "mirror"
    <2>1. UNCHANGED <<manager, saved, backend, mirror, news, used>>
      BY <1>11 DEF AfterKill
    <2>2. QED
      BY <1>2, <1>8, <1>9, <2>1, OnlyCallMoves
  <1>12. CASE role # "mirror"
    <2>1. SetEntry(i, "none") /\ mirror' = mirror
      BY <1>12 DEF AfterKill
    <2>2. manager \in Fits(used) /\ "none" \in Kinds
      BY DEF HeldInv, ListsInv, Kinds
    <2>3. /\ manager' \in Fits(used) /\ saved' \in Fits(used)
          /\ \A k \in Ids : manager'[k] = IF k = i THEN "none" ELSE manager[k]
      BY <1>10, <2>1, <2>2, SetEntryFacts
    <2>4. ListsInv'
      BY <2>1, <2>3 DEF HeldInv, ListsInv
    <2>5. \A k \in Ids : k # i => (Registered(k) => Registered(k)')
      BY <2>3 DEF Registered
    <2>6. \A k \in Bare' : k \in Ids /\ Registered(k) => Registered(k)' \/ Covers(next, k)
      BY <1>7, <1>8, <2>5
    <2>7. QED
      BY <1>2, <1>8, <1>9, <2>4, <2>6, CallMoves
  <1>13. QED
    BY <1>11, <1>12
LEMMA ReadyHeld ==
    ASSUME IInv, SeenInv, HeldInv, NEW c \in Calls, Ready(c)
    PROVE  HeldInv'
  <1>1. UNCHANGED <<backend, news, shells, used, excused>> /\ calls[c].stage = "connect"
    BY DEF Ready, farVars
  <1>2. CASE calls[c].op = "remove"
    BY <1>1, <1>2, AfterKillHeld DEF Ready
  <1>3. CASE calls[c].op # "remove"
    <2>1. UNCHANGED <<manager, saved, mirror>>
      BY <1>3 DEF Ready, deskVars
    <2>2. ListsInv' /\ Bare' \subseteq Bare /\ \A i : Registered(i)' <=> Registered(i)
      BY <1>1, <2>1, BareSame, RegisteredSame DEF HeldInv, ListsInv
    <2>3. \A i : ~Covers(calls[c], i)
      BY <1>1, CallShape, StagesCoverNothing
    <2>4. CASE locked
      BY <1>1, <1>3, <2>2, <2>3, <2>4, FinishHeld DEF Ready
    <2>5. CASE ~locked
      <3> DEFINE call == [calls[c] EXCEPT !.stage = "waiting", !.frame = "sent"]
      <3>1. calls' = [calls EXCEPT ![c] = call]
        BY <1>3, <2>5 DEF Ready, IInv, CallsInv
      <3>2. DOMAIN calls[c] = CallFields /\ CallFits(calls[c], used)
        BY CallShape
      <3>3. call.op = calls[c].op /\ call.stage = "waiting" /\ call.frame = "sent"
        BY <3>2 DEF CallFields
      <3> HIDE DEF call
      <3>4. CallFits(call, used) /\ ~Going(call)
        BY <1>1, <1>3, <3>2, <3>3 DEF CallFits, Going
      <3>5. Minds(calls[c], call)
        BY <2>3, <3>4 DEF Minds
      <3>6. QED
        BY <1>1, <2>1, <2>2, <3>1, <3>5, OnlyCallMoves
    <2>6. QED
      BY <2>4, <2>5
  <1>4. QED
    BY <1>2, <1>3

LEMMA GiveUpHeld ==
    ASSUME IInv, SeenInv, HeldInv, NEW c \in Calls, GiveUp(c)
    PROVE  HeldInv'
  <1>1. /\ UNCHANGED <<backend, news, shells, used>> /\ excused \subseteq excused'
        /\ calls[c].stage \in {"connect", "waiting", "broken"}
    BY DEF GiveUp, farVars
  <1>2. CASE calls[c].op = "remove"
    <2>1. AfterKill(c, "none") /\ shells \cap {calls[c].id} \subseteq excused'
      BY <1>2 DEF GiveUp
    <2>2. QED
      BY <1>1, <1>2, <2>1, AfterKillHeld
  <1>3. CASE calls[c].op # "remove"
    <2>1. UNCHANGED <<manager, saved, mirror>> /\ Finish(c, FALSE)
      BY <1>3 DEF GiveUp
    <2>2. ListsInv' /\ Bare' \subseteq Bare /\ \A i : Registered(i)' <=> Registered(i)
      BY <1>1, <2>1, RegisteredSame DEF HeldInv, ListsInv, Bare
    <2>3. ASSUME NEW i \in Bare', Covers(calls[c], i) PROVE FALSE
      <3>1. calls[c].op # "reconnect" /\ calls[c].id = i
        BY <1>3, <2>3 DEF Covers
      <3>2. i \in shells /\ i \notin excused'
        BY <1>1 DEF Bare
      <3>3. QED
        BY <3>1, <3>2 DEF GiveUp
    <2>4. QED
      BY <1>1, <1>3, <2>1, <2>2, <2>3, FinishHeld
  <1>4. QED
    BY <1>2, <1>3

(* A shell that was made gets its session with the answer. *)
LEMMA AnsweredHeld ==
    ASSUME IInv, SeenInv, HeldInv, NEW c \in Calls, Answered(c)
    PROVE  HeldInv'
  <1> DEFINE i == calls[c].id
             ok == calls[c].frame \in {"made"} \cup (IF calls[c].op = "reconnect" THEN {"exists"} ELSE {})
  <1>1. /\ UNCHANGED <<mirror, backend, news, shells, used, excused>>
        /\ calls[c].stage = "waiting" /\ calls[c].frame # "sent"
        /\ Finish(c, ok)
    BY DEF Answered, farVars
  <1> HIDE DEF ok
  <1>2. CallFits(calls[c], used)
    BY CallShape
  <1>3. calls[c].op # "remove"
    BY <1>1, <1>2 DEF CallFits
  <1>4. Bare' \subseteq Bare
    BY <1>1, BareSame
  <1>5. CASE calls[c].op # "reconnect" /\ calls[c].frame = "made"
    <2>1. SetEntry(i, calls[c].op)
      BY <1>5 DEF Answered
    <2>2. calls[c].op \in Kinds /\ calls[c].op # "none" /\ i \in used
      BY <1>1, <1>2, <1>3, <1>5 DEF CallFits, Kinds
    <2>3. manager \in Fits(used) /\ i \in Ids
      BY <2>2 DEF HeldInv, ListsInv
    <2>4. /\ manager' \in Fits(used) /\ saved' \in Fits(used)
          /\ \A k \in Ids : manager'[k] = IF k = i THEN calls[c].op ELSE manager[k]
      BY <2>1, <2>2, <2>3, SetEntryFacts
    <2>5. ListsInv'
      BY <1>1, <2>4 DEF HeldInv, ListsInv
    <2>6. \A k \in Ids : Registered(k) \/ k = i => Registered(k)'
      BY <1>1, <2>2, <2>4 DEF Registered
    <2>7. \A k : Covers(calls[c], k) => k = i
      BY DEF Covers
    <2>8. QED
      BY <1>1, <1>3, <1>4, <2>5, <2>6, <2>7, FinishHeld
  <1>6. CASE ~(calls[c].op # "reconnect" /\ calls[c].frame = "made")
    <2>1. UNCHANGED <<manager, saved>>
      BY <1>6 DEF Answered
    <2>2. ListsInv' /\ \A k : Registered(k)' <=> Registered(k)
      BY <1>1, <2>1, RegisteredSame DEF HeldInv, ListsInv
    <2>3. \A k : ~Covers(calls[c], k)
      BY <1>1, <1>6 DEF Covers
    <2>4. QED
      BY <1>1, <1>3, <1>4, <2>2, <2>3, FinishHeld
  <1>7. QED
    BY <1>5, <1>6

(* The backend forgets a session whose kill is under way, or whose shell   *)
(* has ended or is excused.                                                *)
LEMMA RemovesHeld ==
    ASSUME IInv, SeenInv, HeldInv, NEW c \in Calls, BackendRemoves(c)
    PROVE  HeldInv'
  <1> DEFINE i == calls[c].id
             call == [calls[c] EXCEPT !.stage = "posted"]
  <1>1. /\ UNCHANGED <<manager, saved, mirror, shells, used, excused>>
        /\ SetBackend(i, "none") /\ calls[c].stage = "post"
    BY DEF BackendRemoves, deskVars
  <1>2. calls' = [calls EXCEPT ![c] = call]
    BY DEF BackendRemoves, IInv, CallsInv
  <1>3. DOMAIN calls[c] = CallFields /\ CallFits(calls[c], used) /\ calls[c].op = "remove"
    BY <1>1, CallShape DEF Staged
  <1>4. i \in Ids
    BY <1>3 DEF CallFits, HeldInv, ListsInv
  <1>5. call.op = "remove" /\ call.id = i /\ call.frame = calls[c].frame /\ call.stage = "posted"
    BY <1>3 DEF CallFields
  <1> HIDE DEF call
  <1>6. backend \in Fits(used) /\ news \in Seq(Fits(used)) /\ "none" \in Kinds
    BY DEF HeldInv, ListsInv, Kinds
  <1>7. /\ backend' \in Fits(used) /\ news' \in Seq(Fits(used))
        /\ \A k \in Ids : backend'[k] = IF k = i THEN "none" ELSE backend[k]
    BY <1>1, <1>4, <1>6, SetBackendFacts
  <1>8. ListsInv'
    BY <1>1, <1>7 DEF HeldInv, ListsInv
  <1>9. Bare' = Bare
    BY <1>1, BareSame
  <1>10. i \in Bare => calls[c].frame = "sent"
    BY <1>1, <1>3 DEF HeldInv, Going
  <1>11. Minds(calls[c], call)
    BY <1>3, <1>5, <1>9, <1>10 DEF Minds, CallFits, Covers
  <1>12. i \in Bare => Covers(call, i)
    BY <1>5, <1>10 DEF Covers
  <1>13. \A k \in Ids : k # i => (Registered(k) => Registered(k)')
    BY <1>1, <1>7 DEF Registered
  <1>14. QED
    BY <1>1, <1>2, <1>8, <1>9, <1>11, <1>12, <1>13, CallMoves

LEMMA RemovalOverHeld ==
    ASSUME IInv, SeenInv, HeldInv, NEW c \in Calls, RemovalAnswered(c) \/ RemovalFails(c)
    PROVE  HeldInv'
  <1>1. PICK ok \in BOOLEAN : calls' = [calls EXCEPT ![c] = Over(calls[c], ok)]
    BY DEF RemovalAnswered, RemovalFails, IInv, CallsInv
  <1>2. /\ UNCHANGED <<manager, saved, backend, news, shells, used, excused>>
        /\ calls[c].stage \in {"post", "posted"}
        /\ \/ mirror' = mirror
           \/ mirror # NoList /\ mirror' = [mirror EXCEPT ![calls[c].id] = "none"]
    BY DEF RemovalAnswered, RemovalFails, deskVars, farVars
  <1>3. DOMAIN calls[c] = CallFields /\ CallFits(calls[c], used) /\ calls[c].op = "remove"
    BY <1>2, CallShape DEF Staged
  <1>4. calls[c].id \in Ids
    BY <1>3 DEF CallFits, HeldInv, ListsInv
  <1>5. mirror' \in Fits(used) \cup {NoList}
    <2>1. CASE mirror' = mirror
      BY <2>1 DEF HeldInv, ListsInv
    <2>2. CASE mirror # NoList /\ mirror' = [mirror EXCEPT ![calls[c].id] = "none"]
      <3>1. mirror \in Fits(used) /\ "none" \in Kinds
        BY <2>2 DEF HeldInv, ListsInv, Kinds
      <3>2. [mirror EXCEPT ![calls[c].id] = "none"] \in Fits(used)
        BY <1>4, <3>1, FitsSet
      <3>3. QED
        BY <2>2, <3>2
    <2>3. QED
      BY <1>2, <2>1, <2>2
  <1>6. ListsInv'
    BY <1>2, <1>5 DEF HeldInv, ListsInv
  <1>7. Bare' \subseteq Bare /\ \A i : Registered(i)' <=> Registered(i)
    BY <1>2, BareSame, RegisteredSame
  <1>8. /\ CallFits(Over(calls[c], ok), used) /\ ~Going(Over(calls[c], ok))
        /\ \A i : Covers(calls[c], i) => Covers(Over(calls[c], ok), i)
    <2>1. /\ CallFits(Over(calls[c], ok), used) /\ ~Going(Over(calls[c], ok))
          /\ \A i : Covers(calls[c], i) /\ calls[c].frame = "sent" => Covers(Over(calls[c], ok), i)
      BY <1>3, OverMinds
    <2>2. \A i : Covers(calls[c], i) => calls[c].frame = "sent"
      BY <1>3 DEF Covers, CallFits
    <2>3. QED
      BY <2>1, <2>2
  <1>9. Minds(calls[c], Over(calls[c], ok))
    BY <1>8 DEF Minds
  <1>10. QED
    BY <1>1, <1>2, <1>6, <1>7, <1>9, CallMoves
-----------------------------------------------------------------------------
(* The gateway and the supervisor act on a request. *)
LEMMA SeenMinds ==
    ASSUME NEW call, DOMAIN call = CallFields, NEW u, CallFits(call, u)
    PROVE  CallFits([call EXCEPT !.seen = TRUE], u) /\ [call EXCEPT !.seen = TRUE].op = call.op
  <1> DEFINE seen == [call EXCEPT !.seen = TRUE]
  <1>1. seen.op = call.op /\ seen.id = call.id /\ seen.frame = call.frame /\ seen.stage = call.stage
    BY DEF CallFields
  <1> HIDE DEF seen
  <1>2. CallFits(seen, u) /\ seen.op = call.op
    BY <1>1 DEF CallFits
  <1>3. QED
    BY <1>2 DEF seen

LEMMA CreatesHeld ==
    ASSUME IInv, SeenInv, HeldInv, NEW c \in Calls, NEW i \in Ids, SupervisorCreates(c, i)
    PROVE  HeldInv'
  <1> DEFINE call == calls[c]
  <1>1. /\ call.frame = "sent" /\ call.op # "remove"
        /\ call.op = "reconnect" => i = call.id
        /\ call.op # "reconnect" => i \notin used
        /\ used' = used \cup {i} /\ used \subseteq used'
        /\ UNCHANGED <<manager, saved, backend, mirror, news>>
    BY DEF SupervisorCreates, deskVars
  <1>2. DOMAIN call = CallFields /\ CallFits(call, used')
    BY <1>1, CallShape, CallGrows
  <1>3. ListsInv' /\ \A k : Registered(k)' <=> Registered(k)
    <2>1. used' \subseteq Ids
      BY <1>1 DEF HeldInv, ListsInv
    <2>2. QED
      BY <1>1, <2>1, ListsStay, RegisteredSame DEF ListsInv
  <1>4. \A d \in Calls : CallFits(calls[d], used') /\ DOMAIN calls[d] = CallFields
    BY <1>1, CallShape, CallGrows
  <1>5. \A k : ~Covers(call, k)
    BY <1>1 DEF Covers
  <1> HIDE DEF call
  <1>6. CASE i \in shells
    <2> DEFINE heard == Heard(call, "exists")
    <2>1. calls' = [calls EXCEPT ![c] = heard] /\ UNCHANGED <<shells, excused>>
      BY <1>6 DEF SupervisorCreates, call
    <2>2. CallFits(heard, used') /\ ~Going(heard)
      BY <1>1, <1>2, HeardMinds
    <2> HIDE DEF heard
    <2>3. calls'[c] = heard /\ \A d \in Calls : d # c => calls'[d] = calls[d]
      BY <2>1 DEF IInv, CallsInv
    <2>4. Bare' = Bare
      BY <2>1, BareSame
    <2>5. \A d \in Calls : CallFits(calls'[d], used')
      BY <1>4, <2>2, <2>3
    <2>6. \A d \in Calls : Going(calls'[d]) /\ calls'[d].id \in Bare' => calls'[d].frame = "sent"
      BY <2>2, <2>3, <2>4 DEF HeldInv
    <2>7. \A d \in Calls, k \in Bare' : Covers(calls[d], k) => Held(k)'
      BY <1>5, <2>3 DEF Held, call
    <2>8. \A k \in Bare' : Registered(k) => Held(k)'
      BY <1>3 DEF Held
    <2>9. QED
      BY <1>3, <2>4, <2>5, <2>6, <2>7, <2>8, Holds
  <1>7. CASE i \notin shells
    <2> DEFINE named == [call EXCEPT !.id = i]
               heard == Heard(named, "made")
               e(d) == IF d = c THEN heard ELSE calls[d]
    <2>1. /\ shells' = shells \cup {i}
          /\ calls' = [d \in Calls |-> IF e(d).op = "reconnect" /\ e(d).id = i /\ e(d).stage # "done"
                                       THEN [e(d) EXCEPT !.seen = TRUE] ELSE e(d)]
          /\ excused' = IF \/ call.stage # "waiting"
                           \/ call.op = "reconnect" /\ (~Registered(i) \/ BeingRemoved(i))
                        THEN excused \cup {i} ELSE excused
      BY <1>7 DEF SupervisorCreates, call
    <2>2. /\ DOMAIN named = CallFields /\ named.op = call.op /\ named.id = i
          /\ named.stage = call.stage /\ named.frame = call.frame
      BY <1>2 DEF CallFields
    <2> HIDE DEF named
    <2>3. CallFits(named, used')
      BY <1>1, <1>2, <2>2 DEF CallFits
    <2>4. /\ CallFits(heard, used') /\ ~Going(heard)
          /\ call.stage = "waiting" /\ call.op # "reconnect" => Covers(heard, i)
      BY <1>1, <2>2, <2>3, HeardMinds
    <2>5. DOMAIN heard = CallFields /\ (heard.op = "reconnect" => call.op = "reconnect")
      BY <2>2 DEF Heard, Settled, IdleCall, CallFields
    <2> HIDE DEF heard
    <2>6. ASSUME NEW d \in Calls
          PROVE  /\ CallFits(calls'[d], used')
                 /\ Going(calls'[d]) => d # c /\ calls'[d] = calls[d]
                 /\ d # c /\ calls[d].op # "reconnect" => calls'[d] = calls[d]
                 /\ d = c /\ call.op # "reconnect" => calls'[d] = heard
      <3>1. CallFits(e(d), used') /\ DOMAIN e(d) = CallFields
        BY <1>4, <2>4, <2>5
      <3>2. (d = c => e(d) = heard) /\ (d # c => e(d) = calls[d])
        OBVIOUS
      <3>3. calls'[d] = IF e(d).op = "reconnect" /\ e(d).id = i /\ e(d).stage # "done"
                        THEN [e(d) EXCEPT !.seen = TRUE] ELSE e(d)
        BY <2>1
      <3> HIDE DEF e
      <3>4. CallFits([e(d) EXCEPT !.seen = TRUE], used') /\ [e(d) EXCEPT !.seen = TRUE].op = e(d).op
        BY <3>1, SeenMinds
      <3>5. CASE calls'[d] = e(d)
        BY <2>4, <2>5, <3>1, <3>2, <3>5
      <3>6. CASE calls'[d] # e(d)
        <4>1. e(d).op = "reconnect" /\ calls'[d] = [e(d) EXCEPT !.seen = TRUE]
          BY <3>3, <3>6
        <4>2. CallFits(calls'[d], used') /\ calls'[d].op = "reconnect"
          BY <3>4, <4>1
        <4>3. QED
          BY <2>5, <3>2, <4>1, <4>2 DEF Going
      <3>7. QED
        BY <3>5, <3>6
    <2> HIDE DEF e
    <2>7. \A k \in Bare' : k \in Bare \/ (k = i /\ i \notin excused')
      BY <2>1 DEF Bare
    <2>8. ASSUME i \notin excused'
          PROVE  call.stage = "waiting" /\ (call.op = "reconnect" => Registered(i) /\ ~BeingRemoved(i))
      BY <2>1, <2>8
    <2>9. ASSUME NEW d \in Calls, Going(calls'[d]), calls'[d].id \in Bare'
          PROVE  calls'[d].frame = "sent"
      <3>1. Going(calls[d]) /\ calls'[d] = calls[d] /\ calls[d].id \in used
        BY <2>6, <2>9 DEF HeldInv, Going, CallFits
      <3>2. CASE calls[d].id \in Bare
        BY <3>1, <3>2 DEF HeldInv
      <3>3. CASE calls[d].id \notin Bare
        <4>1. calls[d].id = i /\ i \notin excused'
          BY <2>7, <2>9, <3>1, <3>3
        <4>2. call.op = "reconnect"
          BY <1>1, <3>1, <4>1
        <4>3. BeingRemoved(i)
          BY <3>1, <4>1 DEF BeingRemoved, Going
        <4>4. QED
          BY <2>8, <4>1, <4>2, <4>3
      <3>4. QED
        BY <3>2, <3>3
    <2>10. \A d \in Calls : CallFits(calls'[d], used')
      BY <2>6
    <2>11. \A d \in Calls, k \in Bare' : Covers(calls[d], k) => Held(k)'
      <3> SUFFICES ASSUME NEW d \in Calls, NEW k \in Bare', Covers(calls[d], k)
                   PROVE  Covers(calls'[d], k)
        BY DEF Held
      <3>1. d # c
        BY <1>5 DEF call
      <3>2. calls[d].op # "reconnect"
        BY DEF Covers
      <3>3. QED
        BY <2>6, <3>1, <3>2
    <2>12. \A k \in Bare' : Registered(k) => Held(k)'
      BY <1>3 DEF Held
    <2>13. ASSUME NEW k \in Bare' \ Bare PROVE k \in Ids /\ Held(k)'
      <3>1. k = i /\ call.stage = "waiting" /\ (call.op = "reconnect" => Registered(i))
        BY <2>7, <2>8, <2>13
      <3>2. CASE call.op = "reconnect"
        BY <1>3, <3>1, <3>2 DEF Held
      <3>3. CASE call.op # "reconnect"
        <4>1. Covers(calls'[c], i)
          BY <2>4, <2>6, <3>1, <3>3
        <4>2. QED
          BY <3>1, <4>1 DEF Held
      <3>4. QED
        BY <3>2, <3>3
    <2>14. QED
      BY <1>3, <2>9, <2>10, <2>11, <2>12, <2>13, Holds
  <1>8. QED
    BY <1>6, <1>7

LEMMA SpawnFailsHeld ==
    ASSUME IInv, SeenInv, HeldInv, NEW c \in Calls, SpawnFails(c)
    PROVE  HeldInv'
  <1> DEFINE heard == Heard(calls[c], "error")
  <1>1. /\ calls' = [calls EXCEPT ![c] = heard]
        /\ UNCHANGED <<manager, saved, backend, mirror, news, used, shells, excused>>
        /\ calls[c].frame = "sent" /\ calls[c].op # "remove"
    BY DEF SpawnFails, IInv, CallsInv, deskVars, farVars
  <1>2. DOMAIN calls[c] = CallFields /\ CallFits(calls[c], used)
    BY CallShape
  <1>3. CallFits(heard, used) /\ ~Going(heard)
    BY <1>1, <1>2, HeardMinds
  <1> HIDE DEF heard
  <1>4. Minds(calls[c], heard)
    BY <1>1, <1>3 DEF Minds, Covers
  <1>5. QED
    BY <1>1, <1>4, BareSame, OnlyCallMoves

(* A kill ends the shell it names, or what it left is excused. *)
LEMMA KillsHeld ==
    ASSUME IInv, SeenInv, HeldInv, NEW c \in Calls, GatewayKills(c)
    PROVE  HeldInv'
  <1> DEFINE i == calls[c].id
             quiet == [calls[c] EXCEPT !.frame = "none"]
             next == IF calls[c].stage = "done" THEN Settled(calls[c]) ELSE quiet
  <1>1. /\ calls' = [calls EXCEPT ![c] = next]
        /\ UNCHANGED <<manager, saved, backend, mirror, news, used>>
        /\ calls[c].frame = "sent" /\ calls[c].op = "remove"
    BY DEF GatewayKills, IInv, CallsInv, deskVars
  <1>2. Bare' \subseteq Bare /\ i \notin Bare'
    BY DEF GatewayKills, Ended, Bare
  <1>3. DOMAIN calls[c] = CallFields /\ CallFits(calls[c], used)
    BY CallShape
  <1>4. quiet.op = "remove" /\ quiet.id = i /\ quiet.frame = "none" /\ quiet.stage = calls[c].stage
    BY <1>1, <1>3 DEF CallFields
  <1> HIDE DEF quiet
  <1>5. CallFits(next, used) /\ (Going(next) => next.id = i)
    BY <1>1, <1>3, <1>4, SettledMinds DEF CallFits
  <1> HIDE DEF next
  <1>6. Minds(calls[c], next)
    BY <1>2, <1>5 DEF Minds, Covers
  <1>7. QED
    BY <1>1, <1>2, <1>6, OnlyCallMoves

-----------------------------------------------------------------------------
(* Restarts: whatever a call covered is excused. *)
LEMMA BrokenMinds ==
    ASSUME IInv, SeenInv, HeldInv, NEW c \in Calls
    PROVE  /\ CallFits(Broken(c), used)
           /\ Going(Broken(c)) => Going(calls[c]) /\ Broken(c).id = calls[c].id
  <1>1. DOMAIN calls[c] = CallFields /\ CallFits(calls[c], used)
    BY CallShape
  <1>2. CASE calls[c].stage = "done"
    BY <1>2, SettledMinds DEF Broken
  <1>3. CASE calls[c].stage # "done"
    <2> DEFINE b == [calls[c] EXCEPT !.stage = IF @ \in {"connect", "waiting"} THEN "broken" ELSE @,
                                     !.frame = "none"]
    <2>1. Broken(c) = b
      BY <1>3 DEF Broken
    <2>2. /\ b.op = calls[c].op /\ b.id = calls[c].id /\ b.frame = "none"
          /\ b.stage = IF calls[c].stage \in {"connect", "waiting"} THEN "broken" ELSE calls[c].stage
      BY <1>1 DEF CallFields
    <2> HIDE DEF b
    <2>3. QED
      BY <1>1, <1>3, <2>1, <2>2 DEF CallFits, Going
  <1>4. QED
    BY <1>2, <1>3

LEMMA BreaksHeld ==
    ASSUME IInv, SeenInv, HeldInv, GatewayRestarts \/ SupervisorDies
    PROVE  HeldInv'
  <1>1. /\ calls' = [c \in Calls |-> Broken(c)]
        /\ UNCHANGED <<manager, saved, backend, mirror, news, used>>
    BY DEF GatewayRestarts, SupervisorDies, deskVars
  <1>2. ListsInv' /\ \A i : Registered(i)' <=> Registered(i)
    BY <1>1, RegisteredSame DEF HeldInv, ListsInv
  <1>3. Bare' \subseteq Bare /\ \A c \in Calls, i \in Bare' : ~Covers(calls[c], i)
    <2>1. \A c \in Calls : calls[c].op = "remove" => calls[c].frame # "made"
      BY DEF HeldInv, CallFits
    <2>2. CASE SupervisorDies
      BY <2>2 DEF SupervisorDies, Bare
    <2>3. CASE GatewayRestarts
      <3>1. /\ shells' = shells
            /\ excused' = excused \cup {i \in shells : \E c \in Calls : /\ calls[c].id = i
                              /\ calls[c].frame = IF calls[c].op = "remove" THEN "sent" ELSE "made"}
        BY <2>3 DEF GatewayRestarts
      <3>2. QED
        BY <2>1, <3>1 DEF Bare, Covers
    <2>4. QED
      BY <2>2, <2>3
  <1>4. ASSUME NEW c \in Calls PROVE Minds(calls[c], calls'[c])
    <2>1. calls'[c] = Broken(c)
      BY <1>1
    <2>2. CallFits(Broken(c), used) /\ (Going(Broken(c)) => Going(calls[c]) /\ Broken(c).id = calls[c].id)
      BY BrokenMinds
    <2>3. Going(calls[c]) => calls[c].id \notin Bare'
      <3> SUFFICES ASSUME Going(calls[c]), calls[c].id \in Bare' PROVE FALSE
        OBVIOUS
      <3>1. calls[c].frame = "sent" /\ calls[c].op = "remove"
        BY <1>3 DEF HeldInv, Going
      <3>2. QED
        BY <1>3, <3>1 DEF Covers
    <2>4. QED
      BY <1>3, <2>1, <2>2, <2>3 DEF Minds
  <1>5. QED
    BY <1>1, <1>2, <1>3, <1>4, CallsMove DEF Held

(* A desktop that starts again has what it saved. *)
LEMMA DesktopRestartsHeld ==
    ASSUME IInv, SeenInv, HeldInv, DesktopRestarts
    PROVE  HeldInv'
  <1>1. /\ manager' = saved /\ mirror' = NoList /\ news' = <<>>
        /\ UNCHANGED <<saved, backend, used, shells>>
        /\ calls' = [c \in Calls |-> Over(calls[c], FALSE)]
        /\ excused' = excused \cup {i \in shells : saved[i] = "none" /\ backend[i] = "none"}
    BY DEF DesktopRestarts
  <1>2. ListsInv'
    BY <1>1 DEF HeldInv, ListsInv
  <1>3. Bare' \subseteq Bare /\ \A i \in Bare' : Registered(i)'
    BY <1>1 DEF Bare, Registered
  <1>4. ASSUME NEW c \in Calls PROVE Minds(calls[c], calls'[c])
    <2>1. calls'[c] = Over(calls[c], FALSE)
      BY <1>1
    <2>2. CallFits(Over(calls[c], FALSE), used) /\ ~Going(Over(calls[c], FALSE))
      BY CallShape, OverMinds
    <2>3. QED
      BY <1>3, <2>1, <2>2 DEF Minds
  <1>5. QED
    BY <1>1, <1>2, <1>3, <1>4, CallsMove DEF Held

-----------------------------------------------------------------------------
LEMMA InitHeld == Init => HeldInv
  <1> SUFFICES ASSUME Init PROVE HeldInv
    OBVIOUS
  <1>1. ListsInv
    BY NothingFits DEF Init, ListsInv
  <1>2. CallFits(IdleCall, used) /\ ~Going(IdleCall)
    BY DEF IdleCall, CallFits, Going
  <1>3. \A c \in Calls : calls[c] = IdleCall
    BY DEF Init
  <1>4. Bare = {}
    BY DEF Init, Bare
  <1>5. QED
    BY <1>1, <1>2, <1>3, <1>4 DEF HeldInv

LEMMA NextHeld ==
    ASSUME IInv, SeenInv, HeldInv, [Next]_vars
    PROVE  HeldInv'
  <1>1. ASSUME NEW c \in Calls, DesktopCall(c) PROVE HeldInv'
    BY <1>1, StartsHeld, ReadyHeld, GiveUpHeld, AnsweredHeld, RemovesHeld, RemovalOverHeld DEF DesktopCall
  <1>2. CASE Elsewhere
    BY <1>2, CreatesHeld, SpawnFailsHeld, KillsHeld, ShellsHeld, PostedHeld, OthersHeld, EntryHeld
       DEF Elsewhere
  <1>3. CASE StartMirroring \/ Listen \/ MirrorReads
    BY <1>3, StartHeld
  <1>4. CASE \E i \in Ids : CreateSession(i)
    BY <1>4, EntryHeld
  <1>5. CASE GatewayRestarts \/ SupervisorDies
    BY <1>5, BreaksHeld
  <1>6. CASE DesktopRestarts
    BY <1>6, DesktopRestartsHeld
  <1>7. CASE UNCHANGED vars
    <2>1. UNCHANGED <<manager, saved, backend, mirror, news, used, shells, excused, calls>>
      BY <1>7 DEF vars, deskVars, farVars
    <2>2. ListsInv' /\ Bare' = Bare /\ \A i : Registered(i)' <=> Registered(i)
      BY <2>1, BareSame, RegisteredSame DEF HeldInv, ListsInv
    <2>3. QED
      BY <2>1, <2>2, ListsMove DEF Held
  <1>8. QED
    BY <1>1, <1>2, <1>3, <1>4, <1>5, <1>6, <1>7 DEF Next

(* A shell always has a session, or is about to get one or to be killed,   *)
(* but for the ways the code leaves open that NoOrphans names              *)
(* (main.ts:3126-3147, 3452-3505; shellServerClient.ts:67-308).            *)
THEOREM NoShellIsOrphaned == Spec => []NoOrphans
  <1>1. Init => IInv /\ SeenInv /\ HeldInv
    BY InitIInv, InitSeen, InitHeld
  <1>2. (IInv /\ SeenInv /\ HeldInv) /\ [Next]_vars => (IInv /\ SeenInv /\ HeldInv)'
    BY NextIInv, NextSeen, NextHeld DEF GoodStep
  <1>3. QED
    BY <1>1, <1>2, HeldImplies, PTL DEF Spec

=============================================================================
