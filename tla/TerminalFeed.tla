---------------------------- MODULE TerminalFeed ----------------------------
(***************************************************************************)
(* What the relay promises the clients of a terminal session               *)
(* (shell/README.md:6-7): whoever attaches is shown a recent part of the   *)
(* session's output, then the rest of it, in order, nothing missing and    *)
(* nothing twice, and is told that the session exited only once all its    *)
(* output has been shown.                                                  *)
(***************************************************************************)
EXTENDS Integers, Sequences

CONSTANTS Sessions, Clients

VARIABLES
    produced,   \* chunks session s has output so far
    attached,   \* sessions each client is attached to
    view        \* what client c has on its screen of session s

feedVars == <<produced, attached, view>>

Blank == [runs |-> <<>>, exited |-> FALSE]

Stretches == [from : Nat \ {0}, to : Nat]

Init ==
    /\ produced = [s \in Sessions |-> 0]
    /\ attached = [c \in Clients |-> {}]
    /\ view = [c \in Clients |-> [s \in Sessions |-> Blank]]

(* The session outputs a chunk; nobody was told that it is over. *)
Produce(s) ==
    /\ \A c \in Clients : ~(s \in attached[c] /\ view[c][s].exited)
    /\ produced' = [produced EXCEPT ![s] = @ + 1]
    /\ UNCHANGED <<attached, view>>

(* One stretch of the output of s that exists. *)
IsOutput(p, s) == p \in Stretches /\ p.from <= p.to /\ p.to <= produced[s]

(* The screen of a client that attaches: empty, or one stretch. *)
Attach(c, s) ==
    /\ s \notin attached[c]
    /\ attached' = [attached EXCEPT ![c] = @ \cup {s}]
    /\ LET runs == view'[c][s].runs IN
         /\ runs = <<>> \/ (Len(runs) = 1 /\ IsOutput(runs[1], s))
         /\ view' = [view EXCEPT ![c][s] = [Blank EXCEPT !.runs = runs]]
    /\ UNCHANGED produced

Detach(c) ==
    /\ \E S \in SUBSET attached[c] : attached' = [attached EXCEPT ![c] = S]
    /\ UNCHANGED <<produced, view>>

(* The screen `new' goes on where the screen `old' stopped; `exited' comes
   with or after the last chunk. *)
GoesOn(old, new, s) ==
    /\ ~old.exited
    /\ \/ new.runs = old.runs
       \/ /\ Len(new.runs) = 1
          /\ IsOutput(new.runs[1], s)
          /\ old.runs # <<>> => /\ new.runs[1].from = old.runs[1].from
                                /\ new.runs[1].to > old.runs[1].to
    /\ new.exited => \/ produced[s] = 0
                     \/ new.runs # <<>> /\ new.runs[1].to = produced[s]

(* More output, or the exit, reaches some attached clients. *)
Deliver ==
    /\ \A c \in Clients, s \in Sessions :
          view'[c][s] # view[c][s] =>
              s \in attached[c] /\ GoesOn(view[c][s], view'[c][s], s)
    /\ UNCHANGED <<produced, attached>>

Next ==
    \/ \E s \in Sessions : Produce(s)
    \/ \E c \in Clients : Detach(c) \/ \E s \in Sessions : Attach(c, s)
    \/ Deliver

Spec == Init /\ [][Next]_feedVars

=============================================================================
