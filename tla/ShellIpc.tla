------------------------------ MODULE ShellIpc ------------------------------
(***************************************************************************)
(* The NDJSON pipe between the shell gateway and the supervisor            *)
(* (shared-shell/shell-ipc-protocol.ts): the messages it carries, and one  *)
(* FIFO queue per direction for every pipe connection ever opened.         *)
(*                                                                         *)
(* Terminal output is abstracted to what ordering properties tell apart:   *)
(* the chunks a session id produces are numbered 1, 2, 3, ... over its     *)
(* whole life, and a piece of output is the stretch from..to of chunk      *)
(* numbers whose text it holds (an empty piece has from = to + 1).         *)
(***************************************************************************)
EXTENDS Integers, Sequences, FiniteSets

CONSTANTS
    Sessions,    \* session ids
    NoSession,   \* the id carried by a message about no session
    Conns,       \* pipe connections, in the order they are opened
    Sizes        \* terminal sizes a client may ask for (columns; rows behave alike)

ASSUME IpcAssumption ==
    /\ NoSession \notin Sessions
    /\ Sizes \subseteq Nat \ {0}

VARIABLES
    toSup,   \* toSup[c]: messages written by the gateway, not yet read by the supervisor
    toGw     \* toGw[c]: frames written by the supervisor, not yet read by the gateway

ipcVars == <<toSup, toGw>>

(***************************************************************************)
(* IpcClientMessage.  `ok' is what the supervisor will find in the part of *)
(* the payload the model leaves out: the token of a `hello' matches, the   *)
(* shell of a `create' can be spawned, a `create_ssh' names host and user. *)
(* An absent correlation id is 0.                                          *)
(***************************************************************************)
ClientMessageTypes ==
    {"hello", "list", "create", "create_ssh", "subscribe", "unsubscribe",
     "input", "resize", "kill"}

ClientMessage ==
    [type : {"hello", "list"}, sid : {NoSession},
     id : Nat, size : {0}, ok : BOOLEAN]
    \cup
    [type : ClientMessageTypes \ {"hello", "list"}, sid : Sessions,
     id : Nat, size : Sizes \cup {0}, ok : BOOLEAN]

Request(t, s, id) ==
    [type |-> t, sid |-> s, id |-> id, size |-> 0, ok |-> TRUE]

(* IpcServerMessage; `list' holds the session ids of a `sessions' frame. *)
ServerFrameTypes ==
    {"hello", "sessions", "created", "subscribed", "unsubscribed", "output",
     "exit", "removed", "error"}

ServerFrame ==
    [type : ServerFrameTypes, sid : Sessions \cup {NoSession}, id : Nat,
     from : Nat, to : Nat, list : SUBSET Sessions]

Frame(t, s, id) ==
    [type |-> t, sid |-> s, id |-> id, from |-> 0, to |-> 0, list |-> {}]

OutputFrame(t, s, id, lo, hi) ==
    [type |-> t, sid |-> s, id |-> id, from |-> lo, to |-> hi, list |-> {}]

SessionsFrame(id, S) ==
    [type |-> "sessions", sid |-> NoSession, id |-> id, from |-> 0, to |-> 0, list |-> S]

IpcTypeOK ==
    /\ toSup \in [Conns -> Seq(ClientMessage)]
    /\ toGw \in [Conns -> Seq(ServerFrame)]

IpcInit ==
    /\ toSup = [c \in Conns |-> <<>>]
    /\ toGw = [c \in Conns |-> <<>>]

=============================================================================
