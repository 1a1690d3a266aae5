-------------------------- MODULE MCOpenSupervisor --------------------------
(* Small instances of OpenSupervisor for TLC. *)
EXTENDS OpenSupervisor

Bad(m) == [m EXCEPT !.ok = FALSE]

(* Every request a gateway makes, and the payloads refused. *)
AllRequests ==
    {Request("hello", NoSession, 1), Bad(Request("hello", NoSession, 1)),
     Request("list", NoSession, 1)}
    \cup {Request(t, s, 1) : t \in {"create", "create_ssh", "subscribe",
                                    "unsubscribe", "kill"}, s \in Sessions}
    \cup {Bad(Request(t, s, 1)) : t \in {"create", "create_ssh"}, s \in Sessions}
    \cup {[Request("resize", s, 0) EXCEPT !.size = z] : s \in Sessions, z \in Sizes}

(* What a gateway that only runs SSH asks for. *)
SshRequests ==
    {Request("hello", NoSession, 1)}
    \cup {Request(t, s, 1) : t \in {"create_ssh", "subscribe", "unsubscribe"}, s \in Sessions}

=============================================================================
