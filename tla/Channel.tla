------------------------------ MODULE Channel ------------------------------
(***************************************************************************)
(* What the library promises to the applications at the two ends of a      *)
(* session, whatever the network, the storages and the processes do.  One  *)
(* party begins a session, with one of the other's one-time keys, and the  *)
(* other joins it by reading a message; a key serves one session only.     *)
(* Whoever is in a session sends messages with rising numbers, and each    *)
(* message is handed out at most once.                                     *)
(***************************************************************************)
EXTENDS Naturals, Sequences

CONSTANTS
    Parties,
    Keys,     \* one-time keys
    Numbers   \* of the messages that a party sends in a session

VARIABLES
    agreed,   \* the sessions begun: by whom, with whom, with which key
    joined,   \* those in which the other party is
    sent,     \* the messages sent
    read,     \* those handed out
    answers   \* how many times a message was sent or handed out

Init ==
    /\ agreed = <<>>
    /\ joined = {}
    /\ sent = {}
    /\ read = {}
    /\ answers = 0

Begin(p, q, k) ==
    /\ p # q
    /\ agreed' = Append(agreed, [by |-> p, to |-> q, key |-> k])
    /\ UNCHANGED <<joined, sent, read, answers>>

\* Party p is in session s.
IsIn(p, s) ==
    \/ p = agreed[s].by
    \/ p = agreed[s].to /\ s \in joined

Send(p, s, n) ==
    /\ IsIn(p, s)
    /\ \A m \in sent : m.session = s /\ m.from = p => m.number < n
    /\ sent' = sent \cup {[session |-> s, from |-> p, number |-> n]}
    /\ answers' = answers + 1
    /\ UNCHANGED <<agreed, joined, read>>

\* m is handed to the other end of its session.
HandOut(m) ==
    /\ m \notin read
    /\ read' = read \cup {m}
    /\ answers' = answers + 1
    /\ UNCHANGED <<agreed, sent>>

Read(m) ==
    /\ m.from = agreed[m.session].by => m.session \in joined
    /\ HandOut(m)
    /\ UNCHANGED joined

\* The first message that the other party reads.
Join(m) ==
    /\ m.from = agreed[m.session].by
    /\ \A s \in joined : \/ agreed[s].to # agreed[m.session].to
                         \/ agreed[s].key # agreed[m.session].key
    /\ HandOut(m)
    /\ joined' = joined \cup {m.session}

Next ==
    \/ \E p, q \in Parties, k \in Keys : Begin(p, q, k)
    \/ \E p \in Parties, s \in DOMAIN agreed, n \in Numbers : Send(p, s, n)
    \/ \E m \in sent : Read(m) \/ Join(m)

Spec == Init /\ [][Next]_<<agreed, joined, sent, read, answers>>
=============================================================================
