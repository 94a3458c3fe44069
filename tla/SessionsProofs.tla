--------------------------- MODULE SessionsProofs ----------------------------
(***************************************************************************)
(* Proofs about sessions, for any number of parties, sessions and          *)
(* messages.                                                               *)
(*                                                                         *)
(* Trust on first use: what is_trusted_identity checked when the call      *)
(* began still holds when save_identity overwrites the row.                *)
(*                                                                         *)
(* One session per one-time key: a key in the table has begun no session,  *)
(* and a call that is about to begin one has taken its key out before.     *)
(*                                                                         *)
(* Each message sent and returned once: a record counts all that its party *)
(* sent in the session and has seen all that it read.                      *)
(***************************************************************************)
EXTENDS Sessions, FiniteSetTheorems, SequenceTheorems, WellFoundedInduction, TLAPS

\* What the call of p is about to store for its peer is no news to p.
TrustedBeforeStored ==
    \A p \in Parties :
        Busy(p, "saveIdentity") =>
            /\ arg[p].peer \in Parties
            /\ pinned[p][arg[p].peer] \in {0, arg[p].identity}

\* A table of tables, with an entry for every two parties.
Square(f) == f = [x \in Parties |-> [y \in Parties |-> f[x][y]]]

Replaced(f, p, q, v) == [f EXCEPT ![p][q] = v]

RowReset(f, p, v) == [f EXCEPT ![p] = [q \in Parties |-> v]]

\* Tables have a row for every party and no other; senders and publishers are
\* parties.
Shape ==
    /\ Square(pinned)
    /\ DOMAIN step = Parties
    /\ DOMAIN arg = Parties
    /\ \A b \in bundles : b.of \in Parties
    /\ \A m \in network : m.from \in Parties
    /\ \A p \in Parties : arg[p].result = "sent" => arg[p].msg.from \in Parties

TrustInv == Shape /\ TrustedBeforeStored

-----------------------------------------------------------------------------

\* One entry of a table of tables is replaced, and nothing else.
LEMMA EntryReplaced ==
    ASSUME NEW f, NEW p \in Parties, NEW q \in Parties, NEW v, NEW g,
           Square(f), g = Replaced(f, p, q, v)
    PROVE  /\ Square(g)
           /\ \A x, y \in Parties :
                 g[x][y] = IF x = p /\ y = q THEN v ELSE f[x][y]
<1> DEFINE S == Parties
<1> USE DEF Square, Replaced
<1>1. DOMAIN f = S /\ DOMAIN f[p] = S
  OBVIOUS
<1>2. g = [x \in S |-> IF x = p THEN [f[p] EXCEPT ![q] = v] ELSE f[x]]
  BY <1>1
<1>3. \A x \in S : g[x] = [y \in S |-> IF x = p /\ y = q THEN v ELSE f[x][y]]
  <2> SUFFICES ASSUME NEW x \in S
               PROVE g[x] = [y \in S |-> IF x = p /\ y = q THEN v ELSE f[x][y]]
    OBVIOUS
  <2>1. CASE x = p
    BY <1>1, <1>2, <2>1
  <2>2. CASE x # p
    <3>1. g[x] = f[x]
      BY <1>2, <2>2
    <3>2. f[x] = [y \in S |-> f[x][y]]
      OBVIOUS
    <3>3. QED
      BY <3>1, <3>2, <2>2
  <2>3. QED
    BY <2>1, <2>2
<1>4. \A x, y \in S : g[x][y] = IF x = p /\ y = q THEN v ELSE f[x][y]
  BY <1>3
<1>5. g = [x \in S |-> [y \in S |-> g[x][y]]]
  BY <1>2, <1>3, <1>4
<1>6. QED
  BY <1>4, <1>5

\* One row of a table of tables is replaced.
LEMMA RowIsReset ==
    ASSUME NEW f, NEW p \in Parties, NEW v, NEW g,
           Square(f), g = RowReset(f, p, v)
    PROVE  /\ Square(g)
           /\ \A x, y \in Parties : g[x][y] = IF x = p THEN v ELSE f[x][y]
<1> USE DEF Square, RowReset
<1>1. g = [x \in Parties |-> IF x = p THEN [q \in Parties |-> v] ELSE f[x]]
  OBVIOUS
<1>2. \A x \in Parties : g[x] = [y \in Parties |-> IF x = p THEN v ELSE f[x][y]]
  BY <1>1
<1>3. \A x, y \in Parties : g[x][y] = IF x = p THEN v ELSE f[x][y]
  BY <1>2
<1>4. Square(g)
  BY <1>1, <1>2, <1>3
<1>5. QED
  BY <1>3, <1>4

\* A step of a call that stores no identity: what it goes on with is trusted.
LEMMA CallMovesOn ==
    ASSUME TrustInv, NEW p \in Parties, NEW s, NEW a, Go(p, s, a),
           pinned' = pinned,
           s = "saveIdentity" =>
               a.peer \in Parties /\ pinned[p][a.peer] \in {0, a.identity},
           a.result = "sent" => a.msg.from \in Parties,
           \A b \in bundles' : b.of \in Parties,
           \A m \in network' : m.from \in Parties
    PROVE  TrustInv'
<1>1. /\ DOMAIN step' = Parties
      /\ DOMAIN arg' = Parties
      /\ \A q \in Parties : step'[q] = IF q = p THEN s ELSE step[q]
      /\ \A q \in Parties : arg'[q] = IF q = p THEN a ELSE arg[q]
  BY DEF TrustInv, Shape, Go
<1>2. Shape'
  BY <1>1 DEF TrustInv, Shape
<1>3. TrustedBeforeStored'
  BY <1>1 DEF TrustInv, TrustedBeforeStored, Busy
<1>4. QED
  BY <1>2, <1>3 DEF TrustInv

\* A step outside of calls that forgets identities or leaves them alone.
LEMMA CallsUnchanged ==
    ASSUME TrustInv, UNCHANGED calls,
           Square(pinned'),
           \A x, y \in Parties :
               Busy(x, "saveIdentity") => pinned'[x][y] \in {0, pinned[x][y]},
           \A b \in bundles' : b.of \in Parties,
           \A m \in network' : m.from \in Parties
    PROVE  TrustInv'
<1>1. step' = step /\ arg' = arg
  BY DEF calls
<1>2. Shape'
  BY <1>1 DEF TrustInv, Shape
<1>3. TrustedBeforeStored'
  BY <1>1 DEF TrustInv, TrustedBeforeStored, Busy
<1>4. QED
  BY <1>2, <1>3 DEF TrustInv

-----------------------------------------------------------------------------

\* No call has begun.
LEMMA TrustInit == Init => TrustInv
<1> SUFFICES ASSUME Init PROVE TrustInv
  OBVIOUS
<1>1. Shape
  BY DEF Init, Shape, NoArg, Args, Square
<1>2. TrustedBeforeStored
  BY DEF Init, TrustedBeforeStored, Busy
<1>3. QED
  BY <1>1, <1>2 DEF TrustInv

\* The beginnings of calls: each checks the identity that it passes on.
LEMMA TrustBegin ==
    ASSUME TrustInv, NEW p \in Parties,
           \/ \E b \in bundles : BeginProcess(p, b)
           \/ \E q \in Parties : BeginEncrypt(p, q)
           \/ \E m \in network : BeginDecrypt(p, m) \/ BeginAccept(p, m)
    PROVE  TrustInv'
<1> USE DEF TrustInv, Shape
<1>1. ASSUME NEW b \in bundles, BeginProcess(p, b) PROVE TrustInv'
  <2> DEFINE a == Args(b.of, b.install,
                       WithCurrent(record[p][b.of], Len(base) + 1, State(TRUE, 0, {})),
                       NoKey, NoMessage, "ok")
  <2>1. Go(p, "saveIdentity", a) /\ pinned' = pinned
        /\ bundles' = bundles /\ network' = network
    BY <1>1 DEF BeginProcess, tables
  <2>2. a.peer \in Parties /\ pinned[p][a.peer] \in {0, a.identity} /\ a.result = "ok"
    BY <1>1 DEF BeginProcess, Args, IsTrusted
  <2> HIDE DEF a
  <2>3. QED
    BY <2>1, <2>2, CallMovesOn
<1>2. ASSUME NEW q \in Parties, BeginEncrypt(p, q) PROVE TrustInv'
  <2> DEFINE rec == record[p][q]
             s   == rec.current
             st  == rec.states[s]
             msg == [session |-> s, number |-> st.sent + 1, from |-> p,
                     first |-> st.pending]
             a   == Args(q, PeerInstall(p, s),
                         WithCurrent(rec, s, State(st.pending, st.sent + 1, st.seen)),
                         NoKey, msg, "sent")
  <2>1. Go(p, "saveIdentity", a) /\ pinned' = pinned
        /\ bundles' = bundles /\ network' = network
    BY <1>2 DEF BeginEncrypt, tables, outside
  <2>2. a.peer \in Parties /\ pinned[p][a.peer] \in {0, a.identity}
        /\ a.msg.from \in Parties
    BY <1>2 DEF BeginEncrypt, Args, IsTrusted
  <2> HIDE DEF a
  <2>3. QED
    BY <2>1, <2>2, CallMovesOn
<1>3. ASSUME NEW m \in network, BeginDecrypt(p, m) PROVE TrustInv'
  <2> DEFINE s   == m.session
             q   == m.from
             rec == record[p][q]
             a   == Args(q, PeerInstall(p, s),
                         WithCurrent(rec, s,
                             State(FALSE, rec.states[s].sent,
                                   rec.states[s].seen \cup {m.number})),
                         NoKey, m, "read")
  <2>1. Go(p, "saveIdentity", a) /\ pinned' = pinned
        /\ bundles' = bundles /\ network' = network
    BY <1>3 DEF BeginDecrypt, tables, outside
  <2>2. a.peer \in Parties /\ pinned[p][a.peer] \in {0, a.identity}
        /\ a.msg.from \in Parties
    BY <1>3 DEF BeginDecrypt, Args, IsTrusted
  <2> HIDE DEF a
  <2>3. QED
    BY <2>1, <2>2, CallMovesOn
<1>4. ASSUME NEW m \in network, BeginAccept(p, m) PROVE TrustInv'
  <2> DEFINE s   == m.session
             q   == m.from
             rec == record[p][q]
             a   == Args(q, base[s].byInstall,
                         WithCurrent(rec, s, State(FALSE, 0, {m.number})),
                         base[s].key, m, "read")
  <2>1. Go(p, "saveIdentity", a) /\ pinned' = pinned
        /\ bundles' = bundles /\ network' = network
    BY <1>4 DEF BeginAccept, tables, outside
  <2>2. a.peer \in Parties /\ pinned[p][a.peer] \in {0, a.identity}
        /\ a.msg.from \in Parties
    BY <1>4 DEF BeginAccept, Args, IsTrusted
  <2> HIDE DEF a
  <2>3. QED
    BY <2>1, <2>2, CallMovesOn
<1>5. QED
  BY <1>1, <1>2, <1>3, <1>4

\* The identity is written: for this peer the one that was trusted, for every
\* other the one that is there.
LEMMA IdentityWritten ==
    ASSUME TrustInv, NEW p \in Parties, SaveIdentity(p)
    PROVE  /\ Square(pinned')
           /\ \A x, y \in Parties :
                 pinned[x][y] # 0 => pinned'[x][y] = pinned[x][y]
<1> DEFINE q == arg[p].peer
           v == arg[p].identity
<1>1. q \in Parties /\ pinned[p][q] \in {0, v}
  BY DEF TrustInv, TrustedBeforeStored, SaveIdentity
<1>2. Square(pinned)
  BY DEF TrustInv, Shape
<1>3. pinned' = Replaced(pinned, p, q, v)
  BY DEF SaveIdentity, Replaced
<1> HIDE DEF q, v
<1>4. /\ Square(pinned')
      /\ \A x, y \in Parties :
            pinned'[x][y] = IF x = p /\ y = q THEN v ELSE pinned[x][y]
  BY <1>1, <1>2, <1>3, EntryReplaced
<1>5. QED
  BY <1>1, <1>4

\* The writes of a call.
LEMMA TrustWrite ==
    ASSUME TrustInv, NEW p \in Parties,
           SaveIdentity(p) \/ RemovePreKey(p) \/ StoreSession(p) \/ CutShort(p)
    PROVE  TrustInv'
<1> USE DEF TrustInv, Shape
<1>1. CASE SaveIdentity(p)
  <2>1. /\ Square(pinned')
        /\ \A x, y \in Parties :
              pinned[x][y] # 0 => pinned'[x][y] = pinned[x][y]
    BY <1>1, IdentityWritten
  <2>2. /\ step' = [step EXCEPT ![p] = IF arg[p].key = NoKey THEN "storeSession"
                                      ELSE "removePreKey"]
        /\ DOMAIN arg' = Parties /\ \A x \in Parties : arg'[x] = arg[x]
        /\ bundles' = bundles /\ network' = network
    BY <1>1 DEF SaveIdentity, Go, outside
  <2>3. Shape'
    BY <2>1, <2>2
  <2>4. \A x \in Parties \ {p} : \A y \in Parties : pinned'[x][y] = pinned[x][y]
    <3>1. pinned' = [pinned EXCEPT ![p][arg[p].peer] = arg[p].identity]
      BY <1>1 DEF SaveIdentity
    <3>2. QED
      BY <3>1
  <2>5. TrustedBeforeStored'
    BY <2>2, <2>4 DEF TrustedBeforeStored, Busy
  <2>6. QED
    BY <2>3, <2>5
<1>2. CASE RemovePreKey(p)
  <2>1. Go(p, "storeSession", arg[p]) /\ pinned' = pinned
        /\ bundles' = bundles /\ network' = network
    BY <1>2 DEF RemovePreKey, outside
  <2>2. QED
    BY <2>1, CallMovesOn
<1>3. CASE StoreSession(p)
  <2>1. Go(p, "idle", NoArg) /\ pinned' = pinned /\ bundles' = bundles
        /\ \A m \in network' : m \in network \/ (arg[p].result = "sent" /\ m = arg[p].msg)
    BY <1>3 DEF StoreSession
  <2>2. NoArg.result # "sent"
    BY DEF NoArg, Args
  <2>3. QED
    BY <2>1, <2>2, CallMovesOn
<1>4. CASE CutShort(p)
  <2>1. Go(p, "idle", NoArg) /\ pinned' = pinned
        /\ bundles' = bundles /\ network' = network
    BY <1>4 DEF CutShort, tables, outside
  <2>2. NoArg.result # "sent"
    BY DEF NoArg, Args
  <2>3. QED
    BY <2>1, <2>2, CallMovesOn
<1>5. QED
  BY <1>1, <1>2, <1>3, <1>4

\* A peer's identity is forgotten, or all of them, while no call is under way.
LEMMA IdentitiesForgotten ==
    ASSUME TrustInv, NEW p \in Parties,
           Reinstall(p) \/ \E q \in Parties : DeleteIdentity(p, q)
    PROVE  /\ Square(pinned')
           /\ \A x, y \in Parties : pinned'[x][y] \in {0, pinned[x][y]}
           /\ \A x, y \in Parties : x # p => pinned'[x][y] = pinned[x][y]
<1>1. Square(pinned)
  BY DEF TrustInv, Shape
<1>2. CASE Reinstall(p)
  <2>1. pinned' = RowReset(pinned, p, 0)
    BY <1>2 DEF Reinstall, RowReset
  <2>2. /\ Square(pinned')
        /\ \A x, y \in Parties : pinned'[x][y] = IF x = p THEN 0 ELSE pinned[x][y]
    BY <1>1, <2>1, RowIsReset
  <2>3. QED
    BY <2>2
<1>3. ASSUME NEW q \in Parties, DeleteIdentity(p, q)
      PROVE  /\ Square(pinned')
             /\ \A x, y \in Parties : pinned'[x][y] \in {0, pinned[x][y]}
             /\ \A x, y \in Parties : x # p => pinned'[x][y] = pinned[x][y]
  <2>1. pinned' = Replaced(pinned, p, q, 0)
    BY <1>3 DEF DeleteIdentity, Replaced
  <2>2. /\ Square(pinned')
        /\ \A x, y \in Parties :
              pinned'[x][y] = IF x = p /\ y = q THEN 0 ELSE pinned[x][y]
    BY <1>1, <2>1, EntryReplaced
  <2>3. QED
    BY <2>2
<1>4. QED
  BY <1>2, <1>3

\* The calls of one statement, and stuttering.
LEMMA TrustOutside ==
    ASSUME TrustInv,
           \/ UNCHANGED vars
           \/ \E p \in Parties :
                 \/ GenerateBundle(p) \/ Replenish(p) \/ Reinstall(p)
                 \/ \E q \in Parties : DeleteSession(p, q) \/ DeleteIdentity(p, q)
    PROVE  TrustInv'
<1>1. /\ Square(pinned)
      /\ \A b \in bundles : b.of \in Parties
      /\ \A m \in network : m.from \in Parties
  BY DEF TrustInv, Shape
<1>2. CASE UNCHANGED vars
  <2>1. UNCHANGED <<calls, pinned, bundles, network>>
    BY <1>2 DEF vars, tables, outside
  <2>2. QED
    BY <1>1, <2>1, CallsUnchanged
<1>3. ASSUME NEW p \in Parties,
             GenerateBundle(p) \/ Replenish(p) \/ \E q \in Parties : DeleteSession(p, q)
      PROVE  TrustInv'
  <2>1. UNCHANGED <<calls, pinned, network>>
        /\ \A b \in bundles' : b \in bundles \/ b.of = p
    BY <1>3 DEF GenerateBundle, Replenish, DeleteSession, tables, outside
  <2>2. QED
    BY <1>1, <2>1, CallsUnchanged
<1>4. ASSUME NEW p \in Parties,
             Reinstall(p) \/ \E q \in Parties : DeleteIdentity(p, q)
      PROVE  TrustInv'
  <2>1. UNCHANGED <<calls, bundles, network>> /\ Busy(p, "idle")
    BY <1>4 DEF Reinstall, DeleteIdentity, outside
  <2>2. /\ Square(pinned')
        /\ \A x, y \in Parties : pinned'[x][y] \in {0, pinned[x][y]}
    BY <1>4, IdentitiesForgotten
  <2>3. QED
    BY <1>1, <2>1, <2>2, CallsUnchanged
<1>5. QED
  BY <1>2, <1>3, <1>4

\* Every step keeps what was trusted.
LEMMA TrustNext == TrustInv /\ [Next]_vars => TrustInv'
BY TrustBegin, TrustWrite, TrustOutside DEF Next

-----------------------------------------------------------------------------

\* The part of IdentityPinned that speaks of one step.
PinnedOnce ==
    \A p, q \in Parties : pinned[p][q] # 0 => pinned'[p][q] \in {0, pinned[p][q]}

\* A step replaces an identity by the same one, or forgets it.
LEMMA PinnedStep == TrustInv /\ [Next]_vars => [PinnedOnce]_vars
<1> SUFFICES ASSUME TrustInv, Next PROVE PinnedOnce
  OBVIOUS
<1>1. PICK p \in Parties :
         \/ SaveIdentity(p)
         \/ Reinstall(p) \/ \E q \in Parties : DeleteIdentity(p, q)
         \/ pinned' = pinned
  <2> USE DEF tables
  <2>1. ASSUME NEW p \in Parties,
               \/ GenerateBundle(p) \/ Replenish(p)
               \/ RemovePreKey(p) \/ StoreSession(p) \/ CutShort(p)
        PROVE  pinned' = pinned
    BY <2>1 DEF GenerateBundle, Replenish, RemovePreKey, StoreSession, CutShort
  <2>2. ASSUME NEW p \in Parties, NEW q \in Parties,
               BeginEncrypt(p, q) \/ DeleteSession(p, q)
        PROVE  pinned' = pinned
    BY <2>2 DEF BeginEncrypt, DeleteSession
  <2>3. ASSUME NEW p \in Parties, NEW b \in bundles, BeginProcess(p, b)
        PROVE  pinned' = pinned
    BY <2>3 DEF BeginProcess
  <2>4. ASSUME NEW p \in Parties, NEW m \in network,
               BeginDecrypt(p, m) \/ BeginAccept(p, m)
        PROVE  pinned' = pinned
    BY <2>4 DEF BeginDecrypt, BeginAccept
  <2>5. QED
    BY <2>1, <2>2, <2>3, <2>4 DEF Next
<1>2. CASE SaveIdentity(p)
  BY <1>2, IdentityWritten DEF PinnedOnce
<1>3. CASE Reinstall(p) \/ \E q \in Parties : DeleteIdentity(p, q)
  BY <1>3, IdentitiesForgotten DEF PinnedOnce
<1>4. CASE pinned' = pinned
  BY <1>4 DEF PinnedOnce
<1>5. QED
  BY <1>1, <1>2, <1>3, <1>4

\* Trust on first use holds for any parties, sessions, messages and interruptions:
\* no step replaces the identity stored for a peer by a different one.
THEOREM IdentityPinnedHolds == Spec => IdentityPinned
<1>1. TrustInv /\ [Next]_vars => [PinnedOnce]_vars
  BY PinnedStep
<1>2. QED
  BY <1>1, TrustInit, TrustNext, PTL DEF Spec, IdentityPinned, PinnedOnce

-----------------------------------------------------------------------------
(* A one-time pre-key begins one session at most.                          *)

\* Keys are told apart by their material, which a party numbers as it makes them.
Material(k) == k[2]

\* The sessions that p accepted and that were made for key k.
AcceptedWith(p, k) == {s \in accepted : base[s].to = p /\ base[s].key = k}

\* The sessions are numbered from 1, and what is recorded of one is kept.
BaseOK == (\E S : base \in Seq(S)) /\ accepted \subseteq DOMAIN base

\* No key is ahead of its party's count, in the table, in a bundle or in a session.
MintedOK ==
    /\ minted \in [Parties -> Nat]
    /\ DOMAIN oneTime = Parties
    /\ \A p \in Parties : \A k \in oneTime[p] : Material(k) \in 1 .. minted[p]
    /\ \A b \in bundles : b.of \in Parties /\ Material(b.key) \in 1 .. minted[b.of]
    /\ \A s \in DOMAIN base :
          base[s].to \in Parties /\ Material(base[s].key) \in 1 .. minted[base[s].to]

\* A key that is in the table has begun no session; a call that is about to begin
\* one has the key to itself, and out of the table before it goes on.
FreshInTable == \A p \in Parties : \A k \in oneTime[p] : AcceptedWith(p, k) = {}

FreshInCall ==
    \A p \in Parties :
        ~ Busy(p, "idle") /\ arg[p].key # NoKey =>
            /\ arg[p].msg.session \in DOMAIN base
            /\ base[arg[p].msg.session].to = p
            /\ base[arg[p].msg.session].key = arg[p].key
            /\ AcceptedWith(p, arg[p].key) = {}
            /\ Busy(p, "storeSession") => arg[p].key \notin oneTime[p]

\* Tables and calls refer to sessions that there are.
CallShape ==
    /\ DOMAIN step = Parties
    /\ DOMAIN arg = Parties
    /\ Square(record)
    /\ \A p, q \in Parties : record[p][q].current \in {0} \cup DOMAIN base
    /\ \A m \in network : m.session \in DOMAIN base
    /\ \A p \in Parties :
          ~ Busy(p, "idle") => /\ arg[p].peer \in Parties
                               /\ arg[p].rec.current \in {0} \cup DOMAIN base
    /\ \A p \in Parties : arg[p].result = "sent" => arg[p].msg.session \in DOMAIN base

OneTimeInv ==
    BaseOK /\ MintedOK /\ CallShape /\ FreshInTable /\ FreshInCall /\ OneSessionPerKey

\* Appending to a sequence keeps what is in it.
LEMMA AppendKeeps ==
    ASSUME NEW S, NEW b \in Seq(S), NEW e
    PROVE  /\ Append(b, e) \in Seq(S \cup {e})
           /\ Len(b) \in Nat
           /\ DOMAIN b = 1 .. Len(b)
           /\ DOMAIN Append(b, e) = DOMAIN b \cup {Len(b) + 1}
           /\ Append(b, e)[Len(b) + 1] = e
           /\ \A s \in DOMAIN b : Append(b, e)[s] = b[s]
<1>1. b \in Seq(S \cup {e}) /\ e \in S \cup {e}
  OBVIOUS
<1>2. QED
  BY <1>1

\* Before any session, every key is fresh.
LEMMA OneTimeInit == Init => OneTimeInv
<1> SUFFICES ASSUME Init PROVE OneTimeInv
  OBVIOUS
<1>1. BaseOK
  <2>1. base \in Seq({}) /\ accepted = {}
    BY DEF Init
  <2>2. QED
    BY <2>1 DEF BaseOK
<1>2. DOMAIN base = {}
  BY DEF Init
<1>3. MintedOK
  <2>1. ReplenishCount \in Nat
    BY BoundsAssumption
  <2>2. minted \in [Parties -> Nat]
    BY <2>1 DEF Init
  <2>3. \A p \in Parties : \A k \in oneTime[p] : Material(k) \in 1 .. minted[p]
    BY <2>1 DEF Init, Material
  <2>4. DOMAIN oneTime = Parties /\ bundles = {}
    BY DEF Init
  <2>5. QED
    BY <1>2, <2>2, <2>3, <2>4 DEF MintedOK
<1>4. CallShape
  <2>1. \A p \in Parties : record[p] = [q \in Parties |-> NoRecord]
    BY DEF Init
  <2>2. Square(record)
    BY DEF Init, Square
  <2>3. \A p, q \in Parties : record[p][q].current = 0
    BY <2>1 DEF NoRecord
  <2>4. /\ DOMAIN step = Parties /\ DOMAIN arg = Parties /\ network = {}
        /\ \A p \in Parties : step[p] = "idle" /\ arg[p].result = "none"
    BY DEF Init, NoArg, Args
  <2>5. QED
    BY <2>2, <2>3, <2>4 DEF CallShape, Busy
<1>5. accepted = {} /\ \A p \in Parties : Busy(p, "idle")
  BY DEF Init, Busy
<1>6. QED
  BY <1>1, <1>3, <1>4, <1>5 DEF OneTimeInv, FreshInTable, FreshInCall, AcceptedWith,
     OneSessionPerKey

\* A step that neither makes, publishes nor accepts anything.
LEMMA QuietStep ==
    ASSUME OneTimeInv, UNCHANGED <<base, accepted, oneTime, minted, bundles>>,
           CallShape', FreshInCall'
    PROVE  OneTimeInv'
<1>1. BaseOK'
  BY DEF OneTimeInv, BaseOK
<1>2. MintedOK'
  BY DEF OneTimeInv, MintedOK
<1>3. FreshInTable'
  BY DEF OneTimeInv, FreshInTable, AcceptedWith
<1>4. OneSessionPerKey'
  BY DEF OneTimeInv, OneSessionPerKey
<1>5. QED
  BY <1>1, <1>2, <1>3, <1>4 DEF OneTimeInv

\* What one party's call goes on with, when nothing else changes.
LEMMA CallGoesOn ==
    ASSUME OneTimeInv, NEW p \in Parties, NEW s, NEW a, Go(p, s, a),
           UNCHANGED <<record, base, accepted, oneTime, minted, bundles, network>>,
           s # "idle" => a.peer \in Parties /\ a.rec.current \in {0} \cup DOMAIN base,
           a.result = "sent" => a.msg.session \in DOMAIN base,
           s # "idle" /\ a.key # NoKey =>
               /\ a.msg.session \in DOMAIN base
               /\ base[a.msg.session].to = p
               /\ base[a.msg.session].key = a.key
               /\ AcceptedWith(p, a.key) = {}
               /\ s = "storeSession" => a.key \notin oneTime[p]
    PROVE  OneTimeInv'
<1>1. /\ DOMAIN step' = Parties
      /\ DOMAIN arg' = Parties
      /\ \A q \in Parties : step'[q] = IF q = p THEN s ELSE step[q]
      /\ \A q \in Parties : arg'[q] = IF q = p THEN a ELSE arg[q]
  BY DEF OneTimeInv, CallShape, Go
<1>2. CallShape'
  BY <1>1 DEF OneTimeInv, CallShape, Busy
<1>3. FreshInCall'
  <2>1. \A x, k : AcceptedWith(x, k)' = AcceptedWith(x, k)
    BY DEF AcceptedWith
  <2>2. QED
    BY <1>1, <2>1 DEF OneTimeInv, FreshInCall, Busy
<1>4. QED
  BY <1>2, <1>3, QuietStep

-----------------------------------------------------------------------------

\* encrypt and decrypt, before their writes.
LEMMA OneTimeBegin ==
    ASSUME TrustInv, OneTimeInv, NEW p \in Parties,
           \/ \E q \in Parties : BeginEncrypt(p, q)
           \/ \E m \in network : BeginDecrypt(p, m) \/ BeginAccept(p, m)
    PROVE  OneTimeInv'
<1>1. ASSUME NEW q \in Parties, BeginEncrypt(p, q) PROVE OneTimeInv'
  <2> DEFINE rec == record[p][q]
             s   == rec.current
             st  == rec.states[s]
             msg == [session |-> s, number |-> st.sent + 1, from |-> p,
                     first |-> st.pending]
             a   == Args(q, PeerInstall(p, s),
                         WithCurrent(rec, s, State(st.pending, st.sent + 1, st.seen)),
                         NoKey, msg, "sent")
  <2>1. Go(p, "saveIdentity", a)
        /\ UNCHANGED <<record, base, accepted, oneTime, minted, bundles, network>>
    BY <1>1 DEF BeginEncrypt, tables, outside, history
  <2>2. s \in DOMAIN base
    BY <1>1 DEF BeginEncrypt, OneTimeInv, CallShape
  <2>3. a.peer = q /\ a.rec.current = s /\ a.key = NoKey /\ a.msg.session = s
    BY DEF Args, WithCurrent
  <2> HIDE DEF a, s
  <2>4. QED
    BY <2>1, <2>2, <2>3, CallGoesOn
<1>2. ASSUME NEW m \in network, BeginDecrypt(p, m) PROVE OneTimeInv'
  <2> DEFINE s   == m.session
             q   == m.from
             rec == record[p][q]
             a   == Args(q, PeerInstall(p, s),
                         WithCurrent(rec, s,
                             State(FALSE, rec.states[s].sent,
                                   rec.states[s].seen \cup {m.number})),
                         NoKey, m, "read")
  <2>1. Go(p, "saveIdentity", a)
        /\ UNCHANGED <<record, base, accepted, oneTime, minted, bundles, network>>
    BY <1>2 DEF BeginDecrypt, tables, outside, history
  <2>2. s \in DOMAIN base /\ q \in Parties
    BY DEF TrustInv, Shape, OneTimeInv, CallShape
  <2>3. a.peer = q /\ a.rec.current = s /\ a.key = NoKey /\ a.result = "read"
    BY DEF Args, WithCurrent
  <2> HIDE DEF a, s, q
  <2>4. QED
    BY <2>1, <2>2, <2>3, CallGoesOn
<1>3. ASSUME NEW m \in network, BeginAccept(p, m) PROVE OneTimeInv'
  <2> DEFINE s   == m.session
             q   == m.from
             rec == record[p][q]
             a   == Args(q, base[s].byInstall,
                         WithCurrent(rec, s, State(FALSE, 0, {m.number})),
                         base[s].key, m, "read")
  <2>1. Go(p, "saveIdentity", a)
        /\ UNCHANGED <<record, base, accepted, oneTime, minted, bundles, network>>
    BY <1>3 DEF BeginAccept, tables, outside, history
  <2>2. s \in DOMAIN base /\ q \in Parties
    BY DEF TrustInv, Shape, OneTimeInv, CallShape
  <2>3. base[s].to = p /\ AcceptedWith(p, base[s].key) = {}
    BY <1>3 DEF BeginAccept, OneTimeInv, FreshInTable
  <2>4. /\ a.peer = q /\ a.rec.current = s /\ a.key = base[s].key
        /\ a.msg.session = s /\ a.result = "read"
    BY DEF Args, WithCurrent
  <2> HIDE DEF a, s, q
  <2>5. QED
    BY <2>1, <2>2, <2>3, <2>4, CallGoesOn
<1>4. QED
  BY <1>1, <1>2, <1>3

\* The writes that leave one-time keys and sessions alone.
LEMMA OneTimeIdentity ==
    ASSUME OneTimeInv, NEW p \in Parties, SaveIdentity(p) \/ CutShort(p)
    PROVE  OneTimeInv'
<1>1. CASE SaveIdentity(p)
  <2> DEFINE s == IF arg[p].key = NoKey THEN "storeSession" ELSE "removePreKey"
  <2>1. Go(p, s, arg[p])
        /\ UNCHANGED <<record, base, accepted, oneTime, minted, bundles, network>>
    BY <1>1 DEF SaveIdentity, outside, history
  <2>2. ~ Busy(p, "idle")
    BY <1>1 DEF SaveIdentity, Busy
  <2>3. arg[p].key # NoKey => s # "storeSession"
    OBVIOUS
  <2> HIDE DEF s
  <2>4. QED
    BY <2>1, <2>2, <2>3, CallGoesOn DEF OneTimeInv, CallShape, FreshInCall
<1>2. CASE CutShort(p)
  <2>1. Go(p, "idle", NoArg)
        /\ UNCHANGED <<record, base, accepted, oneTime, minted, bundles, network>>
    BY <1>2 DEF CutShort, tables, outside
  <2>2. NoArg.result # "sent"
    BY DEF NoArg, Args
  <2>3. QED
    BY <2>1, <2>2, CallGoesOn
<1>3. QED
  BY <1>1, <1>2

\* The one-time key is taken out of the table.
LEMMA OneTimeRemove ==
    ASSUME OneTimeInv, NEW p \in Parties, RemovePreKey(p)
    PROVE  OneTimeInv'
<1>1. /\ oneTime' = [oneTime EXCEPT ![p] = {k \in @ : k[1] # arg[p].key[1]}]
      /\ Go(p, "storeSession", arg[p])
      /\ UNCHANGED <<record, base, accepted, minted, bundles, network>>
      /\ ~ Busy(p, "idle")
  BY DEF RemovePreKey, outside, history, Busy
<1>2. /\ DOMAIN oneTime' = Parties
      /\ \A q \in Parties : oneTime'[q] \subseteq oneTime[q]
      /\ arg[p].key \notin oneTime'[p]
  BY <1>1 DEF OneTimeInv, MintedOK
<1>3. BaseOK'
  BY <1>1 DEF OneTimeInv, BaseOK
<1>4. MintedOK'
  BY <1>1, <1>2 DEF OneTimeInv, MintedOK
<1>5. /\ DOMAIN step' = Parties
      /\ DOMAIN arg' = Parties
      /\ \A q \in Parties : step'[q] = IF q = p THEN "storeSession" ELSE step[q]
      /\ \A q \in Parties : arg'[q] = arg[q]
  BY <1>1 DEF OneTimeInv, CallShape, Go
<1>6. CallShape'
  BY <1>1, <1>5 DEF OneTimeInv, CallShape, Busy
<1>7. \A x, k : AcceptedWith(x, k)' = AcceptedWith(x, k)
  BY <1>1 DEF AcceptedWith
<1>8. FreshInTable'
  BY <1>2, <1>7 DEF OneTimeInv, FreshInTable
<1>9. FreshInCall'
  BY <1>1, <1>2, <1>5, <1>7 DEF OneTimeInv, FreshInCall, Busy
<1>10. OneSessionPerKey'
  BY <1>1 DEF OneTimeInv, OneSessionPerKey
<1>11. QED
  BY <1>3, <1>4, <1>6, <1>8, <1>9, <1>10 DEF OneTimeInv

\* The session is stored, and one that was accepted is the first with its key.
LEMMA OneTimeStore ==
    ASSUME OneTimeInv, NEW p \in Parties, StoreSession(p)
    PROVE  OneTimeInv'
<1> DEFINE a == arg[p]
           s == a.msg.session
           new == IF a.key # NoKey THEN {s} ELSE {}
<1>1. /\ record' = Replaced(record, p, a.peer, a.rec)
      /\ accepted' = accepted \cup new
      /\ \A m \in network' : m \in network \/ (a.result = "sent" /\ m = a.msg)
      /\ Go(p, "idle", NoArg)
      /\ UNCHANGED <<base, oneTime, minted, bundles>>
      /\ Busy(p, "storeSession") /\ ~ Busy(p, "idle")
  BY DEF StoreSession, Replaced, Busy
<1>2. a.key # NoKey => /\ s \in DOMAIN base
                       /\ base[s].to = p /\ base[s].key = a.key
                       /\ AcceptedWith(p, a.key) = {}
                       /\ a.key \notin oneTime[p]
  BY <1>1 DEF OneTimeInv, FreshInCall
<1>3. a.peer \in Parties /\ a.rec.current \in {0} \cup DOMAIN base
      /\ (a.result = "sent" => s \in DOMAIN base)
  BY <1>1 DEF OneTimeInv, CallShape
<1>4. /\ Square(record')
      /\ \A x, y \in Parties :
            record'[x][y] = IF x = p /\ y = a.peer THEN a.rec ELSE record[x][y]
  <2>1. Square(record)
    BY DEF OneTimeInv, CallShape
  <2> HIDE DEF a
  <2>2. QED
    BY <1>1, <1>3, <2>1, EntryReplaced
<1>5. /\ DOMAIN step' = Parties
      /\ DOMAIN arg' = Parties
      /\ \A q \in Parties : step'[q] = IF q = p THEN "idle" ELSE step[q]
      /\ \A q \in Parties : arg'[q] = IF q = p THEN NoArg ELSE arg[q]
  BY <1>1 DEF OneTimeInv, CallShape, Go
<1>6. \A x, k : AcceptedWith(x, k)' \subseteq
                   AcceptedWith(x, k) \cup (IF x = p /\ k = a.key THEN new ELSE {})
  BY <1>1, <1>2 DEF AcceptedWith
<1> HIDE DEF a, s
<1>7. BaseOK'
  BY <1>1, <1>2 DEF OneTimeInv, BaseOK
<1>8. MintedOK'
  BY <1>1 DEF OneTimeInv, MintedOK
<1>9. CallShape'
  <2>1. NoArg.result # "sent"
    BY DEF NoArg, Args
  <2>2. \A x, y \in Parties : record'[x][y].current \in {0} \cup DOMAIN base
    BY <1>3, <1>4 DEF OneTimeInv, CallShape
  <2>3. \A m \in network' : m.session \in DOMAIN base
    BY <1>1, <1>3 DEF OneTimeInv, CallShape, s
  <2>4. QED
    BY <1>1, <1>4, <1>5, <2>1, <2>2, <2>3 DEF OneTimeInv, CallShape, Busy
<1>10. FreshInTable'
  BY <1>1, <1>2, <1>6 DEF OneTimeInv, FreshInTable
<1>11. FreshInCall'
  BY <1>1, <1>5, <1>6 DEF OneTimeInv, FreshInCall, Busy
<1>12. OneSessionPerKey'
  <2> SUFFICES ASSUME NEW x \in accepted', NEW y \in accepted',
                      base[x].to = base[y].to, base[x].key = base[y].key
               PROVE  x = y
    BY <1>1 DEF OneSessionPerKey
  <2>1. CASE x \in accepted /\ y \in accepted
    BY <2>1 DEF OneTimeInv, OneSessionPerKey
  <2>2. CASE x \in new /\ y \in new
    BY <2>2
  <2>3. CASE x \in accepted /\ y \in new
    BY <1>2, <2>3 DEF AcceptedWith
  <2>4. CASE x \in new /\ y \in accepted
    BY <1>2, <2>4 DEF AcceptedWith
  <2>5. QED
    BY <1>1, <2>1, <2>2, <2>3, <2>4
<1>13. QED
  BY <1>7, <1>8, <1>9, <1>10, <1>11, <1>12 DEF OneTimeInv

\* A session more: nobody has accepted it.
LEMMA OneTimeProcess ==
    ASSUME OneTimeInv, NEW p \in Parties, NEW b \in bundles, BeginProcess(p, b)
    PROVE  OneTimeInv'
<1> DEFINE e == [by |-> p, byInstall |-> install[p], to |-> b.of,
                 toInstall |-> b.install, key |-> b.key]
           a == Args(b.of, b.install,
                     WithCurrent(record[p][b.of], Len(base) + 1, State(TRUE, 0, {})),
                     NoKey, NoMessage, "ok")
<1>1. /\ base' = Append(base, e)
      /\ Go(p, "saveIdentity", a)
      /\ UNCHANGED <<record, accepted, oneTime, minted, bundles, network>>
  BY DEF BeginProcess, tables, history
<1>2. /\ a.peer = b.of /\ a.key = NoKey /\ a.result = "ok"
      /\ a.rec.current = Len(base) + 1
      /\ e.to = b.of /\ e.key = b.key
  BY DEF Args, WithCurrent
<1> HIDE DEF e, a
<1>3. PICK S : base \in Seq(S)
  BY DEF OneTimeInv, BaseOK
<1>4. /\ base' \in Seq(S \cup {e})
      /\ DOMAIN base' = DOMAIN base \cup {Len(base) + 1}
      /\ base'[Len(base) + 1] = e
      /\ \A s \in DOMAIN base : base'[s] = base[s]
  BY <1>1, <1>3, AppendKeeps
<1>5. BaseOK'
  BY <1>1, <1>4 DEF OneTimeInv, BaseOK
<1>6. MintedOK'
  BY <1>1, <1>2, <1>4 DEF OneTimeInv, MintedOK
<1>7. /\ DOMAIN step' = Parties
      /\ DOMAIN arg' = Parties
      /\ \A q \in Parties : step'[q] = IF q = p THEN "saveIdentity" ELSE step[q]
      /\ \A q \in Parties : arg'[q] = IF q = p THEN a ELSE arg[q]
  BY <1>1 DEF OneTimeInv, CallShape, Go
<1>8. CallShape'
  BY <1>1, <1>2, <1>4, <1>7 DEF OneTimeInv, CallShape, MintedOK, Busy
<1>9. \A x, k : AcceptedWith(x, k)' = AcceptedWith(x, k)
  BY <1>1, <1>4 DEF OneTimeInv, BaseOK, AcceptedWith
<1>10. FreshInTable'
  BY <1>1, <1>9 DEF OneTimeInv, FreshInTable
<1>11. FreshInCall'
  <2> SUFFICES ASSUME NEW x \in Parties, step'[x] # "idle", arg'[x].key # NoKey
               PROVE  /\ arg'[x].msg.session \in DOMAIN base'
                      /\ base'[arg'[x].msg.session].to = x
                      /\ base'[arg'[x].msg.session].key = arg'[x].key
                      /\ AcceptedWith(x, arg[x].key)' = {}
                      /\ step'[x] = "storeSession" => arg'[x].key \notin oneTime'[x]
    BY DEF FreshInCall, Busy
  <2>1. x # p
    BY <1>2, <1>7
  <2>2. step'[x] = step[x] /\ arg'[x] = arg[x]
    BY <1>7, <2>1
  <2>3. /\ arg[x].msg.session \in DOMAIN base
        /\ base[arg[x].msg.session].to = x
        /\ base[arg[x].msg.session].key = arg[x].key
        /\ AcceptedWith(x, arg[x].key) = {}
        /\ step[x] = "storeSession" => arg[x].key \notin oneTime[x]
    BY <2>2 DEF OneTimeInv, FreshInCall, Busy
  <2>4. AcceptedWith(x, arg[x].key)' = {}
    <3>1. \A s \in accepted : base'[s] = base[s]
      BY <1>4 DEF OneTimeInv, BaseOK
    <3>2. QED
      BY <1>1, <2>2, <2>3, <3>1 DEF AcceptedWith
  <2>5. QED
    BY <1>1, <1>4, <2>2, <2>3, <2>4
<1>12. OneSessionPerKey'
  BY <1>1, <1>4 DEF OneTimeInv, OneSessionPerKey, BaseOK
<1>13. QED
  BY <1>5, <1>6, <1>8, <1>10, <1>11, <1>12 DEF OneTimeInv

\* Between calls: the table may lose keys and gain new ones, sessions may be
\* forgotten and bundles published.
LEMMA BetweenCalls ==
    ASSUME OneTimeInv, NEW p \in Parties, Busy(p, "idle"),
           UNCHANGED <<step, arg, base, accepted, network>>,
           DOMAIN oneTime' = Parties,
           minted' \in [Parties -> Nat],
           minted'[p] >= minted[p],
           \A x \in Parties \ {p} : oneTime'[x] = oneTime[x] /\ minted'[x] = minted[x],
           \A k \in oneTime'[p] :
               \/ k \in oneTime[p]
               \/ Material(k) \in minted[p] + 1 .. minted'[p],
           Square(record'),
           \A x, y \in Parties : record'[x][y].current \in {0, record[x][y].current},
           \A b \in bundles' : b \in bundles \/ (b.of = p /\ b.key \in oneTime[p])
    PROVE  OneTimeInv'
<1>1. minted \in [Parties -> Nat] /\ \A x \in Parties : minted'[x] >= minted[x]
  BY DEF OneTimeInv, MintedOK
<1>2. BaseOK'
  BY DEF OneTimeInv, BaseOK
<1>3. MintedOK'
  <2>1. \A x \in Parties : \A k \in oneTime'[x] : Material(k) \in 1 .. minted'[x]
    BY <1>1 DEF OneTimeInv, MintedOK
  <2>2. \A b \in bundles' : b.of \in Parties /\ Material(b.key) \in 1 .. minted'[b.of]
    BY <1>1 DEF OneTimeInv, MintedOK
  <2>3. \A s \in DOMAIN base' :
           base'[s].to \in Parties /\ Material(base'[s].key) \in 1 .. minted'[base'[s].to]
    BY <1>1 DEF OneTimeInv, MintedOK
  <2>4. QED
    BY <2>1, <2>2, <2>3 DEF MintedOK
<1>4. CallShape'
  BY DEF OneTimeInv, CallShape, Busy
<1>5. \A x, k : AcceptedWith(x, k)' = AcceptedWith(x, k)
  BY DEF AcceptedWith
<1>6. FreshInTable'
  <2> SUFFICES ASSUME NEW x \in Parties, NEW k \in oneTime'[x]
               PROVE  AcceptedWith(x, k) = {}
    BY <1>5 DEF FreshInTable
  <2>1. CASE k \in oneTime[x]
    BY <2>1 DEF OneTimeInv, FreshInTable
  <2>2. CASE x = p /\ Material(k) \in minted[p] + 1 .. minted'[p]
    <3>1. \A s \in accepted : base[s].to = p => Material(base[s].key) \in 1 .. minted[p]
      BY DEF OneTimeInv, BaseOK, MintedOK
    <3>2. QED
      BY <1>1, <2>2, <3>1 DEF AcceptedWith
  <2>3. QED
    BY <2>1, <2>2
<1>7. FreshInCall'
  <2> SUFFICES ASSUME NEW x \in Parties, step[x] # "idle", arg[x].key # NoKey
               PROVE  /\ arg[x].msg.session \in DOMAIN base
                      /\ base[arg[x].msg.session].to = x
                      /\ base[arg[x].msg.session].key = arg[x].key
                      /\ AcceptedWith(x, arg[x].key)' = {}
                      /\ step[x] = "storeSession" => arg[x].key \notin oneTime'[x]
    BY DEF FreshInCall, Busy
  <2>1. x # p
    BY DEF Busy
  <2>2. /\ arg[x].msg.session \in DOMAIN base
        /\ base[arg[x].msg.session].to = x
        /\ base[arg[x].msg.session].key = arg[x].key
        /\ AcceptedWith(x, arg[x].key) = {}
        /\ step[x] = "storeSession" => arg[x].key \notin oneTime[x]
    BY DEF OneTimeInv, FreshInCall, Busy
  <2>3. AcceptedWith(x, arg[x].key)' = {}
    BY <2>2 DEF AcceptedWith
  <2>4. QED
    BY <2>1, <2>2, <2>3
<1>8. OneSessionPerKey'
  BY DEF OneTimeInv, OneSessionPerKey
<1>9. QED
  BY <1>2, <1>3, <1>4, <1>6, <1>7, <1>8 DEF OneTimeInv

\* New keys have numbers that no key of the party had before.
LEMMA NewKeysAreNew ==
    ASSUME NEW p \in Parties, minted[p] \in Nat, NEW id, NEW k \in NewKeys(p, id, ReplenishCount)
    PROVE  Material(k) \in minted[p] + 1 .. minted[p] + ReplenishCount
BY BoundsAssumption DEF NewKeys, Material

\* The calls of one statement are steps between calls.
LEMMA OneTimeBetween ==
    ASSUME OneTimeInv, NEW p \in Parties,
           \/ GenerateBundle(p) \/ Replenish(p) \/ Reinstall(p)
           \/ \E q \in Parties : DeleteSession(p, q) \/ DeleteIdentity(p, q)
    PROVE  OneTimeInv'
<1>1. /\ DOMAIN oneTime = Parties /\ minted \in [Parties -> Nat]
      /\ Square(record) /\ ReplenishCount \in Nat
  BY BoundsAssumption DEF OneTimeInv, MintedOK, CallShape
<1>2. CASE GenerateBundle(p)
  <2>1. /\ Busy(p, "idle")
        /\ UNCHANGED <<step, arg, base, accepted, network, oneTime, minted, record>>
        /\ \A b \in bundles' : b \in bundles \/ (b.of = p /\ b.key \in oneTime[p])
    BY <1>2 DEF GenerateBundle, tables, calls, history
  <2>2. QED
    BY <1>1, <2>1, BetweenCalls
<1>3. CASE Replenish(p)
  <2>1. /\ Busy(p, "idle")
        /\ UNCHANGED <<step, arg, base, accepted, network, bundles, record>>
        /\ oneTime' = [oneTime EXCEPT ![p] =
              @ \cup NewKeys(p, MaxKeyId(p), ReplenishCount)]
        /\ minted' = [minted EXCEPT ![p] = @ + ReplenishCount]
    BY <1>3 DEF Replenish, calls, outside
  <2>2. /\ DOMAIN oneTime' = Parties
        /\ minted' \in [Parties -> Nat]
        /\ minted'[p] = minted[p] + ReplenishCount
        /\ minted'[p] >= minted[p]
        /\ \A x \in Parties \ {p} : oneTime'[x] = oneTime[x] /\ minted'[x] = minted[x]
    BY <1>1, <2>1
  <2>3. \A k \in oneTime'[p] :
           k \in oneTime[p] \/ Material(k) \in minted[p] + 1 .. minted'[p]
    BY <1>1, <2>1, <2>2, NewKeysAreNew
  <2>4. QED
    BY <1>1, <2>1, <2>2, <2>3, BetweenCalls
<1>4. CASE Reinstall(p)
  <2>1. /\ Busy(p, "idle")
        /\ UNCHANGED <<step, arg, base, accepted, network, bundles>>
        /\ oneTime' = [oneTime EXCEPT ![p] =
              IF p \in Publishers THEN NewKeys(p, 0, ReplenishCount) ELSE {}]
        /\ minted' = [minted EXCEPT ![p] =
              IF p \in Publishers THEN @ + ReplenishCount ELSE @]
        /\ record' = RowReset(record, p, NoRecord)
    BY <1>4 DEF Reinstall, calls, outside, RowReset
  <2>2. /\ DOMAIN oneTime' = Parties
        /\ minted' \in [Parties -> Nat]
        /\ minted'[p] >= minted[p]
        /\ \A x \in Parties \ {p} : oneTime'[x] = oneTime[x] /\ minted'[x] = minted[x]
    BY <1>1, <2>1
  <2>3. \A k \in oneTime'[p] : Material(k) \in minted[p] + 1 .. minted'[p]
    <3>1. CASE p \in Publishers
      <4>1. /\ oneTime'[p] = NewKeys(p, 0, ReplenishCount)
            /\ minted'[p] = minted[p] + ReplenishCount
        BY <1>1, <2>1, <3>1
      <4>2. QED
        BY <1>1, <4>1, NewKeysAreNew
    <3>2. CASE p \notin Publishers
      BY <1>1, <2>1, <3>2
    <3>3. QED
      BY <3>1, <3>2
  <2>4. /\ Square(record')
        /\ \A x, y \in Parties :
              record'[x][y] = IF x = p THEN NoRecord ELSE record[x][y]
    BY <1>1, <2>1, RowIsReset
  <2>5. \A x, y \in Parties : record'[x][y].current \in {0, record[x][y].current}
    BY <2>4 DEF NoRecord
  <2>6. QED
    BY <1>1, <2>1, <2>2, <2>3, <2>4, <2>5, BetweenCalls
<1>5. ASSUME NEW q \in Parties, DeleteSession(p, q) PROVE OneTimeInv'
  <2>1. /\ Busy(p, "idle")
        /\ UNCHANGED <<step, arg, base, accepted, network, bundles, oneTime, minted>>
        /\ record' = Replaced(record, p, q, NoRecord)
    BY <1>5 DEF DeleteSession, calls, outside, Replaced
  <2>2. /\ Square(record')
        /\ \A x, y \in Parties :
              record'[x][y] = IF x = p /\ y = q THEN NoRecord ELSE record[x][y]
    BY <1>1, <2>1, EntryReplaced
  <2>3. \A x, y \in Parties : record'[x][y].current \in {0, record[x][y].current}
    BY <2>2 DEF NoRecord
  <2>4. QED
    BY <1>1, <2>1, <2>2, <2>3, BetweenCalls
<1>6. ASSUME NEW q \in Parties, DeleteIdentity(p, q) PROVE OneTimeInv'
  <2>1. /\ Busy(p, "idle")
        /\ UNCHANGED <<step, arg, base, accepted, network, bundles, oneTime, minted, record>>
    BY <1>6 DEF DeleteIdentity, calls, outside
  <2>2. QED
    BY <1>1, <2>1, BetweenCalls
<1>7. QED
  BY <1>2, <1>3, <1>4, <1>5, <1>6

\* Every step keeps the keys fresh.
LEMMA OneTimeNext == TrustInv /\ OneTimeInv /\ [Next]_vars => OneTimeInv'
<1> SUFFICES ASSUME TrustInv, OneTimeInv, [Next]_vars PROVE OneTimeInv'
  OBVIOUS
<1>1. CASE UNCHANGED vars
  <2>1. UNCHANGED <<record, base, accepted, oneTime, minted, bundles, network, step, arg>>
    BY <1>1 DEF vars, tables, calls, outside, history
  <2>2. CallShape'
    BY <2>1 DEF OneTimeInv, CallShape, Busy
  <2>3. FreshInCall'
    BY <2>1 DEF OneTimeInv, FreshInCall, AcceptedWith, Busy
  <2>4. QED
    BY <2>1, <2>2, <2>3, QuietStep
<1>2. CASE Next
  BY <1>2, OneTimeBegin, OneTimeIdentity, OneTimeRemove, OneTimeStore,
     OneTimeProcess, OneTimeBetween DEF Next
<1>3. QED
  BY <1>1, <1>2

\* Over any network, with any bundles, deletions, reinstallations and interruptions, a
\* one-time pre-key begins one session at most.
THEOREM OneSessionPerKeyHolds == Spec => []OneSessionPerKey
<1>1. OneTimeInv => OneSessionPerKey
  BY DEF OneTimeInv
<1>2. QED
  BY <1>1, TrustInit, TrustNext, OneTimeInit, OneTimeNext, PTL DEF Spec

-----------------------------------------------------------------------------
(* What the two ends of a session know of it.                              *)

\* Session s of base B is one of p with q.
Between(p, q, s, B) ==
    /\ s \in DOMAIN B
    /\ \/ B[s].by = p /\ B[s].to = q
       \/ B[s].to = p /\ B[s].by = q

\* State st counts what p sent in session s, and has seen what p read of q in it,
\* when N are the messages sent and R those read.
StateTrue(p, q, s, st, B, N, R) ==
    /\ st.pending => B[s].by = p
    /\ st.sent \in Nat
    /\ \A m \in N : m.session = s /\ m.from = p => m.number <= st.sent
    /\ \A m \in R : m.session = s /\ m.from = q => m.number \in st.seen

RecordTrue(p, q, rec, B, N, R) ==
    /\ rec.current \in {0} \cup DOMAIN rec.states
    /\ \A s \in DOMAIN rec.states :
          Between(p, q, s, B) /\ StateTrue(p, q, s, rec.states[s], B, N, R)

\* Party p began session s, or accepted it: A are the sessions accepted.
Begun(p, s, B, A) == B[s].by = p \/ s \in A

\* The message that a call has made has a number that no other has.
SendTrue(p, a, B, N) ==
    /\ a.key = NoKey
    /\ a.msg.from = p
    /\ a.msg.session \in DOMAIN a.rec.states
    /\ a.msg.number = a.rec.states[a.msg.session].sent
    /\ a.msg.first => B[a.msg.session].by = p
    /\ \A m \in N :
          m.session = a.msg.session /\ m.from = p => m.number < a.msg.number

\* The message that a call has read was not read before, and is seen from now on.
ReadTrue(p, a, B, N, R) ==
    /\ a.msg \in N /\ a.msg \notin R
    /\ a.msg.from = a.peer
    /\ a.msg.session \in DOMAIN a.rec.states
    /\ a.msg.number \in a.rec.states[a.msg.session].seen

CallTrue(p, a, B, N, R, A) ==
    /\ RecordTrue(p, a.peer, a.rec, B, N, R)
    /\ \A s \in DOMAIN a.rec.states :
          Begun(p, s, B, A) \/ (a.key # NoKey /\ s = a.msg.session)
    /\ a.key # NoKey => a.result = "read"
    /\ a.result = "sent" => SendTrue(p, a, B, N)
    /\ a.result = "read" => ReadTrue(p, a, B, N, R)

\* A message is from one end of its session; whoever answers in a session
\* accepted it, and so did whoever read a message of the one that began it.
MessagesTrue ==
    /\ \A s \in DOMAIN base : base[s].by # base[s].to
    /\ \A m \in network :
          /\ m.session \in DOMAIN base /\ m.number \in Nat
          /\ m.from \in {base[m.session].by, base[m.session].to}
          /\ m.first => m.from = base[m.session].by
          /\ m.from = base[m.session].to => m.session \in accepted
    /\ \A m \in returned :
          m \in network /\ (m.from = base[m.session].by => m.session \in accepted)

RecordsTrue ==
    \A p, q \in Parties :
        /\ RecordTrue(p, q, record[p][q], base, network, returned)
        /\ \A s \in DOMAIN record[p][q].states : Begun(p, s, base, accepted)

CallsTrue ==
    \A p \in Parties :
        step[p] # "idle" => CallTrue(p, arg[p], base, network, returned, accepted)

ChannelInv == MessagesTrue /\ RecordsTrue /\ CallsTrue

\* The empty record says nothing, and so nothing false.
LEMMA NoRecordTrue ==
    ASSUME NEW p, NEW q, NEW B, NEW N, NEW R
    PROVE  DOMAIN NoRecord.states = {} /\ RecordTrue(p, q, NoRecord, B, N, R)
BY DEF NoRecord, RecordTrue

\* A record with a session more, or with a session in another state.
LEMMA WithCurrentStates ==
    ASSUME NEW rec, NEW s, NEW st
    PROVE  /\ WithCurrent(rec, s, st).current = s
           /\ DOMAIN WithCurrent(rec, s, st).states = DOMAIN rec.states \cup {s}
           /\ WithCurrent(rec, s, st).states[s] = st
           /\ \A x \in DOMAIN rec.states :
                 x # s => WithCurrent(rec, s, st).states[x] = rec.states[x]
BY DEF WithCurrent

\* It is true if the state is.
LEMMA WithCurrentTrue ==
    ASSUME NEW p, NEW q, NEW rec, NEW B, NEW N, NEW R, NEW s, NEW st,
           RecordTrue(p, q, rec, B, N, R),
           Between(p, q, s, B), StateTrue(p, q, s, st, B, N, R)
    PROVE  RecordTrue(p, q, WithCurrent(rec, s, st), B, N, R)
<1> DEFINE new == WithCurrent(rec, s, st)
<1>1. /\ new.current = s
      /\ DOMAIN new.states = DOMAIN rec.states \cup {s}
      /\ new.states[s] = st
      /\ \A x \in DOMAIN rec.states : x # s => new.states[x] = rec.states[x]
  BY WithCurrentStates
<1> HIDE DEF new
<1>2. RecordTrue(p, q, new, B, N, R)
  BY <1>1 DEF RecordTrue
<1>3. QED
  BY <1>2 DEF new

\* A record stays true when nothing it speaks of is sent or read.
LEMMA RecordStaysTrue ==
    ASSUME NEW p, NEW q, NEW rec, NEW B, NEW N, NEW R, NEW B2, NEW N2, NEW R2,
           RecordTrue(p, q, rec, B, N, R),
           \A s \in DOMAIN B : s \in DOMAIN B2 /\ B2[s] = B[s],
           \A m \in N2 : m \in N \/ m.from # p \/ m.session \notin DOMAIN rec.states,
           \A m \in R2 : m \in R \/ m.from # q \/ m.session \notin DOMAIN rec.states
    PROVE  RecordTrue(p, q, rec, B2, N2, R2)
BY DEF RecordTrue, Between, StateTrue

\* Before anything was sent.
LEMMA ChannelInit == Init => ChannelInv
<1> SUFFICES ASSUME Init PROVE ChannelInv
  OBVIOUS
<1>1. \A p, q \in Parties : record[p][q] = NoRecord
  BY DEF Init
<1>2. RecordsTrue
  BY <1>1, NoRecordTrue DEF RecordsTrue
<1>3. MessagesTrue /\ CallsTrue
  BY DEF Init, MessagesTrue, CallsTrue
<1>4. QED
  BY <1>2, <1>3 DEF ChannelInv

\* A step of a call that stores no session.
LEMMA ChannelCallGoesOn ==
    ASSUME OneTimeInv, ChannelInv, NEW p \in Parties, NEW s, NEW a, Go(p, s, a),
           UNCHANGED <<record, base, network, returned, accepted>>,
           s # "idle" => CallTrue(p, a, base, network, returned, accepted)
    PROVE  ChannelInv'
<1>1. /\ \A q \in Parties : step'[q] = IF q = p THEN s ELSE step[q]
      /\ \A q \in Parties : arg'[q] = IF q = p THEN a ELSE arg[q]
  BY DEF OneTimeInv, CallShape, Go
<1>2. CallsTrue'
  BY <1>1 DEF ChannelInv, CallsTrue
<1>3. MessagesTrue' /\ RecordsTrue'
  BY DEF ChannelInv, MessagesTrue, RecordsTrue
<1>4. QED
  BY <1>2, <1>3 DEF ChannelInv

\* A step between calls: sessions may be forgotten.
LEMMA ChannelForgets ==
    ASSUME ChannelInv, UNCHANGED <<step, arg, base, network, returned, accepted>>,
           \A x, y \in Parties : record'[x][y] \in {NoRecord, record[x][y]}
    PROVE  ChannelInv'
<1>1. CallsTrue' /\ MessagesTrue'
  BY DEF ChannelInv, CallsTrue, MessagesTrue
<1>2. RecordsTrue'
  BY NoRecordTrue DEF ChannelInv, RecordsTrue
<1>3. QED
  BY <1>1, <1>2 DEF ChannelInv

\* What p and q share is shared by no other two.
LEMMA OnePartner ==
    ASSUME NEW B, NEW s, NEW p, NEW q, NEW x, NEW y, B[s].by # B[s].to,
           Between(p, q, s, B), Between(x, y, s, B)
    PROVE  p # q /\ (x = p <=> y = q)
BY DEF Between

\* encrypt: the next number is above all that were sent.
LEMMA ChannelEncrypt ==
    ASSUME OneTimeInv, ChannelInv, NEW p \in Parties, NEW q \in Parties,
           BeginEncrypt(p, q)
    PROVE  ChannelInv'
<1> DEFINE rec == record[p][q]
           s   == rec.current
           st  == rec.states[s]
           msg == [session |-> s, number |-> st.sent + 1, from |-> p,
                   first |-> st.pending]
           st2 == State(st.pending, st.sent + 1, st.seen)
           new == WithCurrent(rec, s, st2)
           a   == Args(q, PeerInstall(p, s), new, NoKey, msg, "sent")
<1>1. /\ s # 0 /\ Go(p, "saveIdentity", a)
      /\ UNCHANGED <<record, base, network, returned, accepted>>
  BY DEF BeginEncrypt, tables, outside, history
<1>2. RecordTrue(p, q, rec, base, network, returned)
      /\ \A x \in DOMAIN rec.states : Begun(p, x, base, accepted)
  BY DEF ChannelInv, RecordsTrue
<1> HIDE DEF rec
<1>3. s \in DOMAIN rec.states
  BY <1>1, <1>2 DEF RecordTrue
<1>4. Between(p, q, s, base) /\ StateTrue(p, q, s, st, base, network, returned)
  BY <1>2, <1>3 DEF RecordTrue
<1>5. st2.pending = st.pending /\ st2.sent = st.sent + 1 /\ st2.seen = st.seen
  BY DEF State
<1>6. \A m \in network : m.session = s /\ m.from = p => m.number < st.sent + 1
  BY <1>4 DEF StateTrue, ChannelInv, MessagesTrue
<1> HIDE DEF s, st, st2
<1>7. StateTrue(p, q, s, st2, base, network, returned)
  <2>1. st2.sent \in Nat
    BY <1>4, <1>5 DEF StateTrue
  <2>2. \A m \in network : m.session = s /\ m.from = p => m.number <= st2.sent
    BY <1>4, <1>5, <1>6 DEF StateTrue, ChannelInv, MessagesTrue
  <2>3. QED
    BY <1>4, <1>5, <2>1, <2>2 DEF StateTrue
<1>8. /\ RecordTrue(p, q, new, base, network, returned)
      /\ DOMAIN new.states = DOMAIN rec.states \cup {s}
      /\ new.states[s] = st2
  <2>1. RecordTrue(p, q, new, base, network, returned)
    BY <1>2, <1>4, <1>7, WithCurrentTrue
  <2>2. QED
    BY <2>1, WithCurrentStates
<1>9. /\ a.peer = q /\ a.rec = new /\ a.key = NoKey /\ a.result = "sent"
      /\ a.msg = msg
  BY DEF Args
<1>10. /\ msg.session = s /\ msg.number = st.sent + 1 /\ msg.from = p
       /\ msg.first = st.pending
  OBVIOUS
<1> HIDE DEF new, msg, a
<1>11. SendTrue(p, a, base, network)
  BY <1>4, <1>5, <1>6, <1>8, <1>9, <1>10 DEF SendTrue, StateTrue
<1>12. CallTrue(p, a, base, network, returned, accepted)
  BY <1>2, <1>3, <1>8, <1>9, <1>11 DEF CallTrue
<1>13. QED
  BY <1>1, <1>12, ChannelCallGoesOn

\* decrypt, in a session on record: the number was not seen.
LEMMA ChannelDecrypt ==
    ASSUME TrustInv, OneTimeInv, ChannelInv, NEW p \in Parties, NEW m \in network,
           BeginDecrypt(p, m)
    PROVE  ChannelInv'
<1> DEFINE s   == m.session
           q   == m.from
           rec == record[p][q]
           st  == rec.states[s]
           st2 == State(FALSE, st.sent, st.seen \cup {m.number})
           new == WithCurrent(rec, s, st2)
           a   == Args(q, PeerInstall(p, s), new, NoKey, m, "read")
<1>1. /\ s \in DOMAIN rec.states /\ m.number \notin st.seen
      /\ Go(p, "saveIdentity", a)
      /\ UNCHANGED <<record, base, network, returned, accepted>>
  BY DEF BeginDecrypt, tables, outside, history
<1>2. q \in Parties
  BY DEF TrustInv, Shape
<1>3. RecordTrue(p, q, rec, base, network, returned)
      /\ \A x \in DOMAIN rec.states : Begun(p, x, base, accepted)
  BY <1>2 DEF ChannelInv, RecordsTrue
<1> HIDE DEF rec
<1>4. Between(p, q, s, base) /\ StateTrue(p, q, s, st, base, network, returned)
  BY <1>1, <1>3 DEF RecordTrue
<1>5. st2.pending = FALSE /\ st2.sent = st.sent /\ st2.seen = st.seen \cup {m.number}
  BY DEF State
<1> HIDE DEF st, st2
<1>6. StateTrue(p, q, s, st2, base, network, returned)
  BY <1>4, <1>5 DEF StateTrue
<1>7. /\ RecordTrue(p, q, new, base, network, returned)
      /\ DOMAIN new.states = DOMAIN rec.states \cup {s}
      /\ new.states[s] = st2
  <2> HIDE DEF s, q, new
  <2>1. RecordTrue(p, q, rec, base, network, returned)
    BY ONLY <1>3
  <2>2. Between(p, q, s, base)
    BY ONLY <1>4
  <2>3. StateTrue(p, q, s, st2, base, network, returned)
    BY ONLY <1>6
  <2>4. QED
    <3>1. RecordTrue(p, q, new, base, network, returned)
      BY ONLY <2>1, <2>2, <2>3, WithCurrentTrue DEF new
    <3>2. DOMAIN new.states = DOMAIN rec.states \cup {s} /\ new.states[s] = st2
      BY ONLY WithCurrentStates DEF new
    <3>3. QED
      BY <3>1, <3>2
<1>8. m \notin returned
  BY <1>1, <1>4 DEF StateTrue
<1>9. /\ a.peer = q /\ a.rec = new /\ a.key = NoKey /\ a.result = "read"
      /\ a.msg = m
  BY DEF Args
<1> HIDE DEF new, a
<1>10. ReadTrue(p, a, base, network, returned)
  BY <1>5, <1>7, <1>8, <1>9 DEF ReadTrue
<1>11. CallTrue(p, a, base, network, returned, accepted)
  BY <1>1, <1>3, <1>7, <1>9, <1>10 DEF CallTrue
<1>12. QED
  BY <1>1, <1>11, ChannelCallGoesOn

\* decrypt, of a message that begins a session: nothing was read or answered in
\* it, as its key would be gone.
LEMMA ChannelAccept ==
    ASSUME TrustInv, OneTimeInv, ChannelInv, NEW p \in Parties, NEW m \in network,
           BeginAccept(p, m)
    PROVE  ChannelInv'
<1> DEFINE s   == m.session
           q   == m.from
           k   == base[s].key
           rec == record[p][q]
           st2 == State(FALSE, 0, {m.number})
           new == WithCurrent(rec, s, st2)
           a   == Args(q, base[s].byInstall, new, k, m, "read")
<1>1. /\ m.first /\ base[s].to = p /\ k \in oneTime[p]
      /\ Go(p, "saveIdentity", a)
      /\ UNCHANGED <<record, base, network, returned, accepted>>
  BY DEF BeginAccept, tables, outside, history
<1>2. q \in Parties
  BY DEF TrustInv, Shape
<1>3. RecordTrue(p, q, rec, base, network, returned)
      /\ \A x \in DOMAIN rec.states : Begun(p, x, base, accepted)
  BY <1>2 DEF ChannelInv, RecordsTrue
<1>4. s \notin accepted
  BY <1>1 DEF OneTimeInv, FreshInTable, AcceptedWith
<1>5. k # NoKey
  <2>1. Material(k) \in 1 .. minted[p] /\ minted[p] \in Nat
    BY <1>1 DEF OneTimeInv, MintedOK
  <2>2. QED
    BY <2>1 DEF Material, NoKey
<1>6. s \in DOMAIN base /\ q = base[s].by
  BY <1>1 DEF ChannelInv, MessagesTrue
<1>7. Between(p, q, s, base)
  BY <1>1, <1>6 DEF Between
<1>8. st2.pending = FALSE /\ st2.sent = 0 /\ st2.seen = {m.number}
  BY DEF State
<1>9. \A n \in network : n.session = s => n.from # p
  BY <1>1, <1>4 DEF ChannelInv, MessagesTrue
<1>10. \A n \in returned : n.session = s => n.from # q
  BY <1>4, <1>6 DEF ChannelInv, MessagesTrue
<1> HIDE DEF rec, st2
<1>11. StateTrue(p, q, s, st2, base, network, returned)
  BY <1>8, <1>9, <1>10 DEF StateTrue
<1>12. /\ RecordTrue(p, q, new, base, network, returned)
       /\ DOMAIN new.states = DOMAIN rec.states \cup {s}
       /\ new.states[s] = st2
  <2> HIDE DEF s, q, new
  <2>1. RecordTrue(p, q, rec, base, network, returned)
    BY ONLY <1>3
  <2>2. Between(p, q, s, base)
    BY ONLY <1>7
  <2>3. StateTrue(p, q, s, st2, base, network, returned)
    BY ONLY <1>11
  <2>4. QED
    <3>1. RecordTrue(p, q, new, base, network, returned)
      BY ONLY <2>1, <2>2, <2>3, WithCurrentTrue DEF new
    <3>2. DOMAIN new.states = DOMAIN rec.states \cup {s} /\ new.states[s] = st2
      BY ONLY WithCurrentStates DEF new
    <3>3. QED
      BY <3>1, <3>2
<1>13. /\ a.peer = q /\ a.rec = new /\ a.key = k /\ a.result = "read"
       /\ a.msg = m
  BY DEF Args
<1> HIDE DEF new, a, k
<1>14. ReadTrue(p, a, base, network, returned)
  BY <1>8, <1>10, <1>12, <1>13 DEF ReadTrue
<1>15. CallTrue(p, a, base, network, returned, accepted)
  BY <1>3, <1>5, <1>12, <1>13, <1>14 DEF CallTrue
<1>16. QED
  BY <1>1, <1>15, ChannelCallGoesOn

\* store_session: the message is sent or read, and the record that counts it
\* stored, in one step.
LEMMA ChannelStore ==
    ASSUME OneTimeInv, ChannelInv, NEW p \in Parties, StoreSession(p)
    PROVE  ChannelInv'
<1> DEFINE a == arg[p]
           N == network'
           R == returned'
           A == accepted'
<1>1. /\ record' = Replaced(record, p, a.peer, a.rec)
      /\ N = IF a.result = "sent" THEN network \cup {a.msg} ELSE network
      /\ R = IF a.result = "read" THEN returned \cup {a.msg} ELSE returned
      /\ A = IF a.key # NoKey THEN accepted \cup {a.msg.session} ELSE accepted
      /\ Go(p, "idle", NoArg)
      /\ base' = base
      /\ step[p] = "storeSession"
  BY DEF StoreSession, Replaced, Busy
<1>2. CallTrue(p, a, base, network, returned, accepted) /\ a.peer \in Parties
  <2>1. step[p] # "idle"
    BY <1>1
  <2>2. QED
    BY <2>1 DEF ChannelInv, CallsTrue, OneTimeInv, CallShape, Busy
<1>3. \A x, y \in Parties :
         record'[x][y] = IF x = p /\ y = a.peer THEN a.rec ELSE record[x][y]
  <2>1. Square(record)
    BY DEF OneTimeInv, CallShape
  <2> HIDE DEF a
  <2>2. QED
    BY <1>1, <1>2, <2>1, EntryReplaced
<1>4. /\ \A x \in Parties : step'[x] = IF x = p THEN "idle" ELSE step[x]
      /\ \A x \in Parties : x # p => arg'[x] = arg[x]
  BY <1>1 DEF OneTimeInv, CallShape, Go
<1> HIDE DEF a, N, R, A
<1>5. \A m \in N : m \in network \/ (a.result = "sent" /\ m = a.msg)
  BY <1>1
<1>6. \A m \in R : m \in returned \/ (a.result = "read" /\ m = a.msg)
  BY <1>1
<1>7. network \subseteq N /\ returned \subseteq R /\ accepted \subseteq A
      /\ (a.key # NoKey => a.msg.session \in A)
  BY <1>1
<1>8. ASSUME a.result \in {"sent", "read"}
      PROVE  /\ a.msg.session \in DOMAIN a.rec.states
             /\ Between(p, a.peer, a.msg.session, base)
             /\ base[a.msg.session].by # base[a.msg.session].to
             /\ Begun(p, a.msg.session, base, A)
  <2>1. a.msg.session \in DOMAIN a.rec.states
    BY <1>2, <1>8 DEF CallTrue, SendTrue, ReadTrue
  <2>2. Between(p, a.peer, a.msg.session, base)
    BY <1>2, <2>1 DEF CallTrue, RecordTrue
  <2>3. base[a.msg.session].by # base[a.msg.session].to
    BY <2>2 DEF Between, ChannelInv, MessagesTrue
  <2>4. Begun(p, a.msg.session, base, A)
    BY <1>2, <1>7, <2>1 DEF CallTrue, Begun
  <2>5. QED
    BY <2>1, <2>2, <2>3, <2>4
<1>9. MessagesTrue'
  <2>1. \A s \in DOMAIN base : base[s].by # base[s].to
    BY DEF ChannelInv, MessagesTrue
  <2>2. ASSUME NEW m \in N
        PROVE  /\ m.session \in DOMAIN base /\ m.number \in Nat
               /\ m.from \in {base[m.session].by, base[m.session].to}
               /\ m.first => m.from = base[m.session].by
               /\ m.from = base[m.session].to => m.session \in A
    <3>1. CASE m \in network
      BY <1>7, <3>1 DEF ChannelInv, MessagesTrue
    <3>2. CASE a.result = "sent" /\ m = a.msg
      <4>1. SendTrue(p, a, base, network) /\ RecordTrue(p, a.peer, a.rec, base, network, returned)
        BY <1>2, <3>2 DEF CallTrue
      <4>2. m.number \in Nat
        BY <3>2, <4>1 DEF SendTrue, RecordTrue, StateTrue
      <4>3. m.from = p /\ (m.first => base[m.session].by = p)
        BY <3>2, <4>1 DEF SendTrue
      <4>4. m.session \in DOMAIN base /\ m.from \in {base[m.session].by, base[m.session].to}
        BY <1>8, <3>2, <4>3 DEF Between
      <4>5. m.from = base[m.session].to => m.session \in A
        BY <1>8, <3>2, <4>3 DEF Begun
      <4>6. QED
        BY <4>2, <4>3, <4>4, <4>5
    <3>3. QED
      BY <1>5, <3>1, <3>2
  <2>3. ASSUME NEW m \in R
        PROVE  m \in N /\ (m.from = base[m.session].by => m.session \in A)
    <3>1. CASE m \in returned
      BY <1>7, <3>1 DEF ChannelInv, MessagesTrue
    <3>2. CASE a.result = "read" /\ m = a.msg
      <4>1. m \in network /\ m.from = a.peer
        BY <1>2, <3>2 DEF CallTrue, ReadTrue
      <4>2. m.from = base[m.session].by => base[m.session].by # p
        BY <1>8, <3>2, <4>1 DEF Between
      <4>3. QED
        BY <1>7, <1>8, <3>2, <4>1, <4>2 DEF Begun
    <3>3. QED
      BY <1>6, <3>1, <3>2
  <2>4. QED
    BY <1>1, <2>1, <2>2, <2>3 DEF MessagesTrue, N, R, A
<1>10. ASSUME NEW x, NEW y, NEW rec, ~ (x = p /\ y = a.peer),
              RecordTrue(x, y, rec, base, network, returned)
       PROVE  RecordTrue(x, y, rec, base, N, R)
  <2>1. ASSUME a.result \in {"sent", "read"}, a.msg.session \in DOMAIN rec.states
        PROVE  x # p /\ y # a.peer
    <3>1. Between(x, y, a.msg.session, base)
      BY <1>10, <2>1 DEF RecordTrue
    <3>2. QED
      BY <1>8, <1>10, <2>1, <3>1, OnePartner
  <2>2. a.result = "sent" => a.msg.from = p
    BY <1>2 DEF CallTrue, SendTrue
  <2>3. a.result = "read" => a.msg.from = a.peer
    BY <1>2 DEF CallTrue, ReadTrue
  <2>4. \A m \in N : m \in network \/ m.from # x \/ m.session \notin DOMAIN rec.states
    BY <1>5, <2>1, <2>2
  <2>5. \A m \in R : m \in returned \/ m.from # y \/ m.session \notin DOMAIN rec.states
    BY <1>6, <2>1, <2>3
  <2>6. QED
    BY <1>10, <2>4, <2>5, RecordStaysTrue
<1>11. RecordTrue(p, a.peer, a.rec, base, N, R)
  <2>1. RecordTrue(p, a.peer, a.rec, base, network, returned)
    BY <1>2 DEF CallTrue
  <2>2. ASSUME NEW s \in DOMAIN a.rec.states
        PROVE  StateTrue(p, a.peer, s, a.rec.states[s], base, N, R)
    <3> DEFINE st == a.rec.states[s]
    <3>1. StateTrue(p, a.peer, s, st, base, network, returned)
      BY <2>1 DEF RecordTrue
    <3>2. ASSUME NEW m \in N, m.session = s, m.from = p
          PROVE  m.number <= st.sent
      <4>1. CASE m \in network
        BY <3>1, <3>2, <4>1 DEF StateTrue
      <4>2. CASE a.result = "sent" /\ m = a.msg
        BY <1>2, <3>1, <3>2, <4>2 DEF CallTrue, SendTrue, StateTrue
      <4>3. QED
        BY <1>5, <4>1, <4>2
    <3>3. ASSUME NEW m \in R, m.session = s, m.from = a.peer
          PROVE  m.number \in st.seen
      <4>1. CASE m \in returned
        BY <3>1, <3>3, <4>1 DEF StateTrue
      <4>2. CASE a.result = "read" /\ m = a.msg
        BY <1>2, <3>3, <4>2 DEF CallTrue, ReadTrue
      <4>3. QED
        BY <1>6, <4>1, <4>2
    <3> HIDE DEF st
    <3>4. StateTrue(p, a.peer, s, st, base, N, R)
      BY <3>1, <3>2, <3>3 DEF StateTrue
    <3>5. QED
      BY <3>4 DEF st
  <2>3. QED
    BY <2>1, <2>2 DEF RecordTrue
<1>12. RecordsTrue'
  <2>1. ASSUME NEW x \in Parties, NEW y \in Parties
        PROVE  /\ RecordTrue(x, y, record'[x][y], base, N, R)
               /\ \A s \in DOMAIN record'[x][y].states : Begun(x, s, base, A)
    <3>1. CASE x = p /\ y = a.peer
      <4>1. record'[x][y] = a.rec
        BY <1>3, <3>1
      <4>2. \A s \in DOMAIN a.rec.states : Begun(p, s, base, A)
        BY <1>2, <1>7 DEF CallTrue, Begun
      <4>3. QED
        BY <1>11, <3>1, <4>1, <4>2
    <3>2. CASE ~ (x = p /\ y = a.peer)
      <4>1. record'[x][y] = record[x][y]
        BY <1>3, <3>2
      <4>2. /\ RecordTrue(x, y, record[x][y], base, network, returned)
            /\ \A s \in DOMAIN record[x][y].states : Begun(x, s, base, accepted)
        BY DEF ChannelInv, RecordsTrue
      <4>3. RecordTrue(x, y, record[x][y], base, N, R)
        BY <1>10, <3>2, <4>2
      <4>4. QED
        BY <1>7, <4>1, <4>2, <4>3 DEF Begun
    <3>3. QED
      BY <3>1, <3>2
  <2>2. QED
    BY <1>1, <2>1 DEF RecordsTrue, N, R, A
<1>13. ASSUME NEW x \in Parties, x # p, step[x] # "idle"
       PROVE  CallTrue(x, arg[x], base, N, R, A)
  <2> DEFINE b == arg[x]
  <2>1. CallTrue(x, b, base, network, returned, accepted)
    BY <1>13 DEF ChannelInv, CallsTrue
  <2> HIDE DEF b
  <2>2. RecordTrue(x, b.peer, b.rec, base, N, R)
    BY <1>10, <1>13, <2>1 DEF CallTrue
  <2>3. ASSUME b.result = "sent"
        PROVE  SendTrue(x, b, base, N)
    <3>1. SendTrue(x, b, base, network)
      BY <2>1, <2>3 DEF CallTrue
    <3>2. a.result = "sent" => a.msg.from = p
      BY <1>2 DEF CallTrue, SendTrue
    <3>3. QED
      BY <1>5, <1>13, <3>1, <3>2 DEF SendTrue
  <2>4. ASSUME b.result = "read"
        PROVE  ReadTrue(x, b, base, N, R)
    <3>1. ReadTrue(x, b, base, network, returned)
      BY <2>1, <2>4 DEF CallTrue
    <3>2. ASSUME a.result = "read", b.msg = a.msg
          PROVE  FALSE
      <4>1. a.msg.from = a.peer /\ a.msg.from = b.peer
        BY <1>2, <3>1, <3>2 DEF CallTrue, ReadTrue
      <4>2. Between(x, b.peer, a.msg.session, base)
        BY <2>1, <3>1, <3>2 DEF CallTrue, ReadTrue, RecordTrue
      <4>3. x = p
        BY <1>8, <3>2, <4>1, <4>2, OnePartner
      <4>4. QED
        BY <1>13, <4>3
    <3>3. QED
      BY <1>6, <1>7, <3>1, <3>2 DEF ReadTrue
  <2>5. CallTrue(x, b, base, N, R, A)
    BY <1>7, <2>1, <2>2, <2>3, <2>4 DEF CallTrue, Begun
  <2>6. QED
    BY <2>5 DEF b
<1>14. CallsTrue'
  <2>1. ASSUME NEW x \in Parties, step'[x] # "idle"
        PROVE  CallTrue(x, arg'[x], base, N, R, A)
    <3>1. x # p /\ step[x] # "idle" /\ arg'[x] = arg[x]
      BY <1>4, <2>1
    <3>2. QED
      BY <1>13, <3>1
  <2>2. QED
    BY <1>1, <2>1 DEF CallsTrue, N, R, A
<1>15. QED
  BY <1>9, <1>12, <1>14 DEF ChannelInv

\* process_prekey_bundle: in the new session nothing was sent or read.
LEMMA ChannelProcess ==
    ASSUME OneTimeInv, ChannelInv, NEW p \in Parties, NEW b \in bundles,
           BeginProcess(p, b)
    PROVE  ChannelInv'
<1> DEFINE e   == [by |-> p, byInstall |-> install[p], to |-> b.of,
                   toInstall |-> b.install, key |-> b.key]
           q   == b.of
           n   == Len(base) + 1
           rec == record[p][q]
           st  == State(TRUE, 0, {})
           new == WithCurrent(rec, n, st)
           a   == Args(q, b.install, new, NoKey, NoMessage, "ok")
           B   == base'
<1>1. /\ B = Append(base, e) /\ q # p
      /\ Go(p, "saveIdentity", a)
      /\ UNCHANGED <<record, network, returned, accepted>>
  BY DEF BeginProcess, tables, history
<1>2. /\ e.by = p /\ e.to = q
      /\ st.pending = TRUE /\ st.sent = 0 /\ st.seen = {}
      /\ a.peer = q /\ a.rec = new /\ a.key = NoKey /\ a.result = "ok"
  BY DEF State, Args
<1>3. q \in Parties
  BY DEF OneTimeInv, MintedOK
<1> HIDE DEF e, B
<1>4. PICK S : base \in Seq(S)
  BY DEF OneTimeInv, BaseOK
<1>5. /\ DOMAIN B = DOMAIN base \cup {n} /\ n \notin DOMAIN base
      /\ B[n] = e
      /\ \A s \in DOMAIN base : B[s] = base[s]
  BY <1>1, <1>4, AppendKeeps
<1> HIDE DEF n, st, q, rec
<1>6. /\ \A s \in DOMAIN base : base[s].by # base[s].to
      /\ \A m \in network :
            /\ m.session \in DOMAIN base /\ m.number \in Nat
            /\ m.from \in {base[m.session].by, base[m.session].to}
            /\ m.first => m.from = base[m.session].by
            /\ m.from = base[m.session].to => m.session \in accepted
      /\ \A m \in returned :
            m \in network /\ (m.from = base[m.session].by => m.session \in accepted)
  BY DEF ChannelInv, MessagesTrue
<1>7. MessagesTrue'
  <2>1. \A s \in DOMAIN B : B[s].by # B[s].to
    BY <1>1, <1>2, <1>5, <1>6
  <2>2. ASSUME NEW m \in network
        PROVE  /\ m.session \in DOMAIN B /\ m.number \in Nat
               /\ m.from \in {B[m.session].by, B[m.session].to}
               /\ m.first => m.from = B[m.session].by
               /\ m.from = B[m.session].to => m.session \in accepted
    <3>1. m.session \in DOMAIN base /\ B[m.session] = base[m.session]
      BY <1>5, <1>6
    <3>2. QED
      BY <1>5, <1>6, <3>1
  <2>3. \A m \in returned :
           m \in network /\ (m.from = B[m.session].by => m.session \in accepted)
    BY <1>5, <1>6
  <2>4. QED
    BY <1>1, <2>1, <2>2, <2>3 DEF MessagesTrue, B
<1>8. ASSUME NEW x, NEW y, NEW r, RecordTrue(x, y, r, base, network, returned)
      PROVE  RecordTrue(x, y, r, B, network, returned)
  BY <1>5, <1>8, RecordStaysTrue
<1>9. ASSUME NEW x, NEW y, NEW r, RecordTrue(x, y, r, base, network, returned),
             NEW s \in DOMAIN r.states
      PROVE  B[s] = base[s]
  BY <1>5, <1>9 DEF RecordTrue, Between
<1>10. RecordsTrue'
  <2>1. ASSUME NEW x \in Parties, NEW y \in Parties
        PROVE  /\ RecordTrue(x, y, record[x][y], B, network, returned)
               /\ \A s \in DOMAIN record[x][y].states : Begun(x, s, B, accepted)
    <3>1. /\ RecordTrue(x, y, record[x][y], base, network, returned)
          /\ \A s \in DOMAIN record[x][y].states : Begun(x, s, base, accepted)
      BY DEF ChannelInv, RecordsTrue
    <3>2. RecordTrue(x, y, record[x][y], B, network, returned)
      BY <1>8, <3>1
    <3>3. \A s \in DOMAIN record[x][y].states : B[s] = base[s]
      BY <1>9, <3>1
    <3>4. QED
      BY <3>1, <3>2, <3>3 DEF Begun
  <2>2. QED
    BY <1>1, <2>1 DEF RecordsTrue, B
<1>11. CallTrue(p, a, B, network, returned, accepted)
  <2>1. RecordTrue(p, q, rec, base, network, returned)
        /\ \A s \in DOMAIN rec.states : Begun(p, s, base, accepted)
    BY <1>3 DEF ChannelInv, RecordsTrue, rec
  <2>2. RecordTrue(p, q, rec, B, network, returned)
        /\ \A s \in DOMAIN rec.states : B[s] = base[s]
    BY <1>8, <1>9, <2>1
  <2>3. Between(p, q, n, B)
    BY <1>2, <1>5 DEF Between
  <2>4. StateTrue(p, q, n, st, B, network, returned)
    <3>1. \A m \in network : m.session # n
      BY <1>5, <1>6
    <3>2. \A m \in returned : m.session # n
      BY <1>6, <3>1
    <3>3. st.pending => B[n].by = p
      BY <1>2, <1>5
    <3>4. st.sent \in Nat
      BY <1>2
    <3>5. QED
      BY <3>1, <3>2, <3>3, <3>4 DEF StateTrue
  <2>5. RecordTrue(p, q, new, B, network, returned)
    BY ONLY <2>2, <2>3, <2>4, WithCurrentTrue DEF new
  <2>6. DOMAIN new.states = DOMAIN rec.states \cup {n}
    BY ONLY WithCurrentStates DEF new
  <2> HIDE DEF new, a
  <2>7. \A s \in DOMAIN new.states : Begun(p, s, B, accepted)
    BY <1>2, <1>5, <2>1, <2>2, <2>6 DEF Begun
  <2>8. QED
    BY <1>2, <2>5, <2>7 DEF CallTrue
<1> HIDE DEF a, new
<1>12. /\ \A x \in Parties : step'[x] = IF x = p THEN "saveIdentity" ELSE step[x]
       /\ \A x \in Parties : arg'[x] = IF x = p THEN a ELSE arg[x]
  BY <1>1 DEF OneTimeInv, CallShape, Go
<1>13. ASSUME NEW x \in Parties, step[x] # "idle"
       PROVE  CallTrue(x, arg[x], B, network, returned, accepted)
  <2> DEFINE c == arg[x]
  <2>1. CallTrue(x, c, base, network, returned, accepted)
    BY <1>13 DEF ChannelInv, CallsTrue
  <2> HIDE DEF c
  <2>2. RecordTrue(x, c.peer, c.rec, base, network, returned)
    BY <2>1 DEF CallTrue
  <2>3. RecordTrue(x, c.peer, c.rec, B, network, returned)
        /\ \A s \in DOMAIN c.rec.states : B[s] = base[s]
    BY <1>8, <1>9, <2>2
  <2>4. c.result = "sent" => SendTrue(x, c, B, network)
    BY <2>1, <2>3 DEF CallTrue, SendTrue
  <2>5. c.result = "read" => ReadTrue(x, c, B, network, returned)
    BY <2>1 DEF CallTrue, ReadTrue
  <2>6. \A s \in DOMAIN c.rec.states :
           Begun(x, s, B, accepted) \/ (c.key # NoKey /\ s = c.msg.session)
    BY <2>1, <2>3 DEF CallTrue, Begun
  <2>7. CallTrue(x, c, B, network, returned, accepted)
    BY <2>1, <2>3, <2>4, <2>5, <2>6 DEF CallTrue
  <2>8. QED
    BY <2>7 DEF c
<1>14. CallsTrue'
  <2>1. ASSUME NEW x \in Parties, step'[x] # "idle"
        PROVE  CallTrue(x, arg'[x], B, network, returned, accepted)
    BY <1>11, <1>12, <1>13, <2>1
  <2>2. QED
    BY <1>1, <2>1 DEF CallsTrue, B
<1>15. QED
  BY <1>7, <1>10, <1>14 DEF ChannelInv

\* The writes of a call before the last: the call goes on with what it has.
LEMMA ChannelWrites ==
    ASSUME OneTimeInv, ChannelInv, NEW p \in Parties,
           SaveIdentity(p) \/ RemovePreKey(p) \/ CutShort(p)
    PROVE  ChannelInv'
<1>1. CASE SaveIdentity(p) \/ RemovePreKey(p)
  <2>1. PICK s : Go(p, s, arg[p])
    BY <1>1 DEF SaveIdentity, RemovePreKey
  <2>2. UNCHANGED <<record, base, network, returned, accepted>>
    BY <1>1 DEF SaveIdentity, RemovePreKey, outside, history
  <2>3. CallTrue(p, arg[p], base, network, returned, accepted)
    <3>1. step[p] # "idle"
      BY <1>1 DEF SaveIdentity, RemovePreKey, Busy
    <3>2. QED
      BY <3>1 DEF ChannelInv, CallsTrue
  <2>4. QED
    BY <2>1, <2>2, <2>3, ChannelCallGoesOn
<1>2. CASE CutShort(p)
  <2>1. Go(p, "idle", NoArg) /\ UNCHANGED <<record, base, network, returned, accepted>>
    BY <1>2 DEF CutShort, tables, outside
  <2>2. QED
    BY <2>1, ChannelCallGoesOn
<1>3. QED
  BY <1>1, <1>2

\* What an application does between calls sends nothing and reads nothing.
LEMMA ChannelBetween ==
    ASSUME OneTimeInv, ChannelInv, NEW p \in Parties,
           \/ GenerateBundle(p) \/ Replenish(p) \/ Reinstall(p)
           \/ \E q \in Parties : DeleteSession(p, q) \/ DeleteIdentity(p, q)
    PROVE  ChannelInv'
<1>1. Square(record)
  BY DEF OneTimeInv, CallShape
<1>2. CASE GenerateBundle(p) \/ Replenish(p) \/ \E q \in Parties : DeleteIdentity(p, q)
  <2>1. UNCHANGED <<step, arg, base, network, returned, accepted, record>>
    BY <1>2 DEF GenerateBundle, Replenish, DeleteIdentity, tables, calls, outside, history
  <2>2. QED
    BY <2>1, ChannelForgets
<1>3. CASE Reinstall(p)
  <2>1. /\ UNCHANGED <<step, arg, base, network, returned, accepted>>
        /\ record' = RowReset(record, p, NoRecord)
    BY <1>3 DEF Reinstall, calls, outside, RowReset
  <2>2. \A x, y \in Parties : record'[x][y] = IF x = p THEN NoRecord ELSE record[x][y]
    BY <1>1, <2>1, RowIsReset
  <2>3. QED
    BY <2>1, <2>2, ChannelForgets
<1>4. ASSUME NEW q \in Parties, DeleteSession(p, q) PROVE ChannelInv'
  <2>1. /\ UNCHANGED <<step, arg, base, network, returned, accepted>>
        /\ record' = Replaced(record, p, q, NoRecord)
    BY <1>4 DEF DeleteSession, calls, outside, Replaced
  <2>2. \A x, y \in Parties :
           record'[x][y] = IF x = p /\ y = q THEN NoRecord ELSE record[x][y]
    BY <1>1, <2>1, EntryReplaced
  <2>3. QED
    BY <2>1, <2>2, ChannelForgets
<1>5. QED
  BY <1>2, <1>3, <1>4

\* Every step keeps what the ends of a session know of it.
LEMMA ChannelNext ==
    TrustInv /\ OneTimeInv /\ ChannelInv /\ [Next]_vars => ChannelInv'
<1> SUFFICES ASSUME TrustInv, OneTimeInv, ChannelInv, [Next]_vars PROVE ChannelInv'
  OBVIOUS
<1>1. CASE UNCHANGED vars
  <2>1. UNCHANGED <<step, arg, base, network, returned, accepted, record>>
    BY <1>1 DEF vars, tables, calls, outside, history
  <2>2. QED
    BY <2>1, ChannelForgets
<1>2. CASE Next
  BY <1>2, ChannelEncrypt, ChannelDecrypt, ChannelAccept, ChannelStore,
     ChannelProcess, ChannelWrites, ChannelBetween DEF Next
<1>3. QED
  BY <1>1, <1>2

\* The parts of ReturnedOnce and of NumbersFresh that speak of one step.
ReadsNew ==
    \A p \in Parties :
        Busy(p, "storeSession") /\ step'[p] = "idle" /\ faults' = faults
        /\ arg[p].result = "read" => arg[p].msg \notin returned

SendsNew ==
    \A p \in Parties :
        Busy(p, "storeSession") /\ step'[p] = "idle" /\ faults' = faults
        /\ arg[p].result = "sent" => arg[p].msg \notin network

\* What a call is about to return was not returned before.
LEMMA ReadsNewStep == ChannelInv => ReadsNew
<1> SUFFICES ASSUME ChannelInv, NEW p \in Parties, step[p] = "storeSession",
                    arg[p].result = "read"
             PROVE  arg[p].msg \notin returned
  BY DEF ReadsNew, Busy
<1>1. CallTrue(p, arg[p], base, network, returned, accepted)
  BY DEF ChannelInv, CallsTrue
<1>2. QED
  BY <1>1 DEF CallTrue, ReadTrue

\* What a call is about to send was not sent before.
LEMMA SendsNewStep == ChannelInv => SendsNew
<1> SUFFICES ASSUME ChannelInv, NEW p \in Parties, step[p] = "storeSession",
                    arg[p].result = "sent", arg[p].msg \in network
             PROVE  FALSE
  BY DEF SendsNew, Busy
<1> DEFINE a == arg[p]
<1>1. CallTrue(p, a, base, network, returned, accepted)
  BY DEF ChannelInv, CallsTrue
<1>2. a.msg \in network /\ a.result = "sent"
  OBVIOUS
<1> HIDE DEF a
<1>3. SendTrue(p, a, base, network)
  BY <1>1, <1>2 DEF CallTrue
<1>4. a.msg.number < a.msg.number
  BY <1>2, <1>3 DEF SendTrue
<1>5. a.msg.number \in Nat
  BY <1>2 DEF ChannelInv, MessagesTrue
<1>6. QED
  BY <1>4, <1>5

\* Whatever the network duplicates, reorders or replays, whatever sessions are deleted
\* and wherever calls are cut short, the plaintext of a message is returned once: its
\* number is seen (signal_storage.rs:254), or its one-time key is gone
\* (signal_storage.rs:700).
THEOREM ReturnedOnceHolds == Spec => ReturnedOnce
<1>1. ChannelInv /\ [Next]_vars => [ReadsNew]_vars
  BY ReadsNewStep
<1>2. QED
  BY <1>1, TrustInit, TrustNext, OneTimeInit, OneTimeNext, ChannelInit, ChannelNext,
     PTL DEF Spec, ReturnedOnce, ReadsNew

\* No two ciphertexts of a party have the same number in a session: the session that
\* counts a message is stored before the message is returned (signal_storage.rs:254).
THEOREM NumbersFreshHolds == Spec => NumbersFresh
<1>1. ChannelInv /\ [Next]_vars => [SendsNew]_vars
  BY SendsNewStep
<1>2. QED
  BY <1>1, TrustInit, TrustNext, OneTimeInit, OneTimeNext, ChannelInit, ChannelNext,
     PTL DEF Spec, NumbersFresh, SendsNew

-----------------------------------------------------------------------------
(* Types.                                                                  *)

\* No identity is ahead of the installations of its party, wherever it is kept.
IdentitiesOK ==
    /\ install \in [Parties -> Nat \ {0}]
    /\ \A p, q \in Parties : pinned[p][q] \in {0} \cup (1 .. install[q])
    /\ \A b \in bundles : b.install \in 1 .. install[b.of]
    /\ \A s \in DOMAIN base :
          /\ base[s].by \in Parties
          /\ base[s].byInstall \in 1 .. install[base[s].by]
          /\ base[s].toInstall \in 1 .. install[base[s].to]
    /\ \A p \in Parties :
          ~ Busy(p, "idle") => arg[p].identity \in 1 .. install[arg[p].peer]

\* A table of one-time keys has a key per id, and no id ahead of the count of keys.
KeyTable(tab, n) ==
    /\ tab \subseteq (1 .. n) \X (1 .. n)
    /\ \A k, l \in tab : k[1] = l[1] => k = l

KeysOK == \A p \in Parties : minted[p] <= MaxMinted /\ KeyTable(oneTime[p], minted[p])

\* A record of some of the first n sessions.
RecordFits(rec, n) ==
    /\ DOMAIN rec.states \subseteq 1 .. n
    /\ rec.current \in {0} \cup DOMAIN rec.states
    /\ rec.current = 0 <=> DOMAIN rec.states = {}
    /\ \A s \in DOMAIN rec.states :
          rec.states[s] \in [pending : BOOLEAN, sent : 0 .. MaxSent,
                             seen : SUBSET (1 .. MaxSent)]

RecordsFit ==
    \A p \in Parties :
        /\ RecordFits(arg[p].rec, Len(base))
        /\ \A q \in Parties : RecordFits(record[p][q], Len(base))

\* The messages sent, and those about to be, have numbers within the bound.
NumbersFit ==
    /\ \A m \in network : m.number \in 1 .. MaxSent
    /\ \A p \in Parties : arg[p].result = "sent" => arg[p].msg.number \in 1 .. MaxSent

LimitsOK ==
    /\ \A p \in Parties :
          step[p] \in {"idle", "saveIdentity", "removePreKey", "storeSession"}
    /\ Len(base) \in 0 .. MaxSessions
    /\ answers \in Nat
    /\ deletes \in 0 .. MaxDeletes
    /\ faults \in 0 .. MaxFaults

SessionTypes == IdentitiesOK /\ KeysOK /\ RecordsFit /\ NumbersFit /\ LimitsOK

\* What the other proofs establish.
SessionInv == TrustInv /\ OneTimeInv /\ ChannelInv

-----------------------------------------------------------------------------
(* Identities.                                                             *)

\* What a call has computed when it begins.
LEMMA EncryptBegins ==
    ASSUME NEW p, NEW q, BeginEncrypt(p, q)
    PROVE  LET rec == record[p][q]
               s   == rec.current
               st  == rec.states[s]
           IN  \E a : /\ Go(p, "saveIdentity", a)
                      /\ a.peer = q /\ a.identity = PeerInstall(p, s)
                      /\ a.rec = WithCurrent(rec, s,
                                     State(st.pending, st.sent + 1, st.seen))
                      /\ a.msg.number = st.sent + 1
                      /\ s # 0 /\ st.sent < MaxSent
<1> DEFINE rec == record[p][q]
           s   == rec.current
           st  == rec.states[s]
           new == WithCurrent(rec, s, State(st.pending, st.sent + 1, st.seen))
           msg == [session |-> s, number |-> st.sent + 1, from |-> p,
                   first |-> st.pending]
           a   == Args(q, PeerInstall(p, s), new, NoKey, msg, "sent")
<1>1. Go(p, "saveIdentity", a) /\ s # 0 /\ st.sent < MaxSent
  BY DEF BeginEncrypt
<1>2. msg.number = st.sent + 1
  OBVIOUS
<1> HIDE DEF new, msg
<1>3. a.peer = q /\ a.identity = PeerInstall(p, s) /\ a.rec = new /\ a.msg = msg
  BY DEF Args
<1> HIDE DEF a
<1>4. QED
  BY <1>1, <1>2, <1>3 DEF new

\* decrypt in a known session goes on with the session acknowledged and the number seen.
LEMMA DecryptBegins ==
    ASSUME NEW p, NEW m, BeginDecrypt(p, m)
    PROVE  LET rec == record[p][m.from]
               st  == rec.states[m.session]
           IN  \E a : /\ Go(p, "saveIdentity", a)
                      /\ a.peer = m.from /\ a.identity = PeerInstall(p, m.session)
                      /\ a.rec = WithCurrent(rec, m.session,
                                     State(FALSE, st.sent, st.seen \cup {m.number}))
                      /\ a.result = "read"
                      /\ m.session \in DOMAIN rec.states
<1> DEFINE rec == record[p][m.from]
           st  == rec.states[m.session]
           new == WithCurrent(rec, m.session,
                              State(FALSE, st.sent, st.seen \cup {m.number}))
           a   == Args(m.from, PeerInstall(p, m.session), new, NoKey, m, "read")
<1>1. Go(p, "saveIdentity", a) /\ m.session \in DOMAIN rec.states
  BY DEF BeginDecrypt
<1> HIDE DEF new
<1>2. /\ a.peer = m.from /\ a.identity = PeerInstall(p, m.session)
      /\ a.rec = new /\ a.result = "read"
  BY DEF Args
<1> HIDE DEF a
<1>3. QED
  BY <1>1, <1>2 DEF new

\* decrypt of a first message goes on with a new session.
LEMMA AcceptBegins ==
    ASSUME NEW p, NEW m, BeginAccept(p, m)
    PROVE  \E a : /\ Go(p, "saveIdentity", a)
                  /\ a.peer = m.from /\ a.identity = base[m.session].byInstall
                  /\ a.rec = WithCurrent(record[p][m.from], m.session,
                                         State(FALSE, 0, {m.number}))
                  /\ a.result = "read"
                  /\ m.first
<1> DEFINE new == WithCurrent(record[p][m.from], m.session, State(FALSE, 0, {m.number}))
           a   == Args(m.from, base[m.session].byInstall, new, base[m.session].key, m,
                       "read")
<1>1. Go(p, "saveIdentity", a) /\ m.first
  BY DEF BeginAccept
<1> HIDE DEF new
<1>2. /\ a.peer = m.from /\ a.identity = base[m.session].byInstall
      /\ a.rec = new /\ a.result = "read"
  BY DEF Args
<1> HIDE DEF a
<1>3. QED
  BY <1>1, <1>2 DEF new

\* process_prekey_bundle goes on with the session that it has appended.
LEMMA ProcessBegins ==
    ASSUME NEW p, NEW b, BeginProcess(p, b)
    PROVE  \E a : /\ Go(p, "saveIdentity", a)
                  /\ a.peer = b.of /\ a.identity = b.install
                  /\ a.rec = WithCurrent(record[p][b.of], Len(base) + 1,
                                         State(TRUE, 0, {}))
                  /\ a.result = "ok"
<1> DEFINE new == WithCurrent(record[p][b.of], Len(base) + 1, State(TRUE, 0, {}))
           a   == Args(b.of, b.install, new, NoKey, NoMessage, "ok")
<1>1. Go(p, "saveIdentity", a)
  BY DEF BeginProcess
<1> HIDE DEF new
<1>2. a.peer = b.of /\ a.identity = b.install /\ a.rec = new /\ a.result = "ok"
  BY DEF Args
<1> HIDE DEF a
<1>3. QED
  BY <1>1, <1>2 DEF new

\* What one party's call goes on with.
LEMMA IdentityGoesOn ==
    ASSUME OneTimeInv, IdentitiesOK, NEW p \in Parties, NEW s, NEW a, Go(p, s, a),
           s # "idle" => a.peer \in Parties /\ a.identity \in 1 .. install[a.peer],
           install' = install, bundles' = bundles, pinned' = pinned,
           base' = base
    PROVE  IdentitiesOK'
<1>1. /\ \A q \in Parties : step'[q] = IF q = p THEN s ELSE step[q]
      /\ \A q \in Parties : arg'[q] = IF q = p THEN a ELSE arg[q]
  BY DEF OneTimeInv, CallShape, Go
<1>2. ASSUME NEW q \in Parties, step'[q] # "idle"
      PROVE  arg'[q].identity \in 1 .. install'[arg'[q].peer]
  BY <1>1, <1>2 DEF IdentitiesOK, Busy
<1>3. QED
  BY <1>2 DEF IdentitiesOK, Busy

\* The identity of the peer in a session on record is one the peer had.
LEMMA PeerInstallOK ==
    ASSUME SessionInv, IdentitiesOK, NEW p \in Parties, NEW q \in Parties,
           NEW s \in DOMAIN record[p][q].states
    PROVE  PeerInstall(p, s) \in 1 .. install[q]
<1>1. Between(p, q, s, base)
  BY DEF SessionInv, ChannelInv, RecordsTrue, RecordTrue
<1>2. s \in DOMAIN base /\ base[s].by # base[s].to
  BY <1>1 DEF Between, SessionInv, ChannelInv, MessagesTrue
<1>3. QED
  BY <1>1, <1>2 DEF Between, PeerInstall, IdentitiesOK

\* A call begins with an identity that its peer had.
LEMMA IdentitiesBegin ==
    ASSUME SessionInv, IdentitiesOK, NEW p \in Parties,
           \/ \E q \in Parties : BeginEncrypt(p, q)
           \/ \E m \in network : BeginDecrypt(p, m) \/ BeginAccept(p, m)
    PROVE  IdentitiesOK'
<1>1. UNCHANGED <<install, bundles, pinned, base>>
  BY DEF BeginEncrypt, BeginDecrypt, BeginAccept, tables, outside
<1>2. ASSUME NEW q \in Parties, BeginEncrypt(p, q) PROVE IdentitiesOK'
  <2>1. PICK a : /\ Go(p, "saveIdentity", a)
                 /\ a.peer = q /\ a.identity = PeerInstall(p, record[p][q].current)
                 /\ record[p][q].current # 0
    BY <1>2, EncryptBegins
  <2>2. record[p][q].current \in DOMAIN record[p][q].states
    BY <2>1 DEF SessionInv, ChannelInv, RecordsTrue, RecordTrue
  <2>3. QED
    BY <1>1, <2>1, <2>2, PeerInstallOK, IdentityGoesOn DEF SessionInv
<1>3. ASSUME NEW m \in network, BeginDecrypt(p, m) PROVE IdentitiesOK'
  <2>1. PICK a : /\ Go(p, "saveIdentity", a)
                 /\ a.peer = m.from /\ a.identity = PeerInstall(p, m.session)
                 /\ m.session \in DOMAIN record[p][m.from].states
    BY <1>3, DecryptBegins
  <2>2. m.from \in Parties
    BY DEF SessionInv, TrustInv, Shape
  <2>3. QED
    BY <1>1, <2>1, <2>2, PeerInstallOK, IdentityGoesOn DEF SessionInv
<1>4. ASSUME NEW m \in network, BeginAccept(p, m) PROVE IdentitiesOK'
  <2>1. PICK a : /\ Go(p, "saveIdentity", a)
                 /\ a.peer = m.from /\ a.identity = base[m.session].byInstall
                 /\ m.first
    BY <1>4, AcceptBegins
  <2>2. m.from = base[m.session].by /\ m.session \in DOMAIN base /\ m.from \in Parties
    BY <2>1 DEF SessionInv, ChannelInv, MessagesTrue, TrustInv, Shape
  <2>3. a.identity \in 1 .. install[a.peer]
    BY <2>1, <2>2 DEF IdentitiesOK
  <2>4. QED
    BY <1>1, <2>1, <2>2, <2>3, IdentityGoesOn DEF SessionInv
<1>5. QED
  BY <1>2, <1>3, <1>4

\* A bundle is of an installation there was, and so is the session made with it.
LEMMA IdentitiesProcess ==
    ASSUME SessionInv, IdentitiesOK, NEW p \in Parties, NEW b \in bundles,
           BeginProcess(p, b)
    PROVE  IdentitiesOK'
<1> DEFINE new == [by |-> p, byInstall |-> install[p], to |-> b.of,
                   toInstall |-> b.install, key |-> b.key]
<1>1. PICK S : base \in Seq(S)
  BY DEF SessionInv, OneTimeInv, BaseOK
<1>2. base' = Append(base, new) /\ UNCHANGED <<install, bundles, pinned>>
  BY DEF BeginProcess, tables
<1>3. b.of \in Parties /\ b.install \in 1 .. install[b.of]
  BY DEF SessionInv, TrustInv, Shape, IdentitiesOK
<1>4. install[p] \in 1 .. install[p]
  BY DEF IdentitiesOK
<1>5. /\ new.by = p /\ new.byInstall = install[p]
      /\ new.to = b.of /\ new.toInstall = b.install
  OBVIOUS
<1> HIDE DEF new
<1>6. /\ DOMAIN base' = DOMAIN base \cup {Len(base) + 1}
      /\ base'[Len(base) + 1] = new
      /\ \A s \in DOMAIN base : base'[s] = base[s]
  BY <1>1, <1>2, AppendKeeps
<1>7. PICK a : /\ Go(p, "saveIdentity", a)
               /\ a.peer = b.of /\ a.identity = b.install
  BY ProcessBegins
<1>8. /\ \A q \in Parties : step'[q] = IF q = p THEN "saveIdentity" ELSE step[q]
      /\ \A q \in Parties : arg'[q] = IF q = p THEN a ELSE arg[q]
  BY <1>7 DEF SessionInv, OneTimeInv, CallShape, Go
<1>9. \A q \in Parties :
         step'[q] # "idle" => arg'[q].identity \in 1 .. install[arg'[q].peer]
  BY <1>3, <1>7, <1>8 DEF IdentitiesOK, Busy
<1>10. \A s \in DOMAIN base' :
          /\ base'[s].by \in Parties
          /\ base'[s].byInstall \in 1 .. install[base'[s].by]
          /\ base'[s].toInstall \in 1 .. install[base'[s].to]
  BY <1>3, <1>4, <1>5, <1>6 DEF IdentitiesOK
<1>11. QED
  BY <1>2, <1>9, <1>10 DEF IdentitiesOK, Busy

\* The writes of a call: the identity that is stored is one its peer had.
LEMMA IdentitiesWrite ==
    ASSUME SessionInv, IdentitiesOK, NEW p \in Parties,
           SaveIdentity(p) \/ RemovePreKey(p) \/ StoreSession(p) \/ CutShort(p)
    PROVE  IdentitiesOK'
<1>1. CASE SaveIdentity(p)
  <2>1. /\ UNCHANGED <<install, bundles, base>> /\ step[p] = "saveIdentity"
        /\ pinned' = Replaced(pinned, p, arg[p].peer, arg[p].identity)
        /\ \E s : Go(p, s, arg[p])
    BY <1>1 DEF SaveIdentity, Replaced, outside, Busy
  <2>2. arg[p].peer \in Parties /\ arg[p].identity \in 1 .. install[arg[p].peer]
    BY <2>1 DEF SessionInv, OneTimeInv, CallShape, IdentitiesOK, Busy
  <2>3. \A x, y \in Parties :
           pinned'[x][y] = IF x = p /\ y = arg[p].peer THEN arg[p].identity
                                                       ELSE pinned[x][y]
    BY <2>1, <2>2, EntryReplaced DEF SessionInv, TrustInv, Shape
  <2>4. /\ \A q \in Parties \ {p} : step'[q] = step[q]
        /\ \A q \in Parties : arg'[q] = arg[q]
    BY <2>1 DEF Go, SessionInv, OneTimeInv, CallShape
  <2>5. \A q \in Parties :
           step'[q] # "idle" => arg'[q].identity \in 1 .. install[arg'[q].peer]
    BY <2>2, <2>4 DEF IdentitiesOK, Busy
  <2>6. QED
    BY <2>1, <2>2, <2>3, <2>5 DEF IdentitiesOK, Busy
<1>2. CASE RemovePreKey(p)
  <2>1. /\ Go(p, "storeSession", arg[p]) /\ UNCHANGED <<install, bundles, pinned, base>>
        /\ step[p] = "removePreKey"
    BY <1>2 DEF RemovePreKey, outside, Busy
  <2>2. arg[p].peer \in Parties /\ arg[p].identity \in 1 .. install[arg[p].peer]
    BY <2>1 DEF SessionInv, OneTimeInv, CallShape, IdentitiesOK, Busy
  <2>3. QED
    BY <2>1, <2>2, IdentityGoesOn DEF SessionInv
<1>3. CASE StoreSession(p) \/ CutShort(p)
  <2>1. Go(p, "idle", NoArg) /\ UNCHANGED <<install, bundles, pinned, base>>
    BY <1>3 DEF StoreSession, CutShort, tables, outside
  <2>2. QED
    BY <2>1, IdentityGoesOn DEF SessionInv
<1>4. QED
  BY <1>1, <1>2, <1>3

\* Between calls, installations are replaced by later ones, and identities go.
LEMMA IdentitiesBetween ==
    ASSUME SessionInv, IdentitiesOK, NEW p \in Parties,
           \/ GenerateBundle(p) \/ Replenish(p) \/ Reinstall(p)
           \/ \E q \in Parties : DeleteSession(p, q) \/ DeleteIdentity(p, q)
    PROVE  IdentitiesOK'
<1>1. step' = step /\ arg' = arg /\ base' = base
  BY DEF GenerateBundle, Replenish, Reinstall, DeleteSession, DeleteIdentity, calls,
         outside
<1>2. /\ install' \in [Parties -> Nat \ {0}]
      /\ \A q \in Parties : install'[q] >= install[q]
  <2>1. install' = install \/ install' = [install EXCEPT ![p] = @ + 1]
    BY DEF GenerateBundle, Replenish, Reinstall, DeleteSession, DeleteIdentity, tables
  <2>2. QED
    BY <2>1 DEF IdentitiesOK
<1>3. \A x, y \in Parties : pinned'[x][y] \in {0, pinned[x][y]}
  <2>1. CASE Reinstall(p) \/ \E q \in Parties : DeleteIdentity(p, q)
    BY <2>1, IdentitiesForgotten DEF SessionInv
  <2>2. CASE ~ (Reinstall(p) \/ \E q \in Parties : DeleteIdentity(p, q))
    BY <2>2 DEF GenerateBundle, Replenish, DeleteSession, tables
  <2>3. QED
    BY <2>1, <2>2
<1>4. \A b \in bundles' : b \in bundles \/ (b.of = p /\ b.install = install[p])
  BY DEF GenerateBundle, Replenish, Reinstall, DeleteSession, DeleteIdentity, outside
<1>6. \A b \in bundles' : b.install \in 1 .. install'[b.of]
  BY <1>2, <1>4 DEF IdentitiesOK, SessionInv, TrustInv, Shape
<1>7. \A x, y \in Parties : pinned'[x][y] \in {0} \cup (1 .. install'[y])
  BY <1>2, <1>3 DEF IdentitiesOK
<1>8. \A q \in Parties :
         step'[q] # "idle" => arg'[q].identity \in 1 .. install'[arg'[q].peer]
  BY <1>1, <1>2 DEF IdentitiesOK, Busy, SessionInv, OneTimeInv, CallShape
<1>9. \A s \in DOMAIN base :
          /\ base[s].byInstall \in 1 .. install'[base[s].by]
          /\ base[s].toInstall \in 1 .. install'[base[s].to]
  BY <1>2 DEF IdentitiesOK, SessionInv, OneTimeInv, MintedOK
<1>10. QED
  BY <1>1, <1>2, <1>6, <1>7, <1>8, <1>9 DEF IdentitiesOK, Busy

\* Every step keeps the identities.
LEMMA IdentitiesNext ==
    SessionInv /\ IdentitiesOK /\ [Next]_vars => IdentitiesOK'
<1> SUFFICES ASSUME SessionInv, IdentitiesOK, [Next]_vars PROVE IdentitiesOK'
  OBVIOUS
<1>1. CASE UNCHANGED vars
  BY <1>1 DEF vars, tables, calls, outside, IdentitiesOK, Busy
<1>2. CASE Next
  BY <1>2, IdentitiesBegin, IdentitiesProcess, IdentitiesWrite, IdentitiesBetween
     DEF Next
<1>3. QED
  BY <1>1, <1>2

-----------------------------------------------------------------------------
(* One-time keys.                                                          *)

\* MAX(id) of a table is an id of the table, or 0, and no id is above it.
LEMMA MaxKeyIdFact ==
    ASSUME NEW p, NEW n \in Nat, KeyTable(oneTime[p], n)
    PROVE  MaxKeyId(p) \in 0 .. n /\ \A k \in oneTime[p] : k[1] <= MaxKeyId(p)
<1>1. CASE oneTime[p] = {}
  BY <1>1 DEF MaxKeyId
<1>2. CASE oneTime[p] # {}
  <2> DEFINE ids == KeyIds(p)
             above == {b \in Nat : \A x \in ids : x <= b}
             less == {ss \in Nat \X Nat : ss[1] < ss[2]}
  <2>1. ids \subseteq 1 .. n /\ ids # {}
    BY <1>2 DEF KeyIds, KeyTable
  <2>2. n \in above /\ above \subseteq Nat
    BY <2>1
  <2>3. IsWellFoundedOn(less, Nat)
    BY NatLessThanWellFounded DEF OpToRel
  <2>4. PICK b \in above : \A x \in above : ~ (<<x, b>> \in less)
    BY <2>2, <2>3, WFMin
  <2>5. b \in Nat /\ \A x \in ids : x <= b
    BY <2>4
  <2>6. b \in ids
    <3>1. SUFFICES ASSUME b \notin ids PROVE FALSE
      OBVIOUS
    <3>2. \A x \in ids : x \in Nat \ {0} /\ x <= b - 1
      BY <2>1, <2>5, <3>1
    <3>3. b - 1 \in above /\ b - 1 < b
      BY <2>1, <2>5, <3>2
    <3>4. QED
      BY <2>4, <2>5, <3>3
  <2>7. \A x \in ids : b >= x /\ x \in Nat
    BY <2>1, <2>5
  <2> HIDE DEF ids
  <2>8. Max(ids) \in ids /\ \A x \in ids : Max(ids) >= x
    BY <2>6, <2>7 DEF Max
  <2>9. MaxKeyId(p) = Max(ids)
    BY <1>2 DEF MaxKeyId, ids
  <2>10. \A k \in oneTime[p] : k[1] \in ids
    BY DEF ids, KeyIds
  <2> DEFINE top == Max(ids)
  <2> HIDE DEF top
  <2>11. top \in ids /\ \A x \in ids : top >= x
    BY <2>8 DEF top
  <2>12. top \in 0 .. n
    BY <2>1, <2>11
  <2>13. ASSUME NEW k \in oneTime[p] PROVE k[1] <= top
    <3>1. k[1] \in ids
      BY <2>10
    <3>2. QED
      BY <2>1, <2>11, <2>12, <3>1
  <2>14. QED
    BY <2>9, <2>12, <2>13 DEF top
<1>3. QED
  BY <1>1, <1>2

\* The ids of new keys begin after the highest, their numbers after the count.
LEMMA KeyTableGrows ==
    ASSUME NEW tab, NEW n \in Nat, KeyTable(tab, n), NEW c \in Nat,
           NEW top \in 0 .. n, \A k \in tab : k[1] <= top
    PROVE  KeyTable(tab \cup {<<top + i, n + i>> : i \in 1 .. c}, n + c)
<1> DEFINE new == {<<top + i, n + i>> : i \in 1 .. c}
<1>1. tab \subseteq (1 .. n + c) \X (1 .. n + c)
  BY DEF KeyTable
<1>2. new \subseteq (1 .. n + c) \X (1 .. n + c)
  OBVIOUS
<1>3. \A k, l \in new : k[1] = l[1] => k = l
  OBVIOUS
<1>4. \A k \in new : k[1] > top
  OBVIOUS
<1>5. \A k \in tab : k[1] \in Nat
  BY DEF KeyTable
<1>6. \A k \in tab : \A l \in new : k[1] # l[1]
  BY <1>4, <1>5
<1> HIDE DEF new
<1>7. KeyTable(tab \cup new, n + c)
  BY <1>1, <1>2, <1>3, <1>6 DEF KeyTable
<1>8. QED
  BY <1>7 DEF new

\* Keys that go leave a table of keys.
LEMMA KeyTableShrinks ==
    ASSUME NEW tab, NEW n, KeyTable(tab, n), NEW rest \in SUBSET tab
    PROVE  KeyTable(rest, n)
BY DEF KeyTable

\* A table has as many ids as keys.
LEMMA KeyTableCount ==
    ASSUME NEW tab, NEW n \in Nat, KeyTable(tab, n)
    PROVE  Cardinality({k[1] : k \in tab}) = Cardinality(tab)
<1> DEFINE ids == {k[1] : k \in tab}
           f == [k \in tab |-> k[1]]
<1>1. IsFiniteSet(tab)
  <2>1. IsFiniteSet(1 .. n)
    BY FS_Interval
  <2>2. IsFiniteSet((1 .. n) \X (1 .. n))
    BY <2>1, FS_Product
  <2>3. QED
    BY <2>2, FS_Subset DEF KeyTable
<1>2. f \in [tab -> ids] /\ \A i \in ids : \E k \in tab : f[k] = i
  OBVIOUS
<1>3. \A k, l \in tab : f[k] = f[l] => k = l
  BY DEF KeyTable
<1> HIDE DEF f
<1>4. f \in Bijection(tab, ids)
  BY <1>2, <1>3 DEF Bijection, Injection, IsInjective, Surjection
<1>5. ExistsBijection(tab, ids)
  BY <1>4 DEF ExistsBijection
<1>6. QED
  BY <1>1, <1>5, FS_Bijection

\* Keys come and go with their tables in order.
LEMMA KeysNext ==
    SessionInv /\ KeysOK /\ [Next]_vars => KeysOK'
<1> SUFFICES ASSUME SessionInv, KeysOK, [Next]_vars PROVE KeysOK'
  OBVIOUS
<1>1. /\ minted \in [Parties -> Nat] /\ DOMAIN oneTime = Parties
      /\ ReplenishCount \in Nat
  BY BoundsAssumption DEF SessionInv, OneTimeInv, MintedOK
<1>2. ASSUME NEW p \in Parties, RemovePreKey(p) PROVE KeysOK'
  <2>1. minted' = minted
        /\ oneTime' = [oneTime EXCEPT ![p] = {k \in @ : k[1] # arg[p].key[1]}]
    BY <1>2 DEF RemovePreKey, history
  <2>2. \A q \in Parties : oneTime'[q] \subseteq oneTime[q]
    BY <1>1, <2>1
  <2>3. QED
    BY <2>1, <2>2, KeyTableShrinks DEF KeysOK
<1>3. ASSUME NEW p \in Parties, Replenish(p) PROVE KeysOK'
  <2> DEFINE new == {<<MaxKeyId(p) + i, minted[p] + i>> : i \in 1 .. ReplenishCount}
  <2>1. /\ minted[p] + ReplenishCount <= MaxMinted
        /\ oneTime' = [oneTime EXCEPT ![p] = @ \cup new]
        /\ minted' = [minted EXCEPT ![p] = @ + ReplenishCount]
    BY <1>3 DEF Replenish, NewKeys
  <2>2. minted[p] \in Nat /\ KeyTable(oneTime[p], minted[p])
    BY <1>1 DEF KeysOK
  <2>3. KeyTable(oneTime[p] \cup new, minted[p] + ReplenishCount)
    BY <1>1, <2>2, MaxKeyIdFact, KeyTableGrows
  <2> HIDE DEF new
  <2>4. QED
    BY <1>1, <2>1, <2>3 DEF KeysOK
<1>4. ASSUME NEW p \in Parties, Reinstall(p) PROVE KeysOK'
  <2> DEFINE new == {<<0 + i, minted[p] + i>> : i \in 1 .. ReplenishCount}
  <2>1. /\ minted[p] + ReplenishCount <= MaxMinted
        /\ oneTime' = [oneTime EXCEPT ![p] = IF p \in Publishers THEN new ELSE {}]
        /\ minted' = [minted EXCEPT ![p] =
              IF p \in Publishers THEN @ + ReplenishCount ELSE @]
    BY <1>4 DEF Reinstall, NewKeys
  <2>2. minted[p] \in Nat /\ minted[p] <= MaxMinted
    BY <1>1 DEF KeysOK
  <2>3. KeyTable({}, minted[p])
    BY DEF KeyTable
  <2>4. KeyTable({} \cup new, minted[p] + ReplenishCount)
    <3>1. 0 \in 0 .. minted[p]
      BY <2>2
    <3>2. QED
      BY <1>1, <2>2, <2>3, <3>1, KeyTableGrows
  <2> HIDE DEF new
  <2>5. {} \cup new = new
    OBVIOUS
  <2>6. QED
    BY <1>1, <2>1, <2>2, <2>3, <2>4, <2>5 DEF KeysOK
<1>5. CASE ~ \E p \in Parties : RemovePreKey(p) \/ Replenish(p) \/ Reinstall(p)
  <2>1. UNCHANGED <<oneTime, minted>>
    <3>1. CASE UNCHANGED vars
      BY <3>1 DEF vars, tables, history
    <3>2. ASSUME NEW p \in Parties,
                 \/ GenerateBundle(p)
                 \/ \E b \in bundles : BeginProcess(p, b)
                 \/ \E q \in Parties : BeginEncrypt(p, q)
                 \/ \E m \in network : BeginDecrypt(p, m) \/ BeginAccept(p, m)
          PROVE  UNCHANGED <<oneTime, minted>>
      BY <3>2 DEF tables, history, GenerateBundle, BeginProcess, BeginEncrypt,
         BeginDecrypt, BeginAccept
    <3>3. ASSUME NEW p \in Parties,
                 \/ \E q \in Parties : DeleteSession(p, q) \/ DeleteIdentity(p, q)
                 \/ SaveIdentity(p) \/ StoreSession(p) \/ CutShort(p)
          PROVE  UNCHANGED <<oneTime, minted>>
      BY <3>3 DEF tables, history, DeleteSession, DeleteIdentity, SaveIdentity,
         StoreSession, CutShort
    <3>4. QED
      BY <1>5, <3>1, <3>2, <3>3 DEF Next
  <2>2. QED
    BY <2>1 DEF KeysOK
<1>6. QED
  BY <1>2, <1>3, <1>4, <1>5

-----------------------------------------------------------------------------
(* Records and messages.                                                   *)

\* A record that fits the sessions there are still fits when there are more.
LEMMA RecordFitsMore ==
    ASSUME NEW n \in Nat, NEW m \in Nat, n <= m, NEW rec, RecordFits(rec, n)
    PROVE  RecordFits(rec, m)
<1>1. 1 .. n \subseteq 1 .. m
  OBVIOUS
<1>2. QED
  BY <1>1 DEF RecordFits

\* A record with a session more, or with a session in another state.
LEMMA RecordFitsWith ==
    ASSUME NEW n \in Nat, NEW rec, RecordFits(rec, n), NEW s \in 1 .. n,
           NEW b \in BOOLEAN, NEW c \in 0 .. MaxSent, NEW seen \in SUBSET (1 .. MaxSent)
    PROVE  RecordFits(WithCurrent(rec, s, State(b, c, seen)), n)
<1> DEFINE st == State(b, c, seen)
           new == WithCurrent(rec, s, st)
<1>1. st \in [pending : BOOLEAN, sent : 0 .. MaxSent, seen : SUBSET (1 .. MaxSent)]
  BY DEF State
<1> HIDE DEF st
<1>2. /\ new.current = s
      /\ DOMAIN new.states = DOMAIN rec.states \cup {s}
      /\ new.states[s] = st
      /\ \A x \in DOMAIN rec.states : x # s => new.states[x] = rec.states[x]
  BY WithCurrentStates
<1> HIDE DEF new
<1>3. s # 0 /\ DOMAIN new.states # {}
  BY <1>2
<1>4. RecordFits(new, n)
  BY <1>1, <1>2, <1>3 DEF RecordFits
<1>5. QED
  BY <1>4 DEF new, st

\* The record of no session.
LEMMA NoRecordFits ==
    ASSUME NEW n
    PROVE  RecordFits(NoRecord, n)
BY DEF RecordFits, NoRecord

\* What one party's call goes on with.
LEMMA RecordGoesOn ==
    ASSUME OneTimeInv, RecordsFit, NumbersFit, NEW p \in Parties, NEW s, NEW a,
           Go(p, s, a), RecordFits(a.rec, Len(base)),
           a.result = "sent" => a.msg.number \in 1 .. MaxSent,
           UNCHANGED <<record, base>>,
           \A m \in network' : m \in network \/ m.number \in 1 .. MaxSent
    PROVE  RecordsFit' /\ NumbersFit'
<1>1. \A q \in Parties : arg'[q] = IF q = p THEN a ELSE arg[q]
  BY DEF OneTimeInv, CallShape, Go
<1>2. RecordsFit'
  BY <1>1 DEF RecordsFit
<1>3. NumbersFit'
  BY <1>1 DEF NumbersFit
<1>4. QED
  BY <1>2, <1>3

\* What is known of the sessions and of the state of one of them.
LEMMA StateFits ==
    ASSUME SessionInv, RecordsFit, NEW p \in Parties, NEW q \in Parties
    PROVE  /\ Len(base) \in Nat /\ DOMAIN base = 1 .. Len(base)
           /\ RecordFits(record[p][q], Len(base))
           /\ record[p][q].current # 0
                 => record[p][q].current \in DOMAIN record[p][q].states
           /\ \A s \in DOMAIN record[p][q].states :
                 /\ s \in 1 .. Len(base)
                 /\ record[p][q].states[s].pending \in BOOLEAN
                 /\ record[p][q].states[s].sent \in 0 .. MaxSent
                 /\ record[p][q].states[s].seen \in SUBSET (1 .. MaxSent)
<1>1. Len(base) \in Nat /\ DOMAIN base = 1 .. Len(base)
  <2>1. PICK S : base \in Seq(S)
    BY DEF SessionInv, OneTimeInv, BaseOK
  <2>2. QED
    BY <2>1
<1>2. RecordFits(record[p][q], Len(base))
  BY DEF RecordsFit
<1>3. QED
  BY <1>1, <1>2 DEF RecordFits

\* encrypt counts one message more, decrypt has seen one more.
LEMMA RecordsBegin ==
    ASSUME SessionInv, RecordsFit, NumbersFit, NEW p \in Parties,
           \/ \E q \in Parties : BeginEncrypt(p, q)
           \/ \E m \in network : BeginDecrypt(p, m) \/ BeginAccept(p, m)
    PROVE  RecordsFit' /\ NumbersFit'
<1>1. UNCHANGED <<record, base, network>> /\ OneTimeInv
  BY DEF BeginEncrypt, BeginDecrypt, BeginAccept, tables, outside, SessionInv
<1>2. MaxSent \in Nat
  BY BoundsAssumption DEF BoundsAssumption
<1>3. ASSUME NEW q \in Parties, BeginEncrypt(p, q) PROVE RecordsFit' /\ NumbersFit'
  <2> DEFINE rec == record[p][q]
             s   == rec.current
             st  == rec.states[s]
  <2>1. PICK a : /\ Go(p, "saveIdentity", a)
                 /\ a.rec = WithCurrent(rec, s, State(st.pending, st.sent + 1, st.seen))
                 /\ a.msg.number = st.sent + 1
                 /\ s # 0 /\ st.sent < MaxSent
    BY <1>3, EncryptBegins
  <2>2. /\ s \in 1 .. Len(base) /\ Len(base) \in Nat /\ RecordFits(rec, Len(base))
        /\ st.pending \in BOOLEAN /\ st.sent \in 0 .. MaxSent
        /\ st.seen \in SUBSET (1 .. MaxSent)
    BY <2>1, StateFits
  <2> HIDE DEF rec, s, st
  <2>3. st.sent + 1 \in 0 .. MaxSent /\ st.sent + 1 \in 1 .. MaxSent
    BY <1>2, <2>1, <2>2
  <2>4. RecordFits(a.rec, Len(base))
    BY <2>1, <2>2, <2>3, RecordFitsWith
  <2>5. QED
    BY <1>1, <2>1, <2>3, <2>4, RecordGoesOn
<1>4. ASSUME NEW m \in network, BeginDecrypt(p, m) PROVE RecordsFit' /\ NumbersFit'
  <2> DEFINE rec == record[p][m.from]
             st  == rec.states[m.session]
  <2>1. PICK a : /\ Go(p, "saveIdentity", a)
                 /\ a.rec = WithCurrent(rec, m.session,
                                State(FALSE, st.sent, st.seen \cup {m.number}))
                 /\ a.result = "read"
                 /\ m.session \in DOMAIN rec.states
    BY <1>4, DecryptBegins
  <2>2. m.from \in Parties /\ m.number \in 1 .. MaxSent
    BY DEF SessionInv, TrustInv, Shape, NumbersFit
  <2>3. /\ m.session \in 1 .. Len(base) /\ Len(base) \in Nat
        /\ RecordFits(rec, Len(base))
        /\ st.sent \in 0 .. MaxSent /\ st.seen \in SUBSET (1 .. MaxSent)
    BY <2>1, <2>2, StateFits
  <2> DEFINE sent == st.sent
             seen == st.seen \cup {m.number}
  <2>4. sent \in 0 .. MaxSent /\ seen \in SUBSET (1 .. MaxSent)
    BY <2>2, <2>3
  <2>5. a.rec = WithCurrent(rec, m.session, State(FALSE, sent, seen))
    BY <2>1
  <2> HIDE DEF rec, st, sent, seen
  <2>6. RecordFits(WithCurrent(rec, m.session, State(FALSE, sent, seen)), Len(base))
    BY <2>3, <2>4, RecordFitsWith
  <2>7. RecordFits(a.rec, Len(base))
    BY <2>5, <2>6
  <2>8. QED
    BY <1>1, <2>1, <2>7, RecordGoesOn
<1>5. ASSUME NEW m \in network, BeginAccept(p, m) PROVE RecordsFit' /\ NumbersFit'
  <2> DEFINE rec == record[p][m.from]
  <2>1. PICK a : /\ Go(p, "saveIdentity", a)
                 /\ a.rec = WithCurrent(rec, m.session, State(FALSE, 0, {m.number}))
                 /\ a.result = "read"
    BY <1>5, AcceptBegins
  <2>2. m.from \in Parties /\ m.number \in 1 .. MaxSent /\ m.session \in DOMAIN base
    BY DEF SessionInv, TrustInv, Shape, NumbersFit, OneTimeInv, CallShape
  <2>3. /\ m.session \in 1 .. Len(base) /\ Len(base) \in Nat
        /\ RecordFits(rec, Len(base))
    BY <2>2, StateFits
  <2> HIDE DEF rec
  <2>4. 0 \in 0 .. MaxSent /\ {m.number} \in SUBSET (1 .. MaxSent)
    BY <1>2, <2>2
  <2>5. RecordFits(a.rec, Len(base))
    BY <2>1, <2>3, <2>4, RecordFitsWith
  <2>6. QED
    BY <1>1, <2>1, <2>5, RecordGoesOn
<1>6. QED
  BY <1>3, <1>4, <1>5

\* A new session joins the record, with no message yet.
LEMMA RecordsProcess ==
    ASSUME SessionInv, RecordsFit, NumbersFit, NEW p \in Parties, NEW b \in bundles,
           BeginProcess(p, b)
    PROVE  RecordsFit' /\ NumbersFit'
<1> DEFINE n == Len(base)
           rec == record[p][b.of]
<1>1. PICK a : /\ Go(p, "saveIdentity", a)
               /\ a.rec = WithCurrent(rec, n + 1, State(TRUE, 0, {}))
               /\ a.result = "ok"
  BY ProcessBegins
<1>2. UNCHANGED <<record, network>> /\ Len(base') = n + 1
  <2>1. PICK S : base \in Seq(S)
    BY DEF SessionInv, OneTimeInv, BaseOK
  <2>2. \E e : base' = Append(base, e)
    BY DEF BeginProcess
  <2>3. UNCHANGED <<record, network>>
    BY DEF BeginProcess, tables
  <2>4. QED
    BY <2>1, <2>2, <2>3
<1>3. b.of \in Parties
  BY DEF SessionInv, TrustInv, Shape
<1>4. n \in Nat /\ RecordFits(rec, n)
  BY <1>3, StateFits
<1> HIDE DEF n, rec
<1>5. RecordFits(a.rec, n + 1)
  <2>1. n + 1 \in Nat /\ n + 1 \in 1 .. n + 1 /\ n <= n + 1
    BY <1>4
  <2>2. RecordFits(rec, n + 1)
    BY <1>4, <2>1, RecordFitsMore
  <2>3. 0 \in 0 .. MaxSent /\ {} \in SUBSET (1 .. MaxSent)
    BY BoundsAssumption DEF BoundsAssumption
  <2>4. QED
    BY <1>1, <2>1, <2>2, <2>3, RecordFitsWith
<1>6. \A x \in Parties : arg'[x] = IF x = p THEN a ELSE arg[x]
  BY <1>1 DEF SessionInv, OneTimeInv, CallShape, Go
<1>7. \A r : RecordFits(r, n) => RecordFits(r, n + 1)
  BY <1>4, RecordFitsMore
<1>8. RecordsFit'
  BY <1>2, <1>5, <1>6, <1>7 DEF RecordsFit, n
<1>9. NumbersFit'
  BY <1>1, <1>2, <1>6 DEF NumbersFit
<1>10. QED
  BY <1>8, <1>9

\* What a call computed is stored, or forgotten.
LEMMA RecordsWrite ==
    ASSUME SessionInv, RecordsFit, NumbersFit, NEW p \in Parties,
           SaveIdentity(p) \/ RemovePreKey(p) \/ StoreSession(p) \/ CutShort(p)
    PROVE  RecordsFit' /\ NumbersFit'
<1>1. OneTimeInv /\ RecordFits(arg[p].rec, Len(base))
      /\ (arg[p].result = "sent" => arg[p].msg.number \in 1 .. MaxSent)
  BY DEF SessionInv, RecordsFit, NumbersFit
<1>2. RecordFits(NoArg.rec, Len(base)) /\ NoArg.result # "sent"
  BY NoRecordFits DEF NoArg, Args
<1>3. CASE SaveIdentity(p) \/ RemovePreKey(p)
  <2>1. UNCHANGED <<record, base, network>> /\ \E s : Go(p, s, arg[p])
    BY <1>3 DEF SaveIdentity, RemovePreKey, outside
  <2>2. QED
    BY <1>1, <2>1, RecordGoesOn
<1>4. CASE CutShort(p)
  <2>1. UNCHANGED <<record, base, network>> /\ Go(p, "idle", NoArg)
    BY <1>4 DEF CutShort, tables, outside
  <2>2. QED
    BY <1>1, <1>2, <2>1, RecordGoesOn
<1>5. CASE StoreSession(p)
  <2> DEFINE a == arg[p]
  <2>1. /\ record' = Replaced(record, p, a.peer, a.rec) /\ base' = base
        /\ Go(p, "idle", NoArg) /\ step[p] = "storeSession"
        /\ \A m \in network' : m \in network \/ (a.result = "sent" /\ m = a.msg)
    BY <1>5 DEF StoreSession, Replaced, Busy
  <2>2. a.peer \in Parties /\ Square(record)
    BY <2>1 DEF SessionInv, OneTimeInv, CallShape, Busy
  <2>3. \A x, y \in Parties :
           record'[x][y] = IF x = p /\ y = a.peer THEN a.rec ELSE record[x][y]
    BY <2>1, <2>2, EntryReplaced
  <2>4. \A q \in Parties : arg'[q] = IF q = p THEN NoArg ELSE arg[q]
    BY <2>1 DEF SessionInv, OneTimeInv, CallShape, Go
  <2>5. RecordsFit'
    BY <1>1, <1>2, <2>1, <2>3, <2>4 DEF RecordsFit
  <2>6. NumbersFit'
    BY <1>1, <1>2, <2>1, <2>4 DEF NumbersFit
  <2>7. QED
    BY <2>5, <2>6
<1>6. QED
  BY <1>3, <1>4, <1>5

\* Between calls, sessions are forgotten.
LEMMA RecordsBetween ==
    ASSUME SessionInv, RecordsFit, NumbersFit, NEW p \in Parties,
           \/ GenerateBundle(p) \/ Replenish(p) \/ Reinstall(p)
           \/ \E q \in Parties : DeleteSession(p, q) \/ DeleteIdentity(p, q)
    PROVE  RecordsFit' /\ NumbersFit'
<1>1. UNCHANGED <<arg, base, network>>
  BY DEF GenerateBundle, Replenish, Reinstall, DeleteSession, DeleteIdentity, calls,
         outside
<1>2. Square(record)
  BY DEF SessionInv, OneTimeInv, CallShape
<1>3. \A x, y \in Parties : record'[x][y] \in {NoRecord, record[x][y]}
  <2>1. CASE Reinstall(p)
    <3>1. record' = RowReset(record, p, NoRecord)
      BY <2>1 DEF Reinstall, RowReset
    <3>2. \A x, y \in Parties : record'[x][y] = IF x = p THEN NoRecord ELSE record[x][y]
      BY <1>2, <3>1, RowIsReset
    <3>3. QED
      BY <3>2
  <2>2. ASSUME NEW q \in Parties, DeleteSession(p, q)
        PROVE  \A x, y \in Parties : record'[x][y] \in {NoRecord, record[x][y]}
    <3>1. record' = Replaced(record, p, q, NoRecord)
      BY <2>2 DEF DeleteSession, Replaced
    <3>2. \A x, y \in Parties :
             record'[x][y] = IF x = p /\ y = q THEN NoRecord ELSE record[x][y]
      BY <1>2, <3>1, EntryReplaced
    <3>3. QED
      BY <3>2
  <2>3. CASE GenerateBundle(p) \/ Replenish(p) \/ \E q \in Parties : DeleteIdentity(p, q)
    BY <2>3 DEF GenerateBundle, Replenish, DeleteIdentity, tables
  <2>4. QED
    BY <2>1, <2>2, <2>3
<1>4. QED
  BY <1>1, <1>3, NoRecordFits DEF RecordsFit, NumbersFit

\* Every step keeps records and numbers within the bounds.
LEMMA RecordsNext ==
    SessionInv /\ RecordsFit /\ NumbersFit /\ [Next]_vars => RecordsFit' /\ NumbersFit'
<1> SUFFICES ASSUME SessionInv, RecordsFit, NumbersFit, [Next]_vars
             PROVE  RecordsFit' /\ NumbersFit'
  OBVIOUS
<1>1. CASE UNCHANGED vars
  BY <1>1 DEF vars, tables, calls, outside, RecordsFit, NumbersFit
<1>2. CASE Next
  BY <1>2, RecordsBegin, RecordsProcess, RecordsWrite, RecordsBetween DEF Next
<1>3. QED
  BY <1>1, <1>2

-----------------------------------------------------------------------------

\* The statements of a call, and the bounds.
LEMMA LimitsNext == SessionInv /\ LimitsOK /\ [Next]_vars => LimitsOK'
<1> SUFFICES ASSUME SessionInv, LimitsOK, [Next]_vars PROVE LimitsOK'
  OBVIOUS
<1>1. DOMAIN step = Parties /\ (\E S : base \in Seq(S))
  BY DEF SessionInv, OneTimeInv, CallShape, BaseOK
<1>2. CASE UNCHANGED vars
  BY <1>2 DEF LimitsOK, vars, calls, outside, history
<1>3. ASSUME NEW p \in Parties,
             \/ \E q \in Parties : BeginEncrypt(p, q)
             \/ \E m \in network : BeginDecrypt(p, m) \/ BeginAccept(p, m)
             \/ SaveIdentity(p) \/ RemovePreKey(p) \/ StoreSession(p)
      PROVE  LimitsOK'
  <2>1. \E s \in {"idle", "saveIdentity", "removePreKey", "storeSession"} :
           step' = [step EXCEPT ![p] = s]
    BY <1>3 DEF BeginEncrypt, BeginDecrypt, BeginAccept, SaveIdentity, RemovePreKey,
       StoreSession, Go
  <2>2. UNCHANGED <<base, deletes, faults>>
    BY <1>3 DEF BeginEncrypt, BeginDecrypt, BeginAccept, SaveIdentity, RemovePreKey,
       StoreSession, outside, history
  <2>3. answers' = answers \/ answers' = answers + 1
    BY <1>3 DEF BeginEncrypt, BeginDecrypt, BeginAccept, SaveIdentity, RemovePreKey,
       StoreSession, history
  <2>4. QED
    BY <1>1, <2>1, <2>2, <2>3 DEF LimitsOK
<1>4. ASSUME NEW p \in Parties, NEW b \in bundles, BeginProcess(p, b) PROVE LimitsOK'
  <2>1. /\ step' = [step EXCEPT ![p] = "saveIdentity"]
        /\ Len(base) < MaxSessions
        /\ \E e : base' = Append(base, e)
        /\ UNCHANGED <<answers, deletes, faults>>
    BY <1>4 DEF BeginProcess, Go, history
  <2>2. Len(base') = Len(base) + 1
    BY <1>1, <2>1
  <2>3. Len(base') \in 0 .. MaxSessions
    BY <2>1, <2>2, BoundsAssumption DEF LimitsOK, BoundsAssumption
  <2>4. QED
    BY <1>1, <2>1, <2>3 DEF LimitsOK
<1>5. ASSUME NEW p \in Parties, CutShort(p) PROVE LimitsOK'
  <2>1. /\ step' = [step EXCEPT ![p] = "idle"]
        /\ faults < MaxFaults /\ faults' = faults + 1
        /\ UNCHANGED <<base, answers, deletes>>
    BY <1>5 DEF CutShort, Go, outside
  <2>2. QED
    BY <1>1, <2>1, BoundsAssumption DEF LimitsOK, BoundsAssumption
<1>6. ASSUME NEW p \in Parties, NEW q \in Parties,
             DeleteSession(p, q) \/ DeleteIdentity(p, q)
      PROVE  LimitsOK'
  <2>1. /\ deletes < MaxDeletes /\ deletes' = deletes + 1
        /\ UNCHANGED <<step, base, answers, faults>>
    BY <1>6 DEF DeleteSession, DeleteIdentity, calls, outside
  <2>2. QED
    BY <2>1, BoundsAssumption DEF LimitsOK, BoundsAssumption
<1>7. ASSUME NEW p \in Parties, GenerateBundle(p) \/ Replenish(p) \/ Reinstall(p)
      PROVE  LimitsOK'
  <2>1. UNCHANGED <<step, base, answers, deletes, faults>>
    BY <1>7 DEF GenerateBundle, Replenish, Reinstall, calls, outside, history
  <2>2. QED
    BY <2>1 DEF LimitsOK
<1>8. QED
  BY <1>2, <1>3, <1>4, <1>5, <1>6, <1>7 DEF Next

\* The first installations.
LEMMA SessionTypesInit == Init => SessionTypes
<1> SUFFICES ASSUME Init PROVE SessionTypes
  OBVIOUS
<1>1. /\ ReplenishCount \in Nat /\ ReplenishCount <= MaxMinted
      /\ {MaxMinted, MaxSessions, MaxDeletes, MaxFaults} \subseteq Nat
  BY BoundsAssumption DEF BoundsAssumption
<1>2. IdentitiesOK
  BY DEF Init, IdentitiesOK, Busy
<1>3. KeysOK
  <2>1. SUFFICES ASSUME NEW p \in Parties
                 PROVE  minted[p] <= MaxMinted /\ KeyTable(oneTime[p], minted[p])
    BY DEF KeysOK
  <2>2. minted[p] \in Nat /\ minted[p] <= MaxMinted
        /\ oneTime[p] = {<<i, i>> : i \in 1 .. minted[p]}
    BY <1>1 DEF Init
  <2>3. QED
    BY <2>2 DEF KeyTable
<1>4. RecordsFit /\ NumbersFit
  <2>1. /\ \A p \in Parties : arg[p].rec = NoRecord /\ arg[p].result # "sent"
        /\ \A p, q \in Parties : record[p][q] = NoRecord
        /\ network = {}
    BY DEF Init, NoArg, Args
  <2>2. QED
    BY <2>1, NoRecordFits DEF RecordsFit, NumbersFit
<1>5. LimitsOK
  BY <1>1 DEF Init, LimitsOK
<1>6. QED
  BY <1>2, <1>3, <1>4, <1>5 DEF SessionTypes

\* The invariants together hold the type invariant that the run checks.
LEMMA SessionTypesSuffice == SessionInv /\ SessionTypes => TypeOK
<1> SUFFICES ASSUME SessionInv, SessionTypes PROVE TypeOK
  OBVIOUS
<1> USE DEF SessionTypes
<1>1. Len(base) \in Nat /\ DOMAIN base = 1 .. Len(base)
  <2>1. PICK S : base \in Seq(S)
    BY DEF SessionInv, OneTimeInv, BaseOK
  <2>2. QED
    BY <2>1
<1>2. \A rec : RecordFits(rec, Len(base)) => RecordOK(rec)
  BY DEF RecordFits, RecordOK, Sids
<1>3. ASSUME NEW p \in Parties
      PROVE  /\ install[p] \in Nat \ {0}
             /\ minted[p] \in 0 .. MaxMinted
             /\ oneTime[p] \subseteq (1 .. MaxMinted) \X (1 .. minted[p])
             /\ Cardinality(KeyIds(p)) = Cardinality(oneTime[p])
  <2>1. minted[p] \in Nat /\ minted[p] <= MaxMinted /\ MaxMinted \in Nat
        /\ KeyTable(oneTime[p], minted[p])
    BY BoundsAssumption
       DEF SessionInv, OneTimeInv, MintedOK, KeysOK, BoundsAssumption
  <2>2. Cardinality(KeyIds(p)) = Cardinality(oneTime[p])
    BY <2>1, KeyTableCount DEF KeyIds
  <2>3. oneTime[p] \subseteq (1 .. MaxMinted) \X (1 .. minted[p])
    BY <2>1 DEF KeyTable
  <2>4. QED
    BY <2>1, <2>2, <2>3 DEF IdentitiesOK
<1>4. ASSUME NEW p \in Parties
      PROVE  /\ step[p] \in {"idle", "saveIdentity", "removePreKey", "storeSession"}
             /\ RecordOK(arg[p].rec)
             /\ \A q \in Parties : /\ pinned[p][q] \in {0} \cup (1 .. install[q])
                                   /\ RecordOK(record[p][q])
  BY <1>2 DEF LimitsOK, RecordsFit, IdentitiesOK
<1>5. \A m \in network : m.session \in Sids /\ m.number \in 1 .. MaxSent
  BY <1>1 DEF NumbersFit, SessionInv, OneTimeInv, CallShape, Sids
<1>6. returned \subseteq network /\ accepted \subseteq Sids
  BY <1>1 DEF SessionInv, ChannelInv, MessagesTrue, OneTimeInv, BaseOK, Sids
<1>7. /\ Len(base) <= MaxSessions /\ deletes \in 0 .. MaxDeletes
      /\ faults \in 0 .. MaxFaults /\ answers \in Nat
  BY BoundsAssumption DEF LimitsOK, BoundsAssumption
<1>8. QED
  BY <1>3, <1>4, <1>5, <1>6, <1>7 DEF TypeOK

\* The invariants hold together.
LEMMA SessionsSound == Spec => [](SessionInv /\ SessionTypes)
<1>1. Init => SessionInv /\ SessionTypes
  BY TrustInit, OneTimeInit, ChannelInit, SessionTypesInit DEF SessionInv
<1>2. SessionInv /\ SessionTypes /\ [Next]_vars => (SessionInv /\ SessionTypes)'
  BY TrustNext, OneTimeNext, ChannelNext, IdentitiesNext, KeysNext, RecordsNext,
     LimitsNext DEF SessionInv, SessionTypes
<1>3. QED
  BY <1>1, <1>2, PTL DEF Spec

\* In every reachable state there is one key per id in the table of one-time keys,
\* although ids are given out again after their keys are used; an identity that is
\* stored is one its peer had; a record is of sessions that there are; and what was
\* returned had been sent.
THEOREM TypeCorrect == Spec => []TypeOK
BY SessionsSound, SessionTypesSuffice, PTL

-----------------------------------------------------------------------------
(* The channel that the applications see.                                  *)

\* A party uses a number of a session for one message.
NumbersTellMessages ==
    \A m, n \in network :
        m.session = n.session /\ m.from = n.from /\ m.number = n.number => m = n

\* A bundle names a key with an id and a number within the bound.
BundlesFit == \A b \in bundles : b.key \in (1 .. MaxMinted) \X (1 .. MaxMinted)

PromiseInv == SessionInv /\ SessionTypes /\ NumbersTellMessages /\ BundlesFit

\* Of the steps, two show: a session begins, or a call returns.
LEMMA StepsThatShow ==
    ASSUME [Next]_vars
    PROVE  \/ UNCHANGED <<base, network, returned, accepted, answers>>
           \/ \E p \in Parties, b \in bundles : BeginProcess(p, b)
           \/ \E p \in Parties : StoreSession(p)
<1>1. CASE UNCHANGED vars
  BY <1>1 DEF vars, outside, history
<1>2. ASSUME NEW p \in Parties,
             \/ \E q \in Parties : BeginEncrypt(p, q)
             \/ \E m \in network : BeginDecrypt(p, m) \/ BeginAccept(p, m)
             \/ SaveIdentity(p) \/ RemovePreKey(p)
      PROVE  UNCHANGED <<base, network, returned, accepted, answers>>
  BY <1>2 DEF BeginEncrypt, BeginDecrypt, BeginAccept, SaveIdentity, RemovePreKey,
     outside, history
<1>3. ASSUME NEW p \in Parties,
             \/ \E q \in Parties : DeleteSession(p, q) \/ DeleteIdentity(p, q)
             \/ GenerateBundle(p) \/ Replenish(p) \/ Reinstall(p) \/ CutShort(p)
      PROVE  UNCHANGED <<base, network, returned, accepted, answers>>
  BY <1>3 DEF DeleteSession, DeleteIdentity, GenerateBundle, Replenish, Reinstall,
     CutShort, outside, history
<1>4. QED
  BY <1>1, <1>2, <1>3 DEF Next

\* What a call that is about to return has made.
LEMMA CallReturns ==
    ASSUME PromiseInv, NEW p \in Parties, StoreSession(p)
    PROVE  /\ CallTrue(p, arg[p], base, network, returned, accepted)
           /\ network' = IF arg[p].result = "sent" THEN network \cup {arg[p].msg}
                         ELSE network
           /\ returned' = IF arg[p].result = "read" THEN returned \cup {arg[p].msg}
                          ELSE returned
           /\ accepted' = IF arg[p].key # NoKey THEN accepted \cup {arg[p].msg.session}
                          ELSE accepted
           /\ answers' = IF arg[p].result \in {"sent", "read"} THEN answers + 1
                         ELSE answers
           /\ base' = base
<1>1. step[p] = "storeSession" /\ step[p] # "idle"
  BY DEF StoreSession, Busy
<1>2. CallTrue(p, arg[p], base, network, returned, accepted)
  BY <1>1 DEF PromiseInv, SessionInv, ChannelInv, CallsTrue
<1>3. QED
  BY <1>2 DEF StoreSession

\* A message with the highest number is told from all others by it.
LEMMA NumbersTellNext ==
    PromiseInv /\ [Next]_vars => NumbersTellMessages'
<1> SUFFICES ASSUME PromiseInv, [Next]_vars PROVE NumbersTellMessages'
  OBVIOUS
<1>1. CASE network' = network
  BY <1>1 DEF PromiseInv, NumbersTellMessages
<1>2. CASE network' # network
  <2>1. PICK p \in Parties : StoreSession(p)
    <3>1. ASSUME NEW p \in Parties, NEW b \in bundles, BeginProcess(p, b)
          PROVE  network' = network
      BY <3>1 DEF BeginProcess
    <3>2. QED
      BY <1>2, <3>1, StepsThatShow
  <2> DEFINE a == arg[p]
  <2>2. /\ CallTrue(p, a, base, network, returned, accepted)
        /\ a.result = "sent" /\ network' = network \cup {a.msg}
    BY <1>2, <2>1, CallReturns
  <2> HIDE DEF a
  <2>3. /\ a.msg.from = p
        /\ \A m \in network :
              m.session = a.msg.session /\ m.from = p => m.number < a.msg.number
    BY <2>2 DEF CallTrue, SendTrue
  <2>4. \A m \in network : m.number \in Nat
    BY DEF PromiseInv, SessionInv, ChannelInv, MessagesTrue
  <2>5. ASSUME NEW m \in network,
               m.session = a.msg.session, m.from = a.msg.from, m.number = a.msg.number
        PROVE  FALSE
    <3>1. m.number < m.number
      BY <2>3, <2>5
    <3>2. QED
      BY <2>4, <3>1
  <2>6. QED
    BY <2>2, <2>5 DEF PromiseInv, NumbersTellMessages
<1>3. QED
  BY <1>1, <1>2

\* A bundle names a key of the table.
LEMMA BundlesFitNext ==
    PromiseInv /\ [Next]_vars => BundlesFit'
<1> SUFFICES ASSUME PromiseInv, [Next]_vars PROVE BundlesFit'
  OBVIOUS
<1>1. ASSUME NEW p \in Parties, GenerateBundle(p) PROVE BundlesFit'
  <2>1. PICK k \in oneTime[p] :
           bundles' = bundles \cup {[of |-> p, install |-> install[p], key |-> k]}
    BY <1>1 DEF GenerateBundle
  <2>2. /\ minted[p] \in Nat /\ minted[p] <= MaxMinted /\ MaxMinted \in Nat
        /\ oneTime[p] \subseteq (1 .. minted[p]) \X (1 .. minted[p])
    BY BoundsAssumption DEF PromiseInv, SessionInv, OneTimeInv, MintedOK, SessionTypes,
       KeysOK, KeyTable, BoundsAssumption
  <2>3. 1 .. minted[p] \subseteq 1 .. MaxMinted
    BY <2>2
  <2>4. k \in (1 .. MaxMinted) \X (1 .. MaxMinted)
    BY <2>2, <2>3
  <2>5. QED
    BY <2>1, <2>4 DEF PromiseInv, BundlesFit
<1>2. CASE UNCHANGED vars
  BY <1>2 DEF PromiseInv, BundlesFit, vars, outside
<1>3. ASSUME NEW p \in Parties,
             \/ \E b \in bundles : BeginProcess(p, b)
             \/ \E q \in Parties : BeginEncrypt(p, q)
             \/ \E m \in network : BeginDecrypt(p, m) \/ BeginAccept(p, m)
             \/ SaveIdentity(p) \/ RemovePreKey(p) \/ StoreSession(p)
      PROVE  bundles' = bundles
  BY <1>3 DEF BeginProcess, BeginEncrypt, BeginDecrypt, BeginAccept, SaveIdentity,
     RemovePreKey, StoreSession, outside
<1>4. ASSUME NEW p \in Parties,
             \/ \E q \in Parties : DeleteSession(p, q) \/ DeleteIdentity(p, q)
             \/ Replenish(p) \/ Reinstall(p) \/ CutShort(p)
      PROVE  bundles' = bundles
  BY <1>4 DEF DeleteSession, DeleteIdentity, Replenish, Reinstall, CutShort, outside
<1>5. bundles' = bundles => BundlesFit'
  BY DEF PromiseInv, BundlesFit
<1>6. QED
  BY <1>1, <1>2, <1>3, <1>4, <1>5 DEF Next

\* encrypt sends.
LEMMA ReturnsSent ==
    ASSUME PromiseInv, NEW p \in Parties, StoreSession(p), arg[p].result = "sent"
    PROVE  Promise!Next
<1> DEFINE a == arg[p]
           s == a.msg.session
           n == a.msg.number
<1>1. /\ CallTrue(p, a, base, network, returned, accepted)
      /\ a.result = "sent" /\ network' = network \cup {a.msg}
      /\ returned' = returned /\ base' = base /\ answers' = answers + 1
      /\ accepted' = IF a.key # NoKey THEN accepted \cup {a.msg.session} ELSE accepted
  BY CallReturns
<1>2. n \in 1 .. MaxSent
  BY DEF PromiseInv, SessionTypes, NumbersFit
<1> HIDE DEF a
<1>3. /\ a.key = NoKey /\ a.msg.from = p /\ s \in DOMAIN a.rec.states
      /\ \A m \in network : m.session = s /\ m.from = p => m.number < n
  BY <1>1 DEF CallTrue, SendTrue
<1>4. Between(p, a.peer, s, base) /\ Begun(p, s, base, accepted)
  BY <1>1, <1>3 DEF CallTrue, RecordTrue
<1>5. /\ s \in DOMAIN Agreed
      /\ Agreed[s].by = p \/ (Agreed[s].to = p /\ s \in accepted)
  BY <1>4 DEF Between, Begun, Agreed
<1> DEFINE new == [session |-> s, from |-> p, number |-> n]
<1>6. Plain(network') = Plain(network) \cup {new}
  BY <1>1, <1>3 DEF Plain
<1>7. \A m \in Plain(network) : m.session = s /\ m.from = p => m.number < n
  BY <1>3 DEF Plain
<1>8. UNCHANGED <<Agreed, accepted, Plain(returned)>>
  BY <1>1, <1>3 DEF Agreed, Plain
<1> HIDE DEF s, n
<1>9. Promise!Send(p, s, n)
  BY <1>1, <1>5, <1>6, <1>7, <1>8 DEF Promise!Send, Promise!IsIn, Plain
<1>10. QED
  BY <1>2, <1>5, <1>9 DEF Promise!Next, n

\* decrypt hands out, and joins the session if the message began it.
LEMMA ReturnsRead ==
    ASSUME PromiseInv, NEW p \in Parties, StoreSession(p), arg[p].result = "read"
    PROVE  Promise!Next
<1> DEFINE a == arg[p]
           s == a.msg.session
           new == [session |-> s, from |-> a.msg.from, number |-> a.msg.number]
<1>1. /\ CallTrue(p, a, base, network, returned, accepted)
      /\ a.result = "read" /\ returned' = returned \cup {a.msg}
      /\ network' = network /\ base' = base /\ answers' = answers + 1
      /\ accepted' = IF a.key # NoKey THEN accepted \cup {s} ELSE accepted
  BY CallReturns
<1>2. a.key # NoKey => /\ s \in DOMAIN base
                       /\ base[s].to = p /\ base[s].key = a.key
                       /\ AcceptedWith(p, a.key) = {}
  BY DEF StoreSession, Busy, PromiseInv, SessionInv, OneTimeInv, FreshInCall
<1> HIDE DEF a
<1>3. /\ a.msg \in network /\ a.msg \notin returned
      /\ a.msg.from = a.peer /\ s \in DOMAIN a.rec.states
  BY <1>1 DEF CallTrue, ReadTrue
<1>4. /\ Between(p, a.peer, s, base) /\ base[s].by # base[s].to
      /\ a.key # NoKey \/ Begun(p, s, base, accepted)
  BY <1>1, <1>3 DEF CallTrue, RecordTrue, PromiseInv, SessionInv, ChannelInv,
     MessagesTrue, Between
<1>5. new \in Plain(network)
  BY <1>3 DEF Plain
<1>6. new \notin Plain(returned)
  <2>1. SUFFICES ASSUME NEW r \in returned, r.session = s, r.from = a.msg.from,
                        r.number = a.msg.number
                 PROVE  FALSE
    BY DEF Plain
  <2>2. r \in network
    BY DEF PromiseInv, SessionInv, ChannelInv, MessagesTrue
  <2>3. r = a.msg
    BY <1>3, <2>1, <2>2 DEF PromiseInv, NumbersTellMessages
  <2>4. QED
    BY <1>3, <2>3
<1>7. Plain(returned') = Plain(returned) \cup {new}
  BY <1>1 DEF Plain
<1>8. UNCHANGED <<Agreed, Plain(network)>>
  BY <1>1 DEF Agreed, Plain
<1>9. /\ new.session = s /\ new.from = a.peer
      /\ \A x \in DOMAIN base :
            /\ Agreed[x].by = base[x].by /\ Agreed[x].to = base[x].to
            /\ Agreed[x].key = base[x].key
      /\ s \in DOMAIN base
  BY <1>3, <1>4 DEF Agreed, Between
<1> HIDE DEF new, s
<1>10. Promise!HandOut(new)
  BY <1>1, <1>6, <1>7, <1>8 DEF Promise!HandOut
<1>11. CASE a.key = NoKey
  <2>1. new.from = Agreed[s].by => s \in accepted
    BY <1>4, <1>9, <1>11 DEF Between, Begun
  <2>2. Promise!Read(new)
    BY <1>1, <1>9, <1>10, <1>11, <2>1 DEF Promise!Read
  <2>3. QED
    BY <1>5, <2>2 DEF Promise!Next
<1>12. CASE a.key # NoKey
  <2>1. new.from = Agreed[s].by
    BY <1>2, <1>4, <1>9, <1>12 DEF Between
  <2>2. accepted \subseteq DOMAIN base
    BY DEF PromiseInv, SessionInv, OneTimeInv, BaseOK
  <2>3. ASSUME NEW x \in accepted
        PROVE  Agreed[x].to # Agreed[s].to \/ Agreed[x].key # Agreed[s].key
    BY <1>2, <1>9, <1>12, <2>2 DEF AcceptedWith
  <2>4. Promise!Join(new)
    BY <1>1, <1>9, <1>10, <1>12, <2>1, <2>3 DEF Promise!Join
  <2>5. QED
    BY <1>5, <2>4 DEF Promise!Next
<1>13. QED
  BY <1>11, <1>12

\* A longer sequence, element by element.
LEMMA AppendAsFunction ==
    ASSUME NEW S, NEW seq \in Seq(S), NEW e \in S
    PROVE  /\ Append(seq, e) = [i \in 1 .. Len(seq) + 1 |-> Append(seq, e)[i]]
           /\ \A i \in 1 .. Len(seq) : Append(seq, e)[i] = seq[i]
           /\ Append(seq, e)[Len(seq) + 1] = e
<1> DEFINE long == Append(seq, e)
<1>1. /\ long \in Seq(S) /\ Len(long) = Len(seq) + 1
      /\ \A i \in 1 .. Len(seq) : long[i] = seq[i]
      /\ long[Len(seq) + 1] = e
  BY AppendProperties
<1> HIDE DEF long
<1>2. long \in [1 .. Len(long) -> S]
  BY <1>1, LenProperties
<1>3. long = [i \in 1 .. Len(seq) + 1 |-> long[i]]
  BY <1>1, <1>2
<1>4. QED
  BY <1>1, <1>3 DEF long

\* process_prekey_bundle begins a session.
LEMMA ProcessBeginsSession ==
    ASSUME PromiseInv, NEW p \in Parties, NEW b \in bundles, BeginProcess(p, b)
    PROVE  Promise!Next
<1> DEFINE new == [by |-> p, byInstall |-> install[p], to |-> b.of,
                   toInstall |-> b.install, key |-> b.key]
           plain == [by |-> p, to |-> b.of, key |-> b.key]
           ends == {[by |-> base[i].by, to |-> base[i].to, key |-> base[i].key] :
                        i \in DOMAIN base} \cup {plain}
<1>1. /\ base' = Append(base, new)
      /\ UNCHANGED <<network, returned, accepted, answers>> /\ b.of # p
  BY DEF BeginProcess, history
<1>2. b.of \in Parties /\ b.key \in (1 .. MaxMinted) \X (1 .. MaxMinted)
  BY DEF PromiseInv, SessionInv, OneTimeInv, MintedOK, BundlesFit
<1>3. PICK S : base \in Seq(S)
  BY DEF PromiseInv, SessionInv, OneTimeInv, BaseOK
<1>4. Agreed' = Append(Agreed, plain)
  <2> DEFINE n == Len(base)
  <2>1. n \in Nat /\ DOMAIN base = 1 .. n
    BY <1>3
  <2>2. /\ DOMAIN base' = 1 .. n + 1 /\ base'[n + 1] = new
        /\ \A i \in 1 .. n : base'[i] = base[i]
    BY <1>1, <1>3
  <2> HIDE DEF n
  <2>3. Agreed \in [1 .. n -> ends]
    BY <2>1 DEF Agreed
  <2>4. plain \in ends /\ new.by = p /\ new.to = b.of /\ new.key = b.key
    OBVIOUS
  <2>5. /\ DOMAIN Agreed' = 1 .. n + 1
        /\ Agreed' = [i \in 1 .. n + 1 |-> Agreed'[i]]
        /\ \A i \in 1 .. n + 1 :
              Agreed'[i] = [by |-> base'[i].by, to |-> base'[i].to, key |-> base'[i].key]
    BY <2>2 DEF Agreed
  <2>6. \A i \in 1 .. n :
           Agreed[i] = [by |-> base[i].by, to |-> base[i].to, key |-> base[i].key]
    BY <2>1 DEF Agreed
  <2> HIDE DEF ends, plain, new
  <2>7. Agreed \in Seq(ends) /\ Len(Agreed) = n
    BY <2>1, <2>3
  <2>8. /\ Append(Agreed, plain) = [i \in 1 .. n + 1 |-> Append(Agreed, plain)[i]]
        /\ \A i \in 1 .. n : Append(Agreed, plain)[i] = Agreed[i]
        /\ Append(Agreed, plain)[n + 1] = plain
    BY <2>4, <2>7, AppendAsFunction
  <2>9. ASSUME NEW i \in 1 .. n PROVE Agreed'[i] = Agreed[i]
    <3>1. base'[i] = base[i] /\ i \in 1 .. n + 1
      BY <2>1, <2>2
    <3>2. Agreed'[i] = [by |-> base'[i].by, to |-> base'[i].to, key |-> base'[i].key]
      BY <2>5, <3>1
    <3>3. QED
      BY <2>6, <3>1, <3>2
  <2>10. Agreed'[n + 1] = plain
    <3>1. n + 1 \in 1 .. n + 1 /\ base'[n + 1] = new
      BY <2>1, <2>2
    <3>2. Agreed'[n + 1] = [by |-> new.by, to |-> new.to, key |-> new.key]
      BY <2>5, <3>1
    <3>3. QED
      BY <2>4, <3>2 DEF plain
  <2>11. \A i \in 1 .. n + 1 : Agreed'[i] = Append(Agreed, plain)[i]
    BY <2>1, <2>8, <2>9, <2>10
  <2>12. QED
    BY <2>5, <2>8, <2>11
<1>5. UNCHANGED <<Plain(network), Plain(returned)>>
  BY <1>1 DEF Plain
<1>6. Promise!Begin(p, b.of, b.key)
  BY <1>1, <1>4, <1>5 DEF Promise!Begin
<1>7. QED
  BY <1>2, <1>6 DEF Promise!Next

\* Whatever is lost, duplicated, reordered, deleted, reinstalled or cut short, the
\* applications see a channel: a step of a call is a step of the channel or shows nothing.
THEOREM SessionsImplementChannelHolds == Spec => SessionsImplementChannel
<1>1. Init => NumbersTellMessages /\ BundlesFit
  BY DEF Init, NumbersTellMessages, BundlesFit
<1>2. Init => Promise!Init
  <2>1. SUFFICES ASSUME Init PROVE Promise!Init
    OBVIOUS
  <2>2. Agreed = <<>>
    BY <2>1 DEF Init, Agreed
  <2>3. Plain(network) = {} /\ Plain(returned) = {}
    BY <2>1 DEF Init, Plain
  <2>4. QED
    BY <2>1, <2>2, <2>3 DEF Init, Promise!Init
<1>3. PromiseInv /\ [Next]_vars
         => [Promise!Next]_<<Agreed, accepted, Plain(network), Plain(returned), answers>>
  <2> SUFFICES ASSUME PromiseInv, [Next]_vars
               PROVE  \/ Promise!Next
                      \/ UNCHANGED <<Agreed, accepted, Plain(network), Plain(returned),
                                     answers>>
    OBVIOUS
  <2>1. CASE UNCHANGED <<base, network, returned, accepted, answers>>
    BY <2>1 DEF Agreed, Plain
  <2>2. ASSUME NEW p \in Parties, StoreSession(p),
               arg[p].result \notin {"sent", "read"}
        PROVE  UNCHANGED <<base, network, returned, accepted, answers>>
    <3>1. arg[p].key = NoKey
      BY <2>2, CallReturns DEF CallTrue
    <3>2. QED
      BY <2>2, <3>1, CallReturns
  <2>3. QED
    BY <2>1, <2>2, StepsThatShow, ReturnsSent, ReturnsRead, ProcessBeginsSession
       DEF Agreed, Plain
<1>4. PromiseInv /\ [Next]_vars => NumbersTellMessages' /\ BundlesFit'
  BY NumbersTellNext, BundlesFitNext
<1>5. QED
  BY <1>1, <1>2, <1>3, <1>4, SessionsSound, PTL
     DEF Spec, SessionsImplementChannel, Promise!Spec, PromiseInv
=============================================================================
