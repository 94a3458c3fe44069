--------------------------- MODULE ContactsProofs ---------------------------
(***************************************************************************)
(* Proofs about Contacts: what holds between contacts, mappings and        *)
(* conversations for any number of connections, and what calls that        *)
(* interleave between their two statements may do to each other.           *)
(***************************************************************************)
EXTENDS Contacts, TLAPS

AddStatements == {"insertContact", "updateContact"}

AddArgs == IdentityKeys \X (Aliases \cup {NoAlias})

MapArgs == Fingerprints \X Pubkeys

\* The conjuncts of TypeOK about the tables.
TablesOK ==
    /\ foreignKeys \in {"on", "off"}
    /\ DOMAIN contacts \subseteq Fingerprints
    /\ \A f \in DOMAIN contacts :
          /\ contacts[f] \in Contact
          /\ f = Fingerprint(contacts[f].signal_identity_key)
    /\ DOMAIN nostr \subseteq Fingerprints
    /\ \A f \in DOMAIN nostr : nostr[f] \in Pubkeys
    /\ conversations \subseteq Fingerprints
    /\ now \in 0 .. MaxNow

\* A call that is between its statements has the arguments of its operation.
CallArgs ==
    /\ DOMAIN arg = Handles
    /\ \A h \in Handles :
          /\ op[h] \in AddStatements => arg[h] \in AddArgs
          /\ op[h] = "storeMapping" => arg[h] \in MapArgs

\* The conjuncts of TypeOK about the calls, and their arguments.
CallsOK ==
    /\ op \in [Handles -> {"idle", "storeMapping"} \cup AddStatements]
    /\ answer \in [Handles -> {"none", "ok", "failed"}]
    /\ meanwhile \in [Handles -> SUBSET Fingerprints]
    /\ CallArgs

\* What check for an owner left open has been noted since.
MapRace ==
    \A h \in Handles : op[h] = "storeMapping" =>
        FingerprintsOf(arg[h][2]) \subseteq {arg[h][1]} \cup meanwhile[h]

\* The contact that add_contact found is there, or it has been removed since.
AddRace ==
    \A h \in Handles : op[h] = "updateContact" =>
        Fingerprint(arg[h][1]) \in DOMAIN contacts \cup meanwhile[h]

Inv == TablesOK /\ CallsOK /\ MapRace /\ AddRace /\ faults \in Nat

-----------------------------------------------------------------------------
(* Calls.                                                                  *)

\* A call that has read the tables has its arguments.
LEMMA GoKeepsCalls ==
    ASSUME CallsOK, NEW h \in Handles, NEW s, NEW a, Go(h, s, a),
           \/ s \in AddStatements /\ a \in AddArgs
           \/ s = "storeMapping" /\ a \in MapArgs
    PROVE  CallsOK'
<1> USE DEF CallsOK, CallArgs, Go, AddStatements
<1>1. op' \in [Handles -> {"idle", "storeMapping"} \cup AddStatements]
  OBVIOUS
<1>2. /\ answer' \in [Handles -> {"none", "ok", "failed"}]
      /\ meanwhile' \in [Handles -> SUBSET Fingerprints]
  OBVIOUS
<1>3. CallArgs'
  OBVIOUS
<1> QED BY <1>1, <1>2, <1>3

\* A call that ends has none.
LEMMA ReturnKeepsCalls ==
    ASSUME CallsOK, NEW h \in Handles, NEW r \in {"ok", "failed"},
           op' = [op EXCEPT ![h] = "idle"],
           arg' = [arg EXCEPT ![h] = <<>>],
           answer' = [answer EXCEPT ![h] = r],
           meanwhile' \in [Handles -> SUBSET Fingerprints]
    PROVE  CallsOK'
<1> USE DEF CallsOK, CallArgs, AddStatements
<1>1. op' \in [Handles -> {"idle", "storeMapping"} \cup AddStatements]
  OBVIOUS
<1>2. answer' \in [Handles -> {"none", "ok", "failed"}]
  OBVIOUS
<1>3. CallArgs'
  OBVIOUS
<1> QED BY <1>1, <1>2, <1>3

\* NoRace forgets what one call ran into and keeps the rest.
LEMMA NoRaceTyped ==
    ASSUME CallsOK, NEW h \in Handles, NoRace(h)
    PROVE  /\ meanwhile' \in [Handles -> SUBSET Fingerprints]
           /\ \A x \in Handles \ {h} : meanwhile'[x] = meanwhile[x]
BY DEF CallsOK, NoRace

\* Mapped and Removed add to what other calls ran into.
LEMMA RaceTyped ==
    ASSUME CallsOK, NEW f \in Fingerprints
    PROVE  /\ Removed(f) => /\ meanwhile' \in [Handles -> SUBSET Fingerprints]
                            /\ \A x \in Handles :
                                  /\ meanwhile[x] \subseteq meanwhile'[x]
                                  /\ op[x] \in AddStatements => f \in meanwhile'[x]
           /\ \A h \in Handles : Mapped(h, f) =>
                 /\ meanwhile' \in [Handles -> SUBSET Fingerprints]
                 /\ \A x \in Handles \ {h} :
                       /\ meanwhile[x] \subseteq meanwhile'[x]
                       /\ op[x] = "storeMapping" => f \in meanwhile'[x]
BY DEF CallsOK, Removed, Mapped, AddStatements

\* The fingerprint of an identity key is one.
LEMMA FingerprintTyped ==
    ASSUME NEW key \in IdentityKeys PROVE Fingerprint(key) \in Fingerprints
BY DEF Fingerprints

\* Inv says what TypeOK says.
LEMMA InvTyped == Inv => TypeOK
BY DEF Inv, TablesOK, CallsOK, TypeOK, AddStatements

-----------------------------------------------------------------------------
(* Every step is one of three kinds for the calls.                         *)

\* The steps that begin a call.
Begins(h) ==
    \/ \E key \in IdentityKeys, alias \in Aliases \cup {NoAlias} :
          BeginAdd(h, key, alias) \/ BeginAddMisread(h, key, alias)
    \/ \E f \in Fingerprints, p \in Pubkeys : BeginMap(h, f, p)

\* The steps that end one.
Ends(h) ==
    \/ InsertContact(h) \/ InsertConflicts(h) \/ UpdateContact(h)
    \/ \E f \in Fingerprints, alias \in Aliases \cup {NoAlias} :
          UpdateAlias(h, f, alias)
    \/ \E f \in Fingerprints : UpdateAliasFails(h, f)
    \/ \E f \in Fingerprints, p \in Pubkeys : MapOwnedByOther(h, f, p)
    \/ StoreMapping(h) \/ StoreMappingFails(h)
    \/ Interrupt(h)

\* The steps of a handle begin a call or end one.
LEMMA CallKinds ==
    ASSUME NEW h \in Handles, Call(h) PROVE Begins(h) \/ Ends(h)
BY DEF Call, Begins, Ends

\* A call that begins leaves the tables alone and has its arguments; if it is
\* store_nostr_identity nobody else owns the public key, if it is to update a
\* contact the contact is there.
LEMMA BeginsStep ==
    ASSUME NEW h \in Handles, Begins(h), faults \in Nat
    PROVE  /\ UNCHANGED <<foreignKeys, tables, now>>
           /\ faults' \in Nat
           /\ \E s, a :
                 /\ Go(h, s, a)
                 /\ \/ s \in AddStatements /\ a \in AddArgs
                    \/ s = "storeMapping" /\ a \in MapArgs
                 /\ s = "storeMapping" => FingerprintsOf(a[2]) \subseteq {a[1]}
                 /\ s = "updateContact" => Fingerprint(a[1]) \in DOMAIN contacts
<1>1. ASSUME NEW key \in IdentityKeys, NEW alias \in Aliases \cup {NoAlias},
             BeginAdd(h, key, alias) \/ BeginAddMisread(h, key, alias)
      PROVE  /\ UNCHANGED <<foreignKeys, tables, now>>
             /\ faults' \in Nat
             /\ \E s \in AddStatements :
                   /\ Go(h, s, <<key, alias>>)
                   /\ s = "updateContact" => Fingerprint(key) \in DOMAIN contacts
  BY <1>1 DEF BeginAdd, BeginAddMisread, Go, AddStatements
<1>2. ASSUME NEW f \in Fingerprints, NEW p \in Pubkeys, BeginMap(h, f, p)
      PROVE  /\ UNCHANGED <<foreignKeys, tables, now>>
             /\ faults' \in Nat
             /\ Go(h, "storeMapping", <<f, p>>)
             /\ FingerprintsOf(p) \subseteq {f}
  BY <1>2 DEF BeginMap, Go
<1>3. CASE \E key \in IdentityKeys, alias \in Aliases \cup {NoAlias} :
              BeginAdd(h, key, alias) \/ BeginAddMisread(h, key, alias)
  <2>1. PICK key \in IdentityKeys, alias \in Aliases \cup {NoAlias} :
              BeginAdd(h, key, alias) \/ BeginAddMisread(h, key, alias)
    BY <1>3
  <2>2. PICK s \in AddStatements :
              /\ Go(h, s, <<key, alias>>)
              /\ s = "updateContact" => Fingerprint(key) \in DOMAIN contacts
    BY <1>1, <2>1
  <2>3. <<key, alias>> \in AddArgs /\ <<key, alias>>[1] = key
    BY DEF AddArgs
  <2>4. s # "storeMapping"
    BY DEF AddStatements
  <2> QED BY <1>1, <2>1, <2>2, <2>3, <2>4
<1>4. CASE \E f \in Fingerprints, p \in Pubkeys : BeginMap(h, f, p)
  <2>1. PICK f \in Fingerprints, p \in Pubkeys : BeginMap(h, f, p)
    BY <1>4
  <2>2. <<f, p>> \in MapArgs /\ <<f, p>>[1] = f /\ <<f, p>>[2] = p
    BY DEF MapArgs
  <2> QED BY <1>2, <2>1, <2>2
<1> QED BY <1>3, <1>4 DEF Begins

\* What the end of a call does to the calls.
Ended(h) ==
    /\ \E r \in {"ok", "failed"} :
          /\ op' = [op EXCEPT ![h] = "idle"]
          /\ arg' = [arg EXCEPT ![h] = <<>>]
          /\ answer' = [answer EXCEPT ![h] = r]
    /\ meanwhile' \in [Handles -> SUBSET Fingerprints]
    /\ \A x \in Handles \ {h} : meanwhile[x] \subseteq meanwhile'[x]
    /\ UNCHANGED foreignKeys

\* Every step that ends a call does that, and no more to the calls.
LEMMA EndsCalls ==
    ASSUME CallsOK, NEW h \in Handles, Ends(h) PROVE Ended(h)
<1>1. ASSUME NoRace(h), \/ Return(h, "ok") \/ Return(h, "failed") \/ Interrupt(h)
      PROVE  Ended(h)
  BY <1>1, NoRaceTyped DEF Ended, Return, Interrupt
<1>2. CASE InsertContact(h) \/ InsertConflicts(h) \/ UpdateContact(h)
           \/ StoreMappingFails(h) \/ Interrupt(h)
  BY <1>1, <1>2 DEF InsertContact, InsertConflicts, UpdateContact,
     StoreMappingFails, Interrupt
<1>3. CASE \/ \E f \in Fingerprints, alias \in Aliases \cup {NoAlias} :
                 UpdateAlias(h, f, alias)
           \/ \E f \in Fingerprints : UpdateAliasFails(h, f)
           \/ \E f \in Fingerprints, p \in Pubkeys : MapOwnedByOther(h, f, p)
  BY <1>1, <1>3 DEF UpdateAlias, UpdateAliasFails, MapOwnedByOther
<1>4. CASE StoreMapping(h)
  <2>1. /\ arg[h][1] \in Fingerprints
        /\ Mapped(h, arg[h][1])
        /\ Return(h, "ok")
    BY <1>4 DEF StoreMapping, CallsOK, CallArgs, MapArgs
  <2> QED BY <2>1, RaceTyped DEF Ended, Return
<1> QED BY <1>2, <1>3, <1>4 DEF Ends

\* CallsOK is inductive.
LEMMA CallsInductive ==
    ASSUME CallsOK, faults \in Nat, [Next]_vars
    PROVE  CallsOK' /\ faults' \in Nat
<1>1. ASSUME NEW h \in Handles, Begins(h)
      PROVE  CallsOK' /\ faults' \in Nat
  BY <1>1, BeginsStep, GoKeepsCalls
<1>2. ASSUME NEW h \in Handles, Ends(h)
      PROVE  CallsOK' /\ faults' \in Nat
  <2>1. faults' \in Nat
    BY <1>2 DEF Ends, InsertContact, InsertConflicts, UpdateContact, UpdateAlias,
       UpdateAliasFails, MapOwnedByOther, StoreMapping, StoreMappingFails,
       Interrupt, Return
  <2> QED BY <1>2, <2>1, EndsCalls, ReturnKeepsCalls DEF Ended
<1>3. ASSUME NEW f \in Fingerprints, AddConversation(f) \/ RemoveContact(f)
      PROVE  CallsOK' /\ faults' \in Nat
  <2>1. meanwhile' \in [Handles -> SUBSET Fingerprints]
    BY <1>3, RaceTyped DEF AddConversation, RemoveContact, CallsOK
  <2> QED BY <1>3, <2>1
          DEF AddConversation, RemoveContact, CallsOK, CallArgs, calls
<1>4. CASE Tick \/ UNCHANGED vars
  BY <1>4 DEF Tick, CallsOK, CallArgs, calls, vars
<1> QED BY <1>1, <1>2, <1>3, <1>4, CallKinds DEF Next

\* What the calls do to the tables: a contact is added or changed, or a mapping
\* is written in place of those with its public key.
LEMMA EndsTables ==
    ASSUME TablesOK, CallsOK, NEW h \in Handles, Ends(h)
    PROVE  TablesOK'
<1> USE DEF TablesOK
<1>1. CASE InsertContact(h)
  <2> DEFINE key == arg[h][1]
             f == Fingerprint(key)
  <2>1. key \in IdentityKeys /\ arg[h][2] \in Aliases \cup {NoAlias}
    BY <1>1 DEF InsertContact, CallsOK, CallArgs, AddArgs, AddStatements
  <2>2. f \in Fingerprints
    BY <2>1, FingerprintTyped
  <2>3. /\ ContactRow(key, arg[h][2], now) \in Contact
        /\ ContactRow(key, arg[h][2], now).signal_identity_key = key
    BY <2>1 DEF ContactRow, Contact
  <2> QED BY <1>1, <2>2, <2>3 DEF InsertContact, Return, Put
<1>2. CASE UpdateContact(h)
  <2> DEFINE key == arg[h][1]
  <2>1. key \in IdentityKeys /\ arg[h][2] \in Aliases \cup {NoAlias}
    BY <1>2 DEF UpdateContact, CallsOK, CallArgs, AddArgs, AddStatements
  <2>2. ASSUME NEW f \in DOMAIN contacts
        PROVE  LET row == ContactRow(key, arg[h][2], contacts[f].first_seen)
               IN row \in Contact /\ row.signal_identity_key = key
    BY <2>1, <2>2 DEF ContactRow, Contact
  <2> QED BY <1>2, <2>2 DEF UpdateContact, Return
<1>3. ASSUME NEW f \in Fingerprints, NEW alias \in Aliases \cup {NoAlias},
             UpdateAlias(h, f, alias)
      PROVE  TablesOK'
  <2>1. /\ [contacts[f] EXCEPT !.user_alias = alias] \in Contact
        /\ [contacts[f] EXCEPT !.user_alias = alias].signal_identity_key
               = contacts[f].signal_identity_key
    BY <1>3 DEF UpdateAlias, Contact
  <2> QED BY <1>3, <2>1 DEF UpdateAlias, Return
<1>4. CASE StoreMapping(h)
  <2>1. arg[h][1] \in Fingerprints /\ arg[h][2] \in Pubkeys
    BY <1>4 DEF StoreMapping, CallsOK, CallArgs, MapArgs
  <2> QED BY <1>4, <2>1 DEF StoreMapping, Return, Put
<1>5. CASE \/ InsertConflicts(h) \/ StoreMappingFails(h) \/ Interrupt(h)
           \/ \E f \in Fingerprints : UpdateAliasFails(h, f)
           \/ \E f \in Fingerprints, p \in Pubkeys : MapOwnedByOther(h, f, p)
  <2>1. UNCHANGED <<foreignKeys, contacts, nostr, conversations, now>>
    BY <1>5 DEF InsertConflicts, StoreMappingFails, Interrupt, UpdateAliasFails,
       MapOwnedByOther, Return, tables
  <2> QED BY <2>1
<1> QED BY <1>1, <1>2, <1>3, <1>4, <1>5 DEF Ends

\* TablesOK is inductive.
LEMMA TablesInductive ==
    ASSUME TablesOK, CallsOK, faults \in Nat, [Next]_vars PROVE TablesOK'
<1> USE DEF TablesOK
<1>1. ASSUME NEW h \in Handles, Begins(h)
      PROVE  TablesOK'
  BY <1>1, BeginsStep DEF tables
<1>2. ASSUME NEW f \in Fingerprints, AddConversation(f)
      PROVE  TablesOK'
  BY <1>2 DEF AddConversation
<1>3. ASSUME NEW f \in Fingerprints, RemoveContact(f)
      PROVE  TablesOK'
  BY <1>3 DEF RemoveContact, Drop
<1>4. CASE Tick
  BY <1>4, ContactsAssumption DEF Tick, tables, ContactsAssumption
<1>5. CASE UNCHANGED vars
  BY <1>5 DEF vars, tables
<1> QED BY <1>1, <1>2, <1>3, <1>4, <1>5, CallKinds, EndsTables DEF Next

-----------------------------------------------------------------------------
(* What the calls run into between their statements.                       *)

\* Another contact gets a public key, or a contact goes, only where the calls
\* in progress take note of it.
LEMMA RacesNoted ==
    ASSUME TablesOK, CallsOK, NEW h \in Handles, Ends(h)
    PROVE  /\ DOMAIN contacts \subseteq DOMAIN contacts'
           /\ \A x \in Handles \ {h} : op[x] = "storeMapping" =>
                 \A p : FingerprintsOf(p)' \subseteq FingerprintsOf(p) \cup meanwhile'[x]
<1>1. CASE StoreMapping(h)
  <2>1. arg[h][1] \in Fingerprints
    BY <1>1 DEF StoreMapping, CallsOK, CallArgs, MapArgs
  <2>2. \A x \in Handles \ {h} : op[x] = "storeMapping" => arg[h][1] \in meanwhile'[x]
    BY <1>1, <2>1, RaceTyped DEF StoreMapping
  <2> QED BY <1>1, <2>2 DEF StoreMapping, FingerprintsOf, Put
<1>2. CASE InsertContact(h)
  BY <1>2 DEF InsertContact, Put, FingerprintsOf
<1>3. CASE \/ UpdateContact(h)
           \/ \E f \in Fingerprints, alias \in Aliases \cup {NoAlias} :
                 UpdateAlias(h, f, alias)
  BY <1>3 DEF UpdateContact, UpdateAlias, FingerprintsOf
<1>4. CASE \/ InsertConflicts(h) \/ StoreMappingFails(h) \/ Interrupt(h)
           \/ \E f \in Fingerprints : UpdateAliasFails(h, f)
           \/ \E f \in Fingerprints, p \in Pubkeys : MapOwnedByOther(h, f, p)
  <2>1. UNCHANGED <<contacts, nostr>>
    BY <1>4 DEF InsertConflicts, StoreMappingFails, Interrupt, UpdateAliasFails,
       MapOwnedByOther, tables
  <2> QED BY <2>1 DEF FingerprintsOf
<1> QED BY <1>1, <1>2, <1>3, <1>4 DEF Ends

\* MapRace and AddRace survive the steps of a handle.
LEMMA RacesKeptByCalls ==
    ASSUME TablesOK, CallsOK, MapRace, AddRace, faults \in Nat,
           NEW h \in Handles, Call(h)
    PROVE  MapRace' /\ AddRace'
<1>1. CASE Begins(h)
  <2>1. PICK s, a :
           /\ Go(h, s, a)
           /\ s = "storeMapping" => FingerprintsOf(a[2]) \subseteq {a[1]}
           /\ s = "updateContact" => Fingerprint(a[1]) \in DOMAIN contacts
    BY <1>1, BeginsStep
  <2>2. UNCHANGED <<contacts, nostr>>
    BY <1>1, BeginsStep DEF tables
  <2>3. \A p : FingerprintsOf(p)' = FingerprintsOf(p)
    BY <2>2 DEF FingerprintsOf
  <2>4. /\ op'[h] = s /\ arg'[h] = a
        /\ \A x \in Handles \ {h} : /\ op'[x] = op[x]
                                    /\ arg'[x] = arg[x]
                                    /\ meanwhile'[x] = meanwhile[x]
    BY <2>1 DEF Go, CallsOK, CallArgs
  <2>5. MapRace'
    BY <2>1, <2>3, <2>4 DEF MapRace
  <2>6. AddRace'
    BY <2>1, <2>2, <2>4 DEF AddRace, Fingerprint
  <2> QED BY <2>5, <2>6
<1>2. CASE Ends(h)
  <2>1. /\ op'[h] = "idle"
        /\ \A x \in Handles \ {h} : /\ op'[x] = op[x]
                                    /\ arg'[x] = arg[x]
                                    /\ meanwhile[x] \subseteq meanwhile'[x]
    BY <1>2, EndsCalls DEF Ended, CallsOK, CallArgs
  <2>2. /\ DOMAIN contacts \subseteq DOMAIN contacts'
        /\ \A x \in Handles \ {h} : op[x] = "storeMapping" =>
              \A p : FingerprintsOf(p)' \subseteq FingerprintsOf(p) \cup meanwhile'[x]
    BY <1>2, RacesNoted
  <2>3. MapRace'
    <3>1. SUFFICES ASSUME NEW x \in Handles, op'[x] = "storeMapping"
                   PROVE  (FingerprintsOf(arg[x][2])
                              \subseteq {arg[x][1]} \cup meanwhile[x])'
      BY DEF MapRace
    <3>2. /\ x # h
          /\ op[x] = "storeMapping"
          /\ arg'[x] = arg[x]
          /\ meanwhile[x] \subseteq meanwhile'[x]
      BY <2>1, <3>1
    <3>3. PICK p : p = arg[x][2]
      OBVIOUS
    <3>4. /\ FingerprintsOf(p) \subseteq {arg[x][1]} \cup meanwhile[x]
          /\ FingerprintsOf(p)' \subseteq FingerprintsOf(p) \cup meanwhile'[x]
      BY <2>2, <3>2, <3>3 DEF MapRace
    <3>5. FingerprintsOf(arg[x][2])' = FingerprintsOf(p)'
      BY <3>2, <3>3 DEF FingerprintsOf
    <3> QED BY <3>2, <3>4, <3>5
  <2>4. AddRace'
    BY <2>1, <2>2 DEF AddRace, Fingerprint
  <2> QED BY <2>3, <2>4
<1> QED BY <1>1, <1>2, CallKinds

\* MapRace and AddRace are inductive.
LEMMA RacesInductive ==
    ASSUME TablesOK, CallsOK, MapRace, AddRace, faults \in Nat, [Next]_vars
    PROVE  MapRace' /\ AddRace'
<1>1. ASSUME NEW f \in Fingerprints, RemoveContact(f)
      PROVE  MapRace' /\ AddRace'
  <2>1. /\ UNCHANGED <<op, arg>>
        /\ \A p : FingerprintsOf(p)' \subseteq FingerprintsOf(p)
        /\ DOMAIN contacts \subseteq DOMAIN contacts' \cup {f}
    BY <1>1 DEF RemoveContact, Drop, FingerprintsOf, calls
  <2>2. \A x \in Handles : /\ meanwhile[x] \subseteq meanwhile'[x]
                           /\ op[x] \in AddStatements => f \in meanwhile'[x]
    BY <1>1, RaceTyped DEF RemoveContact
  <2>3. MapRace'
    BY <2>1, <2>2 DEF MapRace, FingerprintsOf
  <2>4. AddRace'
    BY <2>1, <2>2 DEF AddRace, AddStatements, Fingerprint
  <2> QED BY <2>3, <2>4
<1>2. CASE Tick \/ UNCHANGED vars \/ \E f \in Fingerprints : AddConversation(f)
  <2>1. UNCHANGED <<op, arg, meanwhile, contacts, nostr>>
    BY <1>2 DEF Tick, AddConversation, vars, tables, calls
  <2> QED BY <2>1 DEF MapRace, AddRace, FingerprintsOf, Fingerprint
<1> QED BY <1>1, <1>2, RacesKeptByCalls DEF Next

\* Inv holds in every reachable state.
LEMMA InvHolds == Spec => []Inv
<1>1. Init => Inv
  BY ContactsAssumption DEF Init, Inv, TablesOK, CallsOK, CallArgs, MapRace, AddRace,
     EmptyTable, AddStatements, ContactsAssumption
<1>2. Inv /\ [Next]_vars => Inv'
  BY CallsInductive, TablesInductive, RacesInductive DEF Inv
<1> QED BY <1>1, <1>2, PTL DEF Spec

-----------------------------------------------------------------------------
(* The theorems.                                                           *)

\* Every reachable state is well typed, and contacts are filed under the
\* fingerprints of their keys.
THEOREM TypeCorrect == Spec => []TypeOK
BY InvHolds, InvTyped, PTL

\* However calls interleave, a public key leads back to one contact: the
\* insertion itself takes the key from everybody else.
THEOREM OneOwnerPerPubkeyHolds == Spec => []OneOwnerPerPubkey
<1> DEFINE One == \A f, g \in DOMAIN nostr : nostr[f] = nostr[g] => f = g
<1>1. Init => One
  BY DEF Init, EmptyTable
<1>2. One /\ [Next]_vars => One'
  <2> SUFFICES ASSUME One, [Next]_vars PROVE One'
    OBVIOUS
  <2>1. ASSUME NEW h \in Handles, StoreMapping(h)
        PROVE  One'
    BY <2>1 DEF StoreMapping, FingerprintsOf, Put
  <2>2. ASSUME NEW f \in Fingerprints, RemoveContact(f)
        PROVE  One'
    BY <2>2 DEF RemoveContact, Drop
  <2>3. ASSUME NEW h \in Handles, Call(h), ~ StoreMapping(h)
        PROVE  UNCHANGED nostr
    BY <2>3 DEF Call, BeginAdd, BeginAddMisread, BeginMap, Go, InsertContact,
       InsertConflicts, UpdateContact, UpdateAlias, UpdateAliasFails,
       MapOwnedByOther, StoreMappingFails, Interrupt, tables
  <2>4. CASE Tick \/ UNCHANGED vars \/ \E f \in Fingerprints : AddConversation(f)
    BY <2>4 DEF Tick, AddConversation, vars, tables
  <2> QED BY <2>1, <2>2, <2>3, <2>4 DEF Next
<1>3. One => OneOwnerPerPubkey
  BY DEF OneOwnerPerPubkey, NostrPubkey, FingerprintsOf
<1> QED BY <1>1, <1>2, <1>3, PTL DEF Spec

\* With foreign keys no mapping and no conversation outlives its contact.
THEOREM DependentsHaveContactHolds == Spec => []DependentsHaveContact
<1>1. Init => DependentsHaveContact
  BY DEF Init, EmptyTable, DependentsHaveContact
<1>2. DependentsHaveContact /\ [Next]_vars => DependentsHaveContact'
  <2> SUFFICES ASSUME DependentsHaveContact, [Next]_vars
               PROVE  DependentsHaveContact'
    OBVIOUS
  <2> USE DEF DependentsHaveContact
  <2>1. ASSUME NEW h \in Handles, StoreMapping(h)
        PROVE  DependentsHaveContact'
    BY <2>1 DEF StoreMapping, Refers, Return, Put
  <2>2. ASSUME NEW h \in Handles, InsertContact(h)
        PROVE  DependentsHaveContact'
    BY <2>2 DEF InsertContact, Return, Put
  <2>3. ASSUME NEW h \in Handles, Call(h), ~ StoreMapping(h), ~ InsertContact(h)
        PROVE  /\ UNCHANGED <<foreignKeys, nostr, conversations>>
               /\ DOMAIN contacts' = DOMAIN contacts
    BY <2>3 DEF Call, BeginAdd, BeginAddMisread, BeginMap, Go, InsertConflicts,
       UpdateContact, UpdateAlias, UpdateAliasFails, MapOwnedByOther,
       StoreMappingFails, Interrupt, Return, tables
  <2>4. ASSUME NEW f \in Fingerprints, AddConversation(f) \/ RemoveContact(f)
        PROVE  DependentsHaveContact'
    BY <2>4 DEF AddConversation, RemoveContact, Refers, Drop
  <2>5. CASE Tick \/ UNCHANGED vars
    BY <2>5 DEF Tick, vars, tables
  <2> QED BY <2>1, <2>2, <2>3, <2>4, <2>5 DEF Next
<1> QED BY <1>1, <1>2, PTL DEF Spec

\* A mapping is lost with its contact, or to a call that checked for an owner
\* before the mapping was made, and to nothing else.
THEOREM MappingLostOnlyInRaceHolds == Spec => MappingLostOnlyInRace
<1> DEFINE Lost(f) ==
              \/ f \in DOMAIN contacts \ DOMAIN contacts'
              \/ \E h \in Handles :
                    op[h] = "storeMapping" /\ op'[h] = "idle" /\ f \in meanwhile[h]
<1>1. Inv /\ [Next]_vars => \A f \in DOMAIN nostr \ DOMAIN nostr' : Lost(f)
  <2> SUFFICES ASSUME Inv, [Next]_vars, NEW f \in DOMAIN nostr \ DOMAIN nostr'
               PROVE  Lost(f)
    OBVIOUS
  <2>1. ASSUME NEW h \in Handles, StoreMapping(h)
        PROVE  Lost(f)
    <3>1. f \in FingerprintsOf(arg[h][2]) \ {arg[h][1]}
      BY <2>1 DEF StoreMapping, Put
    <3>2. op[h] = "storeMapping" /\ op'[h] = "idle"
      BY <2>1 DEF StoreMapping, Return, Inv, CallsOK
    <3> QED BY <3>1, <3>2 DEF Inv, MapRace
  <2>2. ASSUME NEW g \in Fingerprints, RemoveContact(g)
        PROVE  Lost(f)
    BY <2>2 DEF RemoveContact, Drop
  <2>3. ASSUME NEW h \in Handles, Call(h), ~ StoreMapping(h)
        PROVE  UNCHANGED nostr
    BY <2>3 DEF Call, BeginAdd, BeginAddMisread, BeginMap, Go, InsertContact,
       InsertConflicts, UpdateContact, UpdateAlias, UpdateAliasFails,
       MapOwnedByOther, StoreMappingFails, Interrupt, tables
  <2>4. CASE Tick \/ UNCHANGED vars \/ \E g \in Fingerprints : AddConversation(g)
    BY <2>4 DEF Tick, AddConversation, vars, tables
  <2> QED BY <2>1, <2>2, <2>3, <2>4 DEF Next
<1>2. Inv /\ [Next]_vars
         => [\A f \in DOMAIN nostr \ DOMAIN nostr' : Lost(f)]_vars
  BY <1>1
<1> QED BY <1>2, InvHolds, PTL DEF Spec, MappingLostOnlyInRace

\* The calls keep when a contact was first seen, and its conversation.
THEOREM ReAddKeepsDependentsHolds == Spec => ReAddKeepsDependents
<1> DEFINE Kept(f) == /\ contacts'[f].first_seen = contacts[f].first_seen
                      /\ f \in conversations => f \in conversations'
<1>1. Inv /\ [Next]_vars => \A f \in DOMAIN contacts \cap DOMAIN contacts' : Kept(f)
  <2> SUFFICES ASSUME Inv, [Next]_vars,
                      NEW f \in DOMAIN contacts \cap DOMAIN contacts'
               PROVE  Kept(f)
    OBVIOUS
  <2>1. ASSUME NEW h \in Handles, InsertContact(h) \/ UpdateContact(h)
        PROVE  Kept(f)
    BY <2>1 DEF InsertContact, UpdateContact, Put, ContactRow
  <2>2. ASSUME NEW h \in Handles, NEW g \in Fingerprints,
               NEW alias \in Aliases \cup {NoAlias}, UpdateAlias(h, g, alias)
        PROVE  Kept(f)
    <3>1. contacts[g] \in Contact
      BY <2>2 DEF UpdateAlias, Inv, TablesOK
    <3>2. [contacts[g] EXCEPT !.user_alias = alias].first_seen = contacts[g].first_seen
      BY <3>1 DEF Contact
    <3> QED BY <2>2, <3>2 DEF UpdateAlias
  <2>3. ASSUME NEW h \in Handles, Call(h), ~ InsertContact(h), ~ UpdateContact(h),
               ~ \E g \in Fingerprints, alias \in Aliases \cup {NoAlias} :
                    UpdateAlias(h, g, alias)
        PROVE  UNCHANGED <<contacts, conversations>>
    BY <2>3 DEF Call, BeginAdd, BeginAddMisread, BeginMap, Go, InsertConflicts,
       UpdateAliasFails, MapOwnedByOther, StoreMapping, StoreMappingFails,
       Interrupt, tables
  <2>4. ASSUME NEW g \in Fingerprints, AddConversation(g) \/ RemoveContact(g)
        PROVE  Kept(f)
    BY <2>4 DEF AddConversation, RemoveContact, Drop
  <2>5. CASE Tick \/ UNCHANGED vars
    BY <2>5 DEF Tick, vars, tables
  <2> QED BY <2>1, <2>2, <2>3, <2>4, <2>5 DEF Next
<1>2. Inv /\ [Next]_vars
         => [\A f \in DOMAIN contacts \cap DOMAIN contacts' : Kept(f)]_vars
  BY <1>1
<1> QED BY <1>2, InvHolds, PTL DEF Spec, ReAddKeepsDependents

\* When add_contact ends undisturbed its contact is there, and after Ok with
\* the alias if one was given.
THEOREM AddTakesEffectHolds == Spec => AddTakesEffect
<1> DEFINE Finished(h, f) == /\ op[h] \in {"insertContact", "updateContact"}
                             /\ op'[h] = "idle"
                             /\ faults' = faults
                             /\ f = Fingerprint(arg[h][1])
                             /\ f \notin meanwhile[h]
           Effect(h, f) == \E row \in LookupContact(f)' :
                              answer'[h] = "ok" /\ arg[h][2] # NoAlias =>
                                 row.user_alias = arg[h][2]
<1>1. Inv /\ [Next]_vars
         => \A h \in Handles, f \in Fingerprints : Finished(h, f) => Effect(h, f)
  <2> SUFFICES ASSUME Inv, [Next]_vars, NEW h \in Handles, NEW f \in Fingerprints,
                      Finished(h, f)
               PROVE  Effect(h, f)
    OBVIOUS
  <2>1. CASE InsertContact(h)
    BY <2>1 DEF InsertContact, LookupContact, Put, ContactRow
  <2>2. CASE InsertConflicts(h)
    <3>1. f \in DOMAIN contacts' /\ answer'[h] = "failed"
      BY <2>2 DEF InsertConflicts, Return, tables, Inv, CallsOK
    <3> QED BY <3>1 DEF LookupContact
  <2>3. CASE UpdateContact(h)
    <3>1. f \in DOMAIN contacts
      BY <2>3 DEF UpdateContact, Inv, AddRace
    <3> QED BY <2>3, <3>1 DEF UpdateContact, LookupContact, ContactRow
  <2>4. ASSUME NEW x \in Handles, Call(x), x # h
        PROVE  FALSE
    <3>1. op'[h] = op[h]
      BY <2>4, CallKinds, BeginsStep, EndsCalls
         DEF Go, Ended, Inv, CallsOK
    <3> QED BY <3>1
  <2>5. ASSUME Call(h), ~ InsertContact(h), ~ InsertConflicts(h), ~ UpdateContact(h)
        PROVE  FALSE
    <3>1. ~ Interrupt(h)
      BY DEF Interrupt, Inv
    <3> QED BY <2>5, <3>1 DEF Call, BeginAdd, BeginAddMisread, BeginMap, UpdateAlias,
            UpdateAliasFails, MapOwnedByOther, StoreMapping, StoreMappingFails
  <2>6. CASE \/ Tick \/ UNCHANGED vars
             \/ \E g \in Fingerprints : AddConversation(g) \/ RemoveContact(g)
    BY <2>6 DEF Tick, AddConversation, RemoveContact, vars, calls
  <2> QED BY <2>1, <2>2, <2>3, <2>4, <2>5, <2>6 DEF Next
<1>2. Inv /\ [Next]_vars
         => [\A h \in Handles, f \in Fingerprints : Finished(h, f) => Effect(h, f)]_vars
  BY <1>1
<1> QED BY <1>2, InvHolds, PTL DEF Spec, AddTakesEffect

=============================================================================
