----------------------------- MODULE Contacts ------------------------------
(***************************************************************************)
(* Contacts of contact_manager.rs and the Nostr public keys that           *)
(* integrations/nostr/storage.rs maps to them, with what hangs on a        *)
(* contact by a foreign key.                                               *)
(*                                                                         *)
(* add_contact and store_nostr_identity read with one statement and write  *)
(* with the next, without a transaction: on two connections to one file    *)
(* the calls interleave, and a call can be cut short between the two.      *)
(* Calls that share a connection are serialised by its mutex: that is one  *)
(* handle.  last_updated, which only orders listings, and the derivation   *)
(* context, which nothing reads, are left out.  A call whose first         *)
(* statement fails changes nothing and is not shown, but for BeginAdd.     *)
(***************************************************************************)
EXTENDS Tables

CONSTANTS
    Handles,       \* connections to the database
    IdentityKeys,  \* Signal identity keys of peers
    Salt, Prefix,  \* fingerprint_salt and fingerprint_prefix of the config
    Aliases,       \* user aliases
    NoAlias,       \* None, the absence of an alias
    Pubkeys,       \* Nostr public keys
    Builds,        \* whether SQLite enforces foreign keys: in {"on", "off"}
    MaxNow,        \* bound: the last second of a behaviour
    MaxFaults      \* bound: the calls cut short and the reads that fail

ASSUME ContactsAssumption ==
    /\ Builds \subseteq {"on", "off"}
    /\ NoAlias \notin Aliases
    /\ {MaxNow, MaxFaults} \subseteq Nat

VARIABLES
    foreignKeys,    \* whether this build enforces foreign keys
    contacts,       \* table contacts: fingerprint -> row
    nostr,          \* table nostr_identities: fingerprint -> nostr_pubkey
    conversations,  \* the fingerprints in table conversations
    op,             \* handle -> the statement its call executes next, or "idle"
    arg,            \* handle -> arguments of its call
    answer,         \* handle -> how its last call ended: "none" during a call
    now,            \* the system clock, in seconds
    meanwhile,      \* history: handle -> the fingerprints that, since its call
                    \*          read the tables, were removed from contacts (in
                    \*          add_contact), mapped anew (in store_nostr_identity)
    faults          \* history: the number of faults

tables == <<contacts, nostr, conversations>>
calls  == <<op, arg, answer>>
vars   == <<foreignKeys, tables, calls, now, meanwhile, faults>>

\* The lower-case digest of the key and the salt, after the prefix; an ideal
\* hash, so that the pair stands for its digest.
Fingerprint(key) == <<Prefix, <<key, Salt>>>>

Fingerprints == {Fingerprint(key) : key \in IdentityKeys}

ContactRow(key, alias, t) ==
    [signal_identity_key |-> key, user_alias |-> alias, first_seen |-> t]

Contact ==
    [signal_identity_key : IdentityKeys,
     user_alias : Aliases \cup {NoAlias},
     first_seen : 0 .. MaxNow]

\* lookup_contact: Some(the row) or None.
LookupContact(f) == {contacts[x] : x \in DOMAIN contacts \cap {f}}

\* get_nostr_pubkey: Some(the key) or None.
NostrPubkey(f) == {nostr[x] : x \in DOMAIN nostr \cap {f}}

\* get_fingerprint_by_nostr_pubkey: the rows it finds.
FingerprintsOf(p) == {f \in DOMAIN nostr : nostr[f] = p}

Init ==
    /\ foreignKeys \in Builds
    /\ contacts = EmptyTable
    /\ nostr = EmptyTable
    /\ conversations = {}
    /\ op = [h \in Handles |-> "idle"]
    /\ arg = [h \in Handles |-> <<>>]
    /\ answer = [h \in Handles |-> "none"]
    /\ now = 0
    /\ meanwhile = [h \in Handles |-> {}]
    /\ faults = 0

-----------------------------------------------------------------------------
(* Calls.                                                                  *)

\* The call of h has read the tables and executes statement s next.
Go(h, s, a) ==
    /\ op' = [op EXCEPT ![h] = s]
    /\ arg' = [arg EXCEPT ![h] = a]
    /\ answer' = [answer EXCEPT ![h] = "none"]
    /\ meanwhile' = [meanwhile EXCEPT ![h] = {}]
    /\ UNCHANGED <<foreignKeys, tables, now>>

\* The call of h ends with Ok or Err.
Return(h, r) ==
    /\ op' = [op EXCEPT ![h] = "idle"]
    /\ arg' = [arg EXCEPT ![h] = <<>>]
    /\ answer' = [answer EXCEPT ![h] = r]
    /\ UNCHANGED <<foreignKeys, now, faults>>

\* Contact f was removed, or mapped anew by the call of h, while other calls
\* are between their two statements.
Removed(f) ==
    meanwhile' = [x \in Handles |->
        IF op[x] \in {"insertContact", "updateContact"}
        THEN meanwhile[x] \cup {f} ELSE meanwhile[x]]

Mapped(h, f) ==
    meanwhile' = [x \in Handles |->
        IF x = h THEN {}
        ELSE IF op[x] = "storeMapping" THEN meanwhile[x] \cup {f}
        ELSE meanwhile[x]]

\* Nothing that other calls could run into, as their statements find out.
NoRace(h) == meanwhile' = [meanwhile EXCEPT ![h] = {}]

\* Not the code: the tables have no FOREIGN KEY clause.
RefersUnchecked(f) == TRUE

\* A foreign key that refers to contact f holds, or is not enforced.
Refers(f) == foreignKeys = "on" => f \in DOMAIN contacts

-----------------------------------------------------------------------------
(* add_contact and update_contact_alias.                                   *)

\* Not the code: the branches are the wrong way round.
BeginAddSwapped(h, key, alias) ==
    /\ op[h] = "idle"
    /\ IF Fingerprint(key) \in DOMAIN contacts
       THEN Go(h, "insertContact", <<key, alias>>)
       ELSE Go(h, "updateContact", <<key, alias>>)
    /\ UNCHANGED faults

\* SELECT first_seen
BeginAdd(h, key, alias) ==
    /\ op[h] = "idle"
    /\ IF Fingerprint(key) \in DOMAIN contacts
       THEN Go(h, "updateContact", <<key, alias>>)
       ELSE Go(h, "insertContact", <<key, alias>>)
    /\ UNCHANGED faults

\* SELECT first_seen fails: .ok() makes it look as if there were no row.
BeginAddMisread(h, key, alias) ==
    /\ op[h] = "idle"
    /\ faults < MaxFaults
    /\ faults' = faults + 1
    /\ Go(h, "insertContact", <<key, alias>>)

\* INSERT INTO contacts
InsertContact(h) ==
    /\ op[h] = "insertContact"
    /\ LET key == arg[h][1]
           f == Fingerprint(key)
       IN /\ f \notin DOMAIN contacts
          /\ contacts' = Put(contacts, f, ContactRow(key, arg[h][2], now))
    /\ Return(h, "ok")
    /\ NoRace(h)
    /\ UNCHANGED <<nostr, conversations>>

\* INSERT INTO contacts runs into the primary key.
InsertConflicts(h) ==
    /\ op[h] = "insertContact"
    /\ Fingerprint(arg[h][1]) \in DOMAIN contacts
    /\ Return(h, "failed")
    /\ NoRace(h)
    /\ UNCHANGED tables

\* Not the code: INSERT OR REPLACE, which deletes the row it replaces and
\* with it the rows that refer to it.
ReplaceContact(h) ==
    /\ op[h] = "updateContact"
    /\ LET key == arg[h][1]
           f == Fingerprint(key)
       IN /\ contacts' = Put(contacts, f, ContactRow(key, arg[h][2], now))
          /\ nostr' = IF foreignKeys = "on" THEN Drop(nostr, f) ELSE nostr
          /\ conversations' = IF foreignKeys = "on" THEN conversations \ {f}
                              ELSE conversations
    /\ Return(h, "ok")
    /\ NoRace(h)

\* Not the code: UPDATE contacts without WHERE.
UpdateEveryContact(h) ==
    /\ op[h] = "updateContact"
    /\ contacts' = [f \in DOMAIN contacts |->
           ContactRow(arg[h][1], arg[h][2], contacts[f].first_seen)]
    /\ Return(h, "ok")
    /\ NoRace(h)
    /\ UNCHANGED <<nostr, conversations>>

\* UPDATE contacts ... WHERE fingerprint = ?: no row when it was removed.
UpdateContact(h) ==
    /\ op[h] = "updateContact"
    /\ LET key == arg[h][1] IN
       contacts' = [f \in DOMAIN contacts |->
                       IF f = Fingerprint(key)
                       THEN ContactRow(key, arg[h][2], contacts[f].first_seen)
                       ELSE contacts[f]]
    /\ Return(h, "ok")
    /\ NoRace(h)
    /\ UNCHANGED <<nostr, conversations>>

\* update_contact_alias: one statement.
UpdateAlias(h, f, alias) ==
    /\ op[h] = "idle"
    /\ f \in DOMAIN contacts
    /\ contacts' = [contacts EXCEPT ![f].user_alias = alias]
    /\ Return(h, "ok")
    /\ NoRace(h)
    /\ UNCHANGED <<nostr, conversations>>

\* update_contact_alias: ContactNotFound.
UpdateAliasFails(h, f) ==
    /\ op[h] = "idle"
    /\ f \notin DOMAIN contacts
    /\ Return(h, "failed")
    /\ NoRace(h)
    /\ UNCHANGED tables

-----------------------------------------------------------------------------
(* store_nostr_identity.                                                   *)

\* Not the code: whoever owns the public key is not asked for.
BeginMapUnasked(h, f, p) ==
    /\ op[h] = "idle"
    /\ Go(h, "storeMapping", <<f, p>>)
    /\ UNCHANGED faults

\* The public key is free, or it belongs to f already.
BeginMap(h, f, p) ==
    /\ op[h] = "idle"
    /\ FingerprintsOf(p) \subseteq {f}
    /\ Go(h, "storeMapping", <<f, p>>)
    /\ UNCHANGED faults

\* The public key is associated with a different fingerprint.
MapOwnedByOther(h, f, p) ==
    /\ op[h] = "idle"
    /\ ~ FingerprintsOf(p) \subseteq {f}
    /\ Return(h, "failed")
    /\ NoRace(h)
    /\ UNCHANGED tables

\* Not the code: nostr_pubkey is not UNIQUE.
StoreMappingBeside(h) ==
    /\ op[h] = "storeMapping"
    /\ LET f == arg[h][1] IN
       /\ Refers(f)
       /\ nostr' = Put(nostr, f, arg[h][2])
       /\ Mapped(h, f)
    /\ Return(h, "ok")
    /\ UNCHANGED <<contacts, conversations>>

\* INSERT OR REPLACE INTO nostr_identities: the rows with this fingerprint or
\* with this public key go.
StoreMapping(h) ==
    /\ op[h] = "storeMapping"
    /\ LET f == arg[h][1]
           p == arg[h][2]
           others == [x \in DOMAIN nostr \ FingerprintsOf(p) |-> nostr[x]]
       IN /\ Refers(f)
          /\ nostr' = Put(others, f, p)
          /\ Mapped(h, f)
    /\ Return(h, "ok")
    /\ UNCHANGED <<contacts, conversations>>

\* The foreign key refers to a contact that is not there.
StoreMappingFails(h) ==
    /\ op[h] = "storeMapping"
    /\ ~ Refers(arg[h][1])
    /\ Return(h, "failed")
    /\ NoRace(h)
    /\ UNCHANGED tables

-----------------------------------------------------------------------------
(* Around the calls.                                                       *)

\* get_or_create_conversation for a fingerprint without conversation.
AddConversation(f) ==
    /\ f \notin conversations
    /\ Refers(f)
    /\ conversations' = conversations \cup {f}
    /\ UNCHANGED <<foreignKeys, contacts, nostr, calls, now, meanwhile, faults>>

\* The application deletes a contact through connection(); the rows that
\* refer to it are declared ON DELETE CASCADE.
RemoveContact(f) ==
    /\ f \in DOMAIN contacts
    /\ contacts' = Drop(contacts, f)
    /\ nostr' = IF foreignKeys = "on" THEN Drop(nostr, f) ELSE nostr
    /\ conversations' = IF foreignKeys = "on" THEN conversations \ {f}
                        ELSE conversations
    /\ Removed(f)
    /\ UNCHANGED <<foreignKeys, calls, now, faults>>

\* A crash, or a statement that fails: what the call has written stays.
Interrupt(h) ==
    /\ op[h] # "idle"
    /\ faults < MaxFaults
    /\ faults' = faults + 1
    /\ op' = [op EXCEPT ![h] = "idle"]
    /\ arg' = [arg EXCEPT ![h] = <<>>]
    /\ answer' = [answer EXCEPT ![h] = "failed"]
    /\ NoRace(h)
    /\ UNCHANGED <<foreignKeys, tables, now>>

Tick ==
    /\ now < MaxNow
    /\ now' = now + 1
    /\ UNCHANGED <<foreignKeys, tables, calls, meanwhile, faults>>

Call(h) ==
    \/ \E key \in IdentityKeys, alias \in Aliases \cup {NoAlias} :
          BeginAdd(h, key, alias) \/ BeginAddMisread(h, key, alias)
    \/ InsertContact(h) \/ InsertConflicts(h) \/ UpdateContact(h)
    \/ \E f \in Fingerprints, alias \in Aliases \cup {NoAlias} :
          UpdateAlias(h, f, alias)
    \/ \E f \in Fingerprints : UpdateAliasFails(h, f)
    \/ \E f \in Fingerprints, p \in Pubkeys :
          BeginMap(h, f, p) \/ MapOwnedByOther(h, f, p)
    \/ StoreMapping(h) \/ StoreMappingFails(h)
    \/ Interrupt(h)

Next ==
    \/ \E h \in Handles : Call(h)
    \/ \E f \in Fingerprints : AddConversation(f) \/ RemoveContact(f)
    \/ Tick

Spec == Init /\ [][Next]_vars

-----------------------------------------------------------------------------
(* Properties.                                                             *)

\* The rows of contacts are filed under the fingerprints of their keys, and
\* the rest has its type.
TypeOK ==
    /\ foreignKeys \in {"on", "off"}
    /\ DOMAIN contacts \subseteq Fingerprints
    /\ \A f \in DOMAIN contacts :
          /\ contacts[f] \in Contact
          /\ f = Fingerprint(contacts[f].signal_identity_key)
    /\ DOMAIN nostr \subseteq Fingerprints
    /\ \A f \in DOMAIN nostr : nostr[f] \in Pubkeys
    /\ conversations \subseteq Fingerprints
    /\ op \in [Handles -> {"idle", "insertContact", "updateContact",
                           "storeMapping"}]
    /\ answer \in [Handles -> {"none", "ok", "failed"}]
    /\ meanwhile \in [Handles -> SUBSET Fingerprints]
    /\ now \in 0 .. MaxNow

\* The public key of a contact leads back to it and to no other, whatever the
\* calls of two connections do between the check for an owner and the insertion.
OneOwnerPerPubkey ==
    \A f \in Fingerprints : \A p \in NostrPubkey(f) : FingerprintsOf(p) = {f}

\* With foreign keys, no mapping and no conversation is left without its
\* contact, also when the application deletes contacts between two statements.
DependentsHaveContact ==
    foreignKeys = "on" => DOMAIN nostr \cup conversations \subseteq DOMAIN contacts

\* Storing a mapping takes the public key away from another contact only if
\* that contact got it after the check for an owner; else a mapping goes with
\* its contact.
MappingLostOnlyInRace ==
    [][\A f \in DOMAIN nostr \ DOMAIN nostr' :
          \/ f \in DOMAIN contacts \ DOMAIN contacts'
          \/ \E h \in Handles :
                op[h] = "storeMapping" /\ op'[h] = "idle"
                    /\ f \in meanwhile[h]]_vars

\* Adding a contact again, or renaming it, keeps when it was first seen and its
\* conversation.
ReAddKeepsDependents ==
    [][\A f \in DOMAIN contacts \cap DOMAIN contacts' :
          /\ contacts'[f].first_seen = contacts[f].first_seen
          /\ f \in conversations => f \in conversations']_vars

\* When add_contact ends on its own, with Ok or in a conflict, the contact is
\* there, and after Ok with the alias if one was given, unless the application
\* removed it between the two statements.
AddTakesEffect ==
    [][\A h \in Handles, f \in Fingerprints :
          /\ op[h] \in {"insertContact", "updateContact"}
          /\ op'[h] = "idle"
          /\ faults' = faults
          /\ f = Fingerprint(arg[h][1])
          /\ f \notin meanwhile[h]
          => \E row \in LookupContact(f)' :
                answer'[h] = "ok" /\ arg[h][2] # NoAlias =>
                   row.user_alias = arg[h][2]]_vars

\* What the comment of add_contact says (contact_manager.rs:62-64): "The alias
\* is only updated if provided".  Adding a contact that is there without an
\* alias would keep the alias that is stored; the UPDATE writes NULL instead.
AliasUpdatedOnlyIfProvided ==
    [][\A h \in Handles : \A f \in DOMAIN contacts \cap DOMAIN contacts' :
          /\ op[h] = "updateContact"
          /\ op'[h] = "idle"
          /\ arg[h] = <<contacts[f].signal_identity_key, NoAlias>>
          => contacts'[f].user_alias = contacts[f].user_alias]_vars
=============================================================================
