-------------------------- MODULE RedisStore_proofs --------------------------
(***************************************************************************)
(* Theorems about the version check of RedisTrustStore, for any number of  *)
(* callers, agents and retries.                                            *)
(***************************************************************************)
EXTENDS RedisStore, TLAPS

(* A reader whose key was not deleted: the version has only grown, and while
   it is the one that was read, so is the record. *)
Current(h, s) == Version(s) <= Version(h) /\ (Version(s) = Version(h) => s = h)

CasInv ==
    /\ TypeOK
    /\ \A c \in Clients : pc[c] = "read" /\ ~deleted[c] => Current(hash[Key(c)], saw[c])

-----------------------------------------------------------------------------
LEMMA VersionsAreNat ==
    ASSUME NEW h \in Hash \cup {NoHash}
    PROVE  /\ Version(h) \in Nat
           /\ Version(h) = 0 <=> h = NoHash
           /\ Data(h) \in Record
PROOF BY NoHashIsNone DEF Version, Data, Hash, Record

LEMMA WrittenIsHash ==
    ASSUME NEW h \in Hash \cup {NoHash}, NEW record \in Record
    PROVE  /\ Written(h, record) \in Hash
           /\ Version(Written(h, record)) = Version(h) + 1
           /\ Data(Written(h, record)) = record
PROOF
<1>1. Version(h) + 1 \in Nat \ {0}
  BY VersionsAreNat
<1>2. Written(h, record) \in Hash
  BY <1>1 DEF Written, Hash
<1>3. Written(h, record) # NoHash
  BY <1>2, NoHashIsNone
<1>. QED  BY <1>2, <1>3 DEF Version, Data, Written

LEMMA KeysAreAgents ==
    ASSUME NEW c \in Clients
    PROVE  Key(c) \in Agents
PROOF BY JobsAreKnown DEF Key, Jobs

LEMMA InitCas == Init => CasInv
PROOF BY KeysAreAgents DEF Init, CasInv, TypeOK, Current

(* Writes and deletes keep what the readers rely on. *)
LEMMA EffectKeeps ==
    ASSUME CasInv, NEW c \in Clients, Effect(c), UNCHANGED saw
    PROVE  /\ hash' \in [Agents -> Hash \cup {NoHash}]
           /\ deleted' \in [Clients -> BOOLEAN]
           /\ \A d \in Clients : pc[d] = "read" /\ ~deleted'[d] => Current(hash'[Key(d)], saw'[d])
PROOF
<1>0. /\ TypeOK /\ Key(c) \in Agents /\ hash[Key(c)] \in Hash \cup {NoHash}
  BY KeysAreAgents DEF CasInv, TypeOK
<1>1. CASE Store(c)
  <2>. DEFINE w == Written(hash[Key(c)], Data(saw[c]) \cup {c})
  <2>1. hash' = [hash EXCEPT ![Key(c)] = w] /\ deleted' = deleted
    BY <1>1 DEF Store
  <2>2. Data(saw[c]) \cup {c} \in Record
    BY <1>0, VersionsAreNat DEF TypeOK, Record
  <2>3. w \in Hash /\ Version(w) = Version(hash[Key(c)]) + 1
    BY <1>0, <2>2, WrittenIsHash
  <2>. HIDE DEF w
  <2>4. ASSUME NEW d \in Clients, pc[d] = "read", ~deleted'[d]
        PROVE  Current(hash'[Key(d)], saw'[d])
    <3>1. Current(hash[Key(d)], saw[d]) /\ Key(d) \in Agents
      BY <2>1, <2>4, KeysAreAgents DEF CasInv
    <3>2. CASE Key(d) = Key(c)
      <4>1. hash'[Key(d)] = w
        BY <1>0, <2>1, <3>2 DEF TypeOK
      <4>2. Version(saw[d]) <= Version(hash[Key(c)])
        BY <3>1, <3>2 DEF Current
      <4>3. Version(saw[d]) \in Nat /\ Version(hash[Key(c)]) \in Nat
        BY <1>0, VersionsAreNat DEF TypeOK
      <4>. QED  BY <2>3, <4>1, <4>2, <4>3 DEF Current
    <3>3. CASE Key(d) # Key(c)
      BY <1>0, <2>1, <3>1, <3>3 DEF TypeOK
    <3>. QED  BY <3>2, <3>3
  <2>. QED  BY <1>0, <2>1, <2>3, <2>4 DEF TypeOK
<1>2. CASE Remove(c)
  BY <1>0, <1>2, KeysAreAgents DEF Remove, TypeOK, CasInv
<1>. QED  BY <1>1, <1>2 DEF Effect

LEMMA StepCas == CasInv /\ [Next]_vars => CasInv'
PROOF
<1>. SUFFICES ASSUME CasInv, [Next]_vars PROVE CasInv'
  OBVIOUS
<1>1. ASSUME NEW c \in Clients, GetVersioned(c)
      PROVE  CasInv'
  <2>1. hash[Key(c)] \in Hash \cup {NoHash} /\ Version(hash[Key(c)]) \in Nat
    BY KeysAreAgents, VersionsAreNat DEF CasInv, TypeOK
  <2>. QED  BY <1>1, <2>1 DEF GetVersioned, CasInv, TypeOK, Current
<1>2. ASSUME NEW c \in Clients, Write(c) \/ Fail(c)
      PROVE  CasInv'
  <2>1. /\ UNCHANGED saw
        /\ \E p \in {"done", "failed"} : pc' = [pc EXCEPT ![c] = p]
        /\ Effect(c) \/ UNCHANGED <<hash, deleted>>
    BY <1>2 DEF Write, Fail
  <2>2. CASE Effect(c)
    BY <2>1, <2>2, EffectKeeps DEF CasInv, TypeOK
  <2>3. CASE UNCHANGED <<hash, deleted>>
    BY <2>1, <2>3 DEF CasInv, TypeOK
  <2>. QED  BY <2>1, <2>2, <2>3
<1>3. ASSUME NEW c \in Clients, Conflict(c) \/ NothingToDelete(c)
      PROVE  CasInv'
  BY <1>3 DEF Conflict, NothingToDelete, CasInv, TypeOK
<1>4. CASE UNCHANGED vars
  BY <1>4 DEF vars, CasInv, TypeOK
<1>. QED  BY <1>1, <1>2, <1>3, <1>4 DEF Next, Step, Rest

LEMMA CasHolds == Spec => []CasInv
PROOF BY InitCas, StepCas, PTL DEF Spec

LEMMA MatchIsCurrent ==
    ASSUME CasInv, NEW c \in Clients, pc[c] = "read", ~deleted[c], Matches(c)
    PROVE  hash[Key(c)] = saw[c]
PROOF BY DEF CasInv, Current, Matches

(* put_if_version and delete_if_version (redis_store.py:187-257) take effect
   on the record their caller read, unless the key was deleted in between:
   whatever the other callers do, and whichever connections fail. *)
THEOREM VersionCheckIsSound == Spec => ConditionalWriteSeesItsRead
PROOF
<1>. DEFINE Sees(c) ==
       (/\ Op(c) \in {"put_if_version", "delete_if_version"}
        /\ pc[c] = "read" /\ pc'[c] = "done"
        /\ hash'[Key(c)] # hash[Key(c)])
       => deleted[c] \/ hash[Key(c)] = saw[c]
<1>1. CasInv /\ [Next]_vars => [\A c \in Clients : Sees(c)]_vars
  <2>. SUFFICES ASSUME CasInv, Next, NEW c \in Clients,
                       Op(c) \in {"put_if_version", "delete_if_version"},
                       pc[c] = "read", pc'[c] = "done", hash'[Key(c)] # hash[Key(c)],
                       ~deleted[c]
                PROVE  hash[Key(c)] = saw[c]
    OBVIOUS
  <2>1. ASSUME NEW d \in Clients, Step(d) \/ Fail(d), d # c
        PROVE  FALSE
    BY <2>1 DEF Step, Fail, GetVersioned, Write, Conflict, NothingToDelete, CasInv, TypeOK
  <2>2. Step(c) \/ Fail(c)
    BY <2>1 DEF Next, Rest, vars
  <2>3. Write(c)
    BY <2>2 DEF Step, Fail, GetVersioned, Conflict, NothingToDelete, CasInv, TypeOK
  <2>4. Matches(c)
    BY <2>3 DEF Write, Effect
  <2>. QED  BY <2>4, MatchIsCurrent
<1>. QED  BY <1>1, CasHolds, PTL DEF Spec, ConditionalWriteSeesItsRead

-----------------------------------------------------------------------------
(* Nobody deletes a guarded agent. *)
Undeleted == \A c \in Clients : Key(c) \in Guarded => ~deleted[c]

LEMMA GuardedStaysUndeleted == Spec => []Undeleted
PROOF
<1>1. Init => Undeleted
  BY DEF Init, Undeleted
<1>2. Undeleted /\ [Next]_vars => Undeleted'
  <2>. SUFFICES ASSUME Undeleted, [Next]_vars PROVE Undeleted'
    OBVIOUS
  <2>1. ASSUME NEW c \in Clients, Effect(c), UNCHANGED saw
        PROVE  Undeleted'
    <3>1. CASE Store(c)
      BY <3>1 DEF Store, Undeleted, Guarded, Key, Op
    <3>2. CASE Remove(c) /\ Op(c) # "put_if_version"
      <4>1. Key(c) \notin Guarded
        BY <3>2 DEF Guarded
      <4>. QED  BY <3>2, <4>1 DEF Remove, Undeleted, Guarded, Key, Op
    <3>. QED  BY <2>1, <3>1, <3>2 DEF Effect
  <2>2. ASSUME NEW c \in Clients, Write(c) \/ Fail(c)
        PROVE  Undeleted'
    <3>1. CASE Effect(c)
      BY <2>1, <2>2, <3>1 DEF Write, Fail
    <3>2. CASE UNCHANGED deleted
      BY <3>2 DEF Undeleted, Guarded, Key, Op
    <3>. QED  BY <2>2, <3>1, <3>2 DEF Write, Fail
  <2>3. ASSUME NEW c \in Clients, GetVersioned(c)
        PROVE  Undeleted'
    BY <2>3 DEF GetVersioned, Undeleted, Guarded, Key, Op
  <2>4. CASE UNCHANGED deleted
    BY <2>4 DEF Undeleted, Guarded, Key, Op
  <2>. QED
    BY <2>2, <2>3, <2>4 DEF Next, Step, Conflict, NothingToDelete, Rest, vars
<1>. QED  BY <1>1, <1>2, PTL DEF Spec

(* A put to an agent leaves the other agents alone, and what matched is the
   record that is stored now. *)
LEMMA GuardedEffectAdds ==
    ASSUME CasInv, Undeleted, NEW c \in Clients, Ready(c), Effect(c)
    PROVE  Atomic!Next \/ UNCHANGED records
PROOF
<1>. DEFINE a == Key(c)
            r == Data(hash[a])
<1>1. TypeOK /\ a \in Agents /\ Guarded \subseteq Agents /\ hash[a] \in Hash \cup {NoHash}
  BY KeysAreAgents DEF CasInv, TypeOK, Guarded
<1>2. CASE a \notin Guarded
  <2>1. \E h : hash' = [hash EXCEPT ![a] = h]
    BY DEF Effect, Store, Remove
  <2>2. \A k \in Guarded : hash'[k] = hash[k]
    BY <1>1, <1>2, <2>1 DEF TypeOK
  <2>3. Guarded' = Guarded
    BY DEF Guarded, Key, Op
  <2>. QED  BY <2>2, <2>3 DEF records, Data
<1>3. CASE a \in Guarded
  <2>1. Op(c) = "put_if_version" /\ ~deleted[c]
    BY <1>3 DEF Guarded, Undeleted
  <2>2. pc[c] = "read" /\ Matches(c) /\ Store(c)
    BY <2>1 DEF Effect, Ready
  <2>3. saw[c] = hash[a]
    BY <2>1, <2>2, MatchIsCurrent
  <2>4. r \cup {c} \in Record
    BY <1>1, VersionsAreNat DEF Record
  <2>5. hash' = [hash EXCEPT ![a] = Written(hash[a], r \cup {c})]
    BY <2>2, <2>3 DEF Store
  <2>6. Data(Written(hash[a], r \cup {c})) = r \cup {c}
    BY <1>1, <2>4, WrittenIsHash
  <2>. HIDE DEF a, r
  <2>7. \A k \in Guarded : hash'[k] = IF k = a THEN Written(hash[a], r \cup {c}) ELSE hash[k]
    BY <1>1, <2>5 DEF TypeOK
  <2>8. \A k \in Guarded : Data(hash'[k]) = IF k = a THEN r \cup {c} ELSE Data(hash[k])
    BY <2>6, <2>7
  <2>9. records[a] = r /\ Guarded' = Guarded
    BY <1>3 DEF records, r, Guarded, Key, Op
  <2>10. records' = [records EXCEPT ![a] = r \cup {c}]
    BY <2>8, <2>9 DEF records
  <2>11. Adds(c, a, records[a], 0) /\ records' = [records EXCEPT ![a] = Added(c, a, records[a], 0)]
    BY <2>9, <2>10 DEF Adds, Added, a
  <2>. QED  BY <1>3, <2>11 DEF Atomic!Next, Atomic!Perform
<1>. QED  BY <1>2, <1>3

(* A read-modify-write loop over put_if_version (redis_store.py:187-221)
   changes the record of an agent nobody updates otherwise as if each of its
   rounds that succeeds were one step. *)
THEOREM ConditionalUpdatesAreAtomic == Spec => UpdatesAreAtomic
PROOF
<1>1. Init => Atomic!Init
  BY DEF Init, Atomic!Init, records, Data, Guarded
<1>2. CasInv /\ Undeleted /\ [Next]_vars => [Atomic!Next]_records
  <2>. SUFFICES ASSUME CasInv, Undeleted, [Next]_vars
                PROVE  Atomic!Next \/ UNCHANGED records
    OBVIOUS
  <2>1. ASSUME NEW c \in Clients, Write(c) \/ Fail(c), ~UNCHANGED hash
        PROVE  Atomic!Next \/ UNCHANGED records
    BY <2>1, GuardedEffectAdds DEF Write, Fail
  <2>2. ASSUME NEW c \in Clients, GetVersioned(c) \/ Conflict(c) \/ NothingToDelete(c)
        PROVE  UNCHANGED hash
    BY <2>2 DEF GetVersioned, Conflict, NothingToDelete
  <2>3. CASE UNCHANGED hash
    BY <2>3 DEF records, Guarded, Key, Op
  <2>. QED  BY <2>1, <2>2, <2>3 DEF Next, Step, Rest, vars
<1>. QED
  BY <1>1, <1>2, CasHolds, GuardedStaysUndeleted, PTL DEF Spec, UpdatesAreAtomic, Atomic!Spec
=============================================================================
