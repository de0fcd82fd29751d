---------------------------- MODULE ServiceProofs ----------------------------
(***************************************************************************)
(* The services around accounts and permissions, for any number of         *)
(* requests in progress and any number of keys, codes, people, pictures,   *)
(* tokens and statuses. Most of them check in one statement and write in   *)
(* another, so that their invariants say what a request that has checked   *)
(* and not yet written still knows.                                        *)
(***************************************************************************)
EXTENDS MCUserServices, FiniteSetTheorems, WellFoundedInduction, TLAPS

-----------------------------------------------------------------------------
(* Steps and counts *)

\* A step of the whole is a step of each service or leaves it alone.
LEMMA ServiceStep ==
  ASSUME [Next]_<<part, userVars, boardVars, accountVars>>
  PROVE  /\ ApiKeys!Next \/ UNCHANGED keyVars
         /\ Passwords!Next \/ UNCHANGED pwVars
         /\ Administration!Next \/ UNCHANGED adminVars
         /\ ProfilePictures!Next \/ UNCHANGED picVars
         /\ RequestLimits!Next \/ UNCHANGED reqVars
         /\ BoardAccess!Next \/ UNCHANGED accessVars
         /\ EmbedTokens!Next \/ UNCHANGED embedVars
         /\ ProjectStatuses!Next \/ UNCHANGED statusVars
         /\ Accounts!Next \/ UNCHANGED accountVars
  BY DEF Next, userVars, boardVars

\* 1 or 0: what one element adds to a count.
Bit(p) == IF p THEN 1 ELSE 0

\* A finite set that gains or loses x alone.
LEMMA CountMove ==
  ASSUME NEW S, NEW T, NEW x, IsFiniteSet(S), IsFiniteSet(T), S \ {x} = T \ {x}
  PROVE  /\ Cardinality(S) \in Nat /\ Cardinality(T) \in Nat
         /\ Cardinality(T) = Cardinality(S) + Bit(x \in T) - Bit(x \in S)
  <1>1. Cardinality(S) \in Nat /\ Cardinality(T) \in Nat
    BY FS_CardinalityType
  <1>2. Cardinality(S \ {x}) = IF x \in S THEN Cardinality(S) - 1 ELSE Cardinality(S)
    BY FS_RemoveElement
  <1>3. Cardinality(T \ {x}) = IF x \in T THEN Cardinality(T) - 1 ELSE Cardinality(T)
    BY FS_RemoveElement
  <1>4. Cardinality(S \ {x}) = Cardinality(T \ {x})
    BY Zenon
  <1> QED
    BY <1>1, <1>2, <1>3, <1>4 DEF Bit

\* Sets of requests are finite, and no larger than the set of all.
LEMMA CountRequests ==
  ASSUME NEW S \in SUBSET Handlers
  PROVE  /\ IsFiniteSet(S) /\ Cardinality(S) \in Nat
         /\ Cardinality(Handlers) \in Nat /\ Cardinality(S) <= Cardinality(Handlers)
  BY ServicesAssumption, FS_Subset, FS_CardinalityType

\* The instances count as this module does.
LEMMA SameCardinality ==
  ASSUME NEW S
  PROVE  /\ ApiKeys!Cardinality(S) = Cardinality(S)
         /\ Passwords!Cardinality(S) = Cardinality(S)
         /\ EmbedTokens!Cardinality(S) = Cardinality(S)
         /\ Accounts!Cardinality(S) = Cardinality(S)
  <1>1. ApiKeys!Cardinality(S) = Cardinality(S)
    BY DEF ApiKeys!Cardinality, Cardinality, ApiKeys!IsFiniteSet, IsFiniteSet
  <1>2. Passwords!Cardinality(S) = Cardinality(S)
    BY DEF Passwords!Cardinality, Cardinality, Passwords!IsFiniteSet, IsFiniteSet
  <1>3. EmbedTokens!Cardinality(S) = Cardinality(S)
    BY DEF EmbedTokens!Cardinality, Cardinality, EmbedTokens!IsFiniteSet, IsFiniteSet
  <1>4. Accounts!Cardinality(S) = Cardinality(S)
    BY DEF Accounts!Cardinality, Cardinality, Accounts!IsFiniteSet, IsFiniteSet
  <1> QED
    BY <1>1, <1>2, <1>3, <1>4

-----------------------------------------------------------------------------
(* API keys *)

\* Requests past the count of post_apikey, each about to add a key.
Inserting == {h \in Handlers : keyPc[h] = "insert"}

\* A key that no rotation in progress may still take back.
Settled(k) == keys[k] = "enabled" /\ \A h \in ApiKeys!Rotating : keyReq[h].new # k

KeyTypes ==
  /\ keysMade \in 0..MaxKeys
  /\ keys \in [ApiKeys!Keys -> {"none", "enabled", "disabled", "expired", "deleted"}]
  /\ keyPc \in [Handlers -> {"idle", "insert", "rotate", "disable", "rollback"}]
  /\ keyReq \in [Handlers -> [old : Nat, new : Nat]]
  /\ extra \in Nat /\ keyFaults \in Nat /\ removed \in BOOLEAN

\* Keys are numbered as they are inserted: a rotation's new key is its own, and
\* younger than the key it replaces.
KeyOrder ==
  /\ \A k \in ApiKeys!Keys : keys[k] = "none" <=> k > keysMade
  /\ \A h \in Handlers : keyPc[h] \in {"rotate", "disable", "rollback"} => keyReq[h].old \in 1..keysMade
  /\ \A h \in ApiKeys!Rotating : keyReq[h].new \in 1..keysMade /\ keyReq[h].old < keyReq[h].new
  /\ \A h, i \in ApiKeys!Rotating : keyReq[h].new = keyReq[i].new => h = i

\* KeysBounded, with the keys that requests past the count are about to add.
KeyCount ==
  Cardinality(ApiKeys!Enabled) + Cardinality(Inserting) <=
    KeyLimit + Cardinality(Handlers) - 1 + Cardinality(ApiKeys!Rotating) + extra + keyFaults

\* RotationKeepsAKey: some key works that no rotation will take back, and when a
\* rotation's new key has already been replaced, by a key younger than that.
KeyKept ==
  ~removed =>
    /\ \A k \in ApiKeys!Keys : keys[k] \in {"none", "enabled", "disabled"}
    /\ keysMade > 0 => \E k \in ApiKeys!Keys : Settled(k)
    /\ \A h \in ApiKeys!Rotating :
         keys[keyReq[h].new] = "disabled" => \E k \in ApiKeys!Keys : k > keyReq[h].new /\ Settled(k)

KeyInv == KeyTypes /\ KeyOrder /\ KeyCount /\ KeyKept


\* An account starts without keys.
LEMMA KeyInit == Init => KeyInv
  <1> SUFFICES ASSUME Init PROVE KeyInv
    OBVIOUS
  <1>0. ApiKeys!Init
    BY DEF Init
  <1>1. ApiKeys!Enabled = {} /\ Inserting = {} /\ ApiKeys!Rotating = {}
    BY <1>0 DEF ApiKeys!Init, ApiKeys!Enabled, Inserting, ApiKeys!Rotating
  <1>2. KeyTypes
    <2>1. ApiKeys!NoKeyReq \in [old : Nat, new : Nat]
      BY DEF ApiKeys!NoKeyReq
    <2>2. keyReq \in [Handlers -> [old : Nat, new : Nat]]
      BY <1>0, <2>1 DEF ApiKeys!Init
    <2>3. keys \in [ApiKeys!Keys -> {"none", "enabled", "disabled", "expired", "deleted"}]
      BY <1>0 DEF ApiKeys!Init, ApiKeys!Keys
    <2>4. keyPc \in [Handlers -> {"idle", "insert", "rotate", "disable", "rollback"}]
      BY <1>0 DEF ApiKeys!Init
    <2>5. keysMade \in 0..MaxKeys /\ extra \in Nat /\ keyFaults \in Nat
      BY <1>0, ServicesAssumption DEF ApiKeys!Init
    <2>6. removed \in BOOLEAN
      BY <1>0 DEF ApiKeys!Init
    <2> QED
      BY <2>2, <2>3, <2>4, <2>5, <2>6 DEF KeyTypes
  <1>3. KeyOrder
    BY <1>0, <1>1 DEF ApiKeys!Init, KeyOrder, ApiKeys!Keys
  <1>4. KeyCount
    <2>1. Cardinality({}) = 0 /\ Cardinality(Handlers) \in Nat
      BY FS_EmptySet, CountRequests
    <2> QED
      BY <1>0, <1>1, <2>1, ServicesAssumption DEF KeyCount, ApiKeys!Init
  <1>5. KeyKept
    BY <1>0, <1>1 DEF KeyKept, ApiKeys!Init
  <1> QED
    BY <1>2, <1>3, <1>4, <1>5 DEF KeyInv

\* Every step of the keys stays in the types.
LEMMA KeyTypesStep ==
  ASSUME KeyInv, ApiKeys!Next
  PROVE  KeyTypes'
  <1> USE DEF ApiKeys!Keys, ApiKeys!Done, ApiKeys!Fault, ApiKeys!insert_api_key_into_db,
          ApiKeys!disable_apikey_in_db, ApiKeys!delete_apikey_from_db
  <1>0. /\ ApiKeys!NoKeyReq \in [old : Nat, new : Nat]
        /\ keysMade \in 0..MaxKeys /\ extra \in Nat /\ keyFaults \in Nat /\ removed \in BOOLEAN
        /\ keys \in [ApiKeys!Keys -> {"none", "enabled", "disabled", "expired", "deleted"}]
        /\ keyPc \in [Handlers -> {"idle", "insert", "rotate", "disable", "rollback"}]
        /\ keyReq \in [Handlers -> [old : Nat, new : Nat]]
    BY DEF ApiKeys!NoKeyReq, KeyInv, KeyTypes
  <1>1. ASSUME NEW h \in Handlers, ApiKeys!PostApiKey(h) PROVE KeyTypes'
    <2>1. keys' \in [ApiKeys!Keys -> {"none", "enabled", "disabled", "expired", "deleted"}]
      BY <1>0, <1>1 DEF ApiKeys!PostApiKey
    <2>2. keyPc' \in [Handlers -> {"idle", "insert", "rotate", "disable", "rollback"}]
      BY <1>0, <1>1 DEF ApiKeys!PostApiKey
    <2>3. keyReq' \in [Handlers -> [old : Nat, new : Nat]]
      BY <1>0, <1>1 DEF ApiKeys!PostApiKey
    <2>4. keysMade' \in 0..MaxKeys /\ extra' \in Nat /\ keyFaults' \in Nat
      BY <1>0, <1>1, ServicesAssumption DEF ApiKeys!PostApiKey
    <2>5. removed' \in BOOLEAN
      BY <1>0, <1>1 DEF ApiKeys!PostApiKey
    <2> QED
      BY <2>1, <2>2, <2>3, <2>4, <2>5 DEF KeyTypes
  <1>2. ASSUME NEW h \in Handlers, ApiKeys!InsertKey(h) PROVE KeyTypes'
    <2>1. keys' \in [ApiKeys!Keys -> {"none", "enabled", "disabled", "expired", "deleted"}]
      BY <1>0, <1>2 DEF ApiKeys!InsertKey
    <2>2. keyPc' \in [Handlers -> {"idle", "insert", "rotate", "disable", "rollback"}]
      BY <1>0, <1>2 DEF ApiKeys!InsertKey
    <2>3. keyReq' \in [Handlers -> [old : Nat, new : Nat]]
      BY <1>0, <1>2 DEF ApiKeys!InsertKey
    <2>4. keysMade' \in 0..MaxKeys /\ extra' \in Nat /\ keyFaults' \in Nat
      BY <1>0, <1>2, ServicesAssumption DEF ApiKeys!InsertKey
    <2>5. removed' \in BOOLEAN
      BY <1>0, <1>2 DEF ApiKeys!InsertKey
    <2> QED
      BY <2>1, <2>2, <2>3, <2>4, <2>5 DEF KeyTypes
  <1>3. ASSUME NEW h \in Handlers, ApiKeys!InsertRotated(h) PROVE KeyTypes'
    <2>1. keys' \in [ApiKeys!Keys -> {"none", "enabled", "disabled", "expired", "deleted"}]
      BY <1>0, <1>3 DEF ApiKeys!InsertRotated
    <2>2. keyPc' \in [Handlers -> {"idle", "insert", "rotate", "disable", "rollback"}]
      BY <1>0, <1>3 DEF ApiKeys!InsertRotated
    <2>3. keyReq' \in [Handlers -> [old : Nat, new : Nat]]
      <3>1. keyReq' = [keyReq EXCEPT ![h].new = keysMade + 1]
        BY <1>3 DEF ApiKeys!InsertRotated
      <3>2. keysMade + 1 \in Nat
        BY <1>0, ServicesAssumption
      <3> QED
        BY <1>0, <3>1, <3>2
    <2>4. keysMade' \in 0..MaxKeys /\ extra' \in Nat /\ keyFaults' \in Nat
      <3>1. keysMade < MaxKeys /\ keysMade' = keysMade + 1 /\ UNCHANGED <<extra, keyFaults>>
        BY <1>3 DEF ApiKeys!InsertRotated
      <3> QED
        BY <1>0, <3>1, ServicesAssumption
    <2>5. removed' \in BOOLEAN
      BY <1>0, <1>3 DEF ApiKeys!InsertRotated
    <2> QED
      BY <2>1, <2>2, <2>3, <2>4, <2>5 DEF KeyTypes
  <1>4. ASSUME NEW h \in Handlers, ApiKeys!DisableOld(h) PROVE KeyTypes'
    <2>1. keys' \in [ApiKeys!Keys -> {"none", "enabled", "disabled", "expired", "deleted"}]
      BY <1>0, <1>4 DEF ApiKeys!DisableOld
    <2>2. keyPc' \in [Handlers -> {"idle", "insert", "rotate", "disable", "rollback"}]
      BY <1>0, <1>4 DEF ApiKeys!DisableOld
    <2>3. keyReq' \in [Handlers -> [old : Nat, new : Nat]]
      BY <1>0, <1>4 DEF ApiKeys!DisableOld
    <2>4. keysMade' \in 0..MaxKeys /\ extra' \in Nat /\ keyFaults' \in Nat
      BY <1>0, <1>4, ServicesAssumption DEF ApiKeys!DisableOld
    <2>5. removed' \in BOOLEAN
      BY <1>0, <1>4 DEF ApiKeys!DisableOld
    <2> QED
      BY <2>1, <2>2, <2>3, <2>4, <2>5 DEF KeyTypes
  <1>5. ASSUME NEW h \in Handlers, ApiKeys!RollBack(h) PROVE KeyTypes'
    <2>1. keys' \in [ApiKeys!Keys -> {"none", "enabled", "disabled", "expired", "deleted"}]
      BY <1>0, <1>5 DEF ApiKeys!RollBack
    <2>2. keyPc' \in [Handlers -> {"idle", "insert", "rotate", "disable", "rollback"}]
      BY <1>0, <1>5 DEF ApiKeys!RollBack
    <2>3. keyReq' \in [Handlers -> [old : Nat, new : Nat]]
      BY <1>0, <1>5 DEF ApiKeys!RollBack
    <2>4. keysMade' \in 0..MaxKeys /\ extra' \in Nat /\ keyFaults' \in Nat
      BY <1>0, <1>5, ServicesAssumption DEF ApiKeys!RollBack
    <2>5. removed' \in BOOLEAN
      BY <1>0, <1>5 DEF ApiKeys!RollBack
    <2> QED
      BY <2>1, <2>2, <2>3, <2>4, <2>5 DEF KeyTypes
  <1>6. ASSUME NEW h \in Handlers, NEW k \in ApiKeys!Keys, ApiKeys!RotateApiKey(h, k) PROVE KeyTypes'
    <2>1. keys' \in [ApiKeys!Keys -> {"none", "enabled", "disabled", "expired", "deleted"}]
      BY <1>0, <1>6 DEF ApiKeys!RotateApiKey
    <2>2. keyPc' \in [Handlers -> {"idle", "insert", "rotate", "disable", "rollback"}]
      BY <1>0, <1>6 DEF ApiKeys!RotateApiKey
    <2>3. keyReq' \in [Handlers -> [old : Nat, new : Nat]]
      <3>1. keyReq' = [keyReq EXCEPT ![h].old = k]
        BY <1>6 DEF ApiKeys!RotateApiKey
      <3>2. k \in Nat
        BY ServicesAssumption
      <3> QED
        BY <1>0, <3>1, <3>2
    <2>4. keysMade' \in 0..MaxKeys /\ extra' \in Nat /\ keyFaults' \in Nat
      BY <1>0, <1>6, ServicesAssumption DEF ApiKeys!RotateApiKey
    <2>5. removed' \in BOOLEAN
      BY <1>0, <1>6 DEF ApiKeys!RotateApiKey
    <2> QED
      BY <2>1, <2>2, <2>3, <2>4, <2>5 DEF KeyTypes
  <1>7. ASSUME NEW k \in ApiKeys!Keys, ApiKeys!DeleteApiKey(k) \/ ApiKeys!KeyExpires(k)
        PROVE  KeyTypes'
    <2>1. keys' \in [ApiKeys!Keys -> {"none", "enabled", "disabled", "expired", "deleted"}]
      BY <1>0, <1>7 DEF ApiKeys!DeleteApiKey, ApiKeys!KeyExpires
    <2>2. keyPc' \in [Handlers -> {"idle", "insert", "rotate", "disable", "rollback"}]
      BY <1>0, <1>7 DEF ApiKeys!DeleteApiKey, ApiKeys!KeyExpires
    <2>3. keyReq' \in [Handlers -> [old : Nat, new : Nat]]
      BY <1>0, <1>7 DEF ApiKeys!DeleteApiKey, ApiKeys!KeyExpires
    <2>4. keysMade' \in 0..MaxKeys /\ extra' \in Nat /\ keyFaults' \in Nat
      BY <1>0, <1>7, ServicesAssumption DEF ApiKeys!DeleteApiKey, ApiKeys!KeyExpires
    <2>5. removed' \in BOOLEAN
      BY <1>0, <1>7 DEF ApiKeys!DeleteApiKey, ApiKeys!KeyExpires
    <2> QED
      BY <2>1, <2>2, <2>3, <2>4, <2>5 DEF KeyTypes
  <1> QED
    BY <1>1, <1>2, <1>3, <1>4, <1>5, <1>6, <1>7 DEF ApiKeys!Next

\* A key is numbered when it is inserted, and a rotation keeps what it made.
LEMMA KeyOrderStep ==
  ASSUME KeyInv, ApiKeys!Next, KeyTypes'
  PROVE  KeyOrder'
  <1> USE DEF KeyInv, KeyTypes, KeyOrder, ApiKeys!Rotating, ApiKeys!Keys, ApiKeys!Done,
              ApiKeys!NoKeyReq, ApiKeys!insert_api_key_into_db, ApiKeys!disable_apikey_in_db,
              ApiKeys!delete_apikey_from_db
  <1>1. ASSUME NEW h \in Handlers, ApiKeys!PostApiKey(h) PROVE KeyOrder'
    BY <1>1 DEF ApiKeys!PostApiKey
  <1>2. ASSUME NEW h \in Handlers, ApiKeys!InsertKey(h) PROVE KeyOrder'
    BY <1>2 DEF ApiKeys!InsertKey
  <1>3. ASSUME NEW h \in Handlers, ApiKeys!InsertRotated(h) PROVE KeyOrder'
    BY <1>3 DEF ApiKeys!InsertRotated
  <1>4. ASSUME NEW h \in Handlers, ApiKeys!DisableOld(h) PROVE KeyOrder'
    <2>1. /\ keyPc[h] = "disable" /\ keyPc'[h] \in {"idle", "rollback"}
          /\ keyPc'[h] = "rollback" => keyReq'[h] = keyReq[h]
          /\ \A i \in Handlers \ {h} : keyPc'[i] = keyPc[i] /\ keyReq'[i] = keyReq[i]
      BY <1>4 DEF ApiKeys!DisableOld
    <2>2. /\ keysMade' = keysMade
          /\ \A k \in ApiKeys!Keys : keys'[k] = "none" <=> keys[k] = "none"
      BY <1>4 DEF ApiKeys!DisableOld
    <2>3. \A i \in Handlers :
            keyPc'[i] # "idle" => /\ keyReq'[i] = keyReq[i]
                                  /\ i \in ApiKeys!Rotating' <=> i \in ApiKeys!Rotating
                                  /\ keyPc'[i] = "rotate" <=> keyPc[i] = "rotate"
      BY <2>1
    <2>4. \A k \in ApiKeys!Keys : keys'[k] = "none" <=> k > keysMade'
      BY <2>2
    <2>5. \A i \in Handlers :
            keyPc'[i] \in {"rotate", "disable", "rollback"} => keyReq'[i].old \in 1..keysMade'
      BY <2>2, <2>3
    <2>6. \A i \in ApiKeys!Rotating' :
            keyReq'[i].new \in 1..keysMade' /\ keyReq'[i].old < keyReq'[i].new
      BY <2>2, <2>3
    <2>7. \A i, j \in ApiKeys!Rotating' : keyReq'[i].new = keyReq'[j].new => i = j
      BY <2>3
    <2> QED
      BY <2>4, <2>5, <2>6, <2>7
  <1>5. ASSUME NEW h \in Handlers, ApiKeys!RollBack(h) PROVE KeyOrder'
    BY <1>5 DEF ApiKeys!RollBack
  <1>6. ASSUME NEW h \in Handlers, NEW k \in ApiKeys!Keys, ApiKeys!RotateApiKey(h, k) PROVE KeyOrder'
    BY <1>6 DEF ApiKeys!RotateApiKey, ApiKeys!fetch_existing_apikey
  <1>7. ASSUME NEW k \in ApiKeys!Keys, ApiKeys!DeleteApiKey(k) \/ ApiKeys!KeyExpires(k)
        PROVE  KeyOrder'
    BY <1>7 DEF ApiKeys!DeleteApiKey, ApiKeys!KeyExpires
  <1> QED
    BY <1>1, <1>2, <1>3, <1>4, <1>5, <1>6, <1>7 DEF ApiKeys!Next

\* The keys that work, counted before and after a step that touches key k alone.
LEMMA EnabledMove ==
  ASSUME KeyTypes, NEW k \in ApiKeys!Keys, \A j \in ApiKeys!Keys \ {k} : keys'[j] = keys[j]
  PROVE  /\ Cardinality(ApiKeys!Enabled) \in Nat /\ Cardinality(ApiKeys!Enabled)' \in Nat
         /\ Cardinality(ApiKeys!Enabled)' =
              Cardinality(ApiKeys!Enabled) + Bit(keys'[k] = "enabled") - Bit(keys[k] = "enabled")
  <1> DEFINE S == {j \in ApiKeys!Keys : keys[j] = "enabled"}
             T == {j \in ApiKeys!Keys : keys'[j] = "enabled"}
  <1>1. IsFiniteSet(ApiKeys!Keys) /\ S \in SUBSET ApiKeys!Keys /\ T \in SUBSET ApiKeys!Keys
    BY ServicesAssumption, FS_Interval DEF ApiKeys!Keys
  <1>2. IsFiniteSet(S) /\ IsFiniteSet(T)
    BY <1>1, FS_Subset
  <1>3. S \ {k} = T \ {k}
    OBVIOUS
  <1>4. /\ Cardinality(S) \in Nat /\ Cardinality(T) \in Nat
        /\ Cardinality(T) = Cardinality(S) + Bit(k \in T) - Bit(k \in S)
    BY <1>2, <1>3, CountMove
  <1>5. ApiKeys!Enabled = S /\ ApiKeys!Enabled' = T
    BY DEF ApiKeys!Enabled, ApiKeys!Keys
  <1> QED
    BY <1>4, <1>5 DEF Bit

\* The requests about to insert and the rotations, when request h alone moves.
LEMMA KeyRequestsMove ==
  ASSUME NEW h \in Handlers, \A i \in Handlers \ {h} : keyPc'[i] = keyPc[i]
  PROVE  /\ Cardinality(Inserting) \in Nat /\ Cardinality(Inserting)' \in Nat
         /\ Cardinality(ApiKeys!Rotating) \in Nat /\ Cardinality(ApiKeys!Rotating)' \in Nat
         /\ Cardinality(Inserting)' =
              Cardinality(Inserting) + Bit(keyPc'[h] = "insert") - Bit(keyPc[h] = "insert")
         /\ Cardinality(ApiKeys!Rotating)' =
              Cardinality(ApiKeys!Rotating) + Bit(keyPc'[h] \in {"disable", "rollback"})
                - Bit(keyPc[h] \in {"disable", "rollback"})
  <1> DEFINE S == {i \in Handlers : keyPc[i] = "insert"}
             T == {i \in Handlers : keyPc'[i] = "insert"}
             U == {i \in Handlers : keyPc[i] \in {"disable", "rollback"}}
             V == {i \in Handlers : keyPc'[i] \in {"disable", "rollback"}}
  <1>1. IsFiniteSet(S) /\ IsFiniteSet(T) /\ IsFiniteSet(U) /\ IsFiniteSet(V)
    BY CountRequests
  <1>2. S \ {h} = T \ {h} /\ U \ {h} = V \ {h}
    OBVIOUS
  <1>3. /\ Cardinality(S) \in Nat /\ Cardinality(T) \in Nat
        /\ Cardinality(T) = Cardinality(S) + Bit(h \in T) - Bit(h \in S)
    BY <1>1, <1>2, CountMove
  <1>4. /\ Cardinality(U) \in Nat /\ Cardinality(V) \in Nat
        /\ Cardinality(V) = Cardinality(U) + Bit(h \in V) - Bit(h \in U)
    BY <1>1, <1>2, CountMove
  <1>5. Inserting = S /\ Inserting' = T /\ ApiKeys!Rotating = U /\ ApiKeys!Rotating' = V
    BY DEF Inserting, ApiKeys!Rotating
  <1> QED
    BY <1>3, <1>4, <1>5 DEF Bit

\* The arithmetic of the next lemma.
LEMMA KeyBalance ==
  ASSUME NEW e \in Nat, NEW e1 \in Nat, NEW i \in Nat, NEW i1 \in Nat, NEW r \in Nat, NEW r1 \in Nat,
         NEW x \in Nat, NEW x1 \in Nat, NEW f \in Nat, NEW f1 \in Nat, NEW l \in Nat, NEW n \in Nat,
         e + i <= l + n - 1 + r + x + f,
         e1 + i1 - e - i <= r1 - r + x1 - x + f1 - f
  PROVE  e1 + i1 <= l + n - 1 + r1 + x1 + f1
  OBVIOUS

\* A step of request h on key k keeps the count when what it adds to the keys that
\* work and to the insertions to come is paid for on the other side.
LEMMA KeyCountMove ==
  ASSUME KeyInv, KeyTypes', NEW h \in Handlers, NEW k \in ApiKeys!Keys,
         \A i \in Handlers \ {h} : keyPc'[i] = keyPc[i],
         \A j \in ApiKeys!Keys \ {k} : keys'[j] = keys[j],
         Bit(keys'[k] = "enabled") - Bit(keys[k] = "enabled")
           + Bit(keyPc'[h] = "insert") - Bit(keyPc[h] = "insert") <=
         Bit(keyPc'[h] \in {"disable", "rollback"}) - Bit(keyPc[h] \in {"disable", "rollback"})
           + extra' - extra + keyFaults' - keyFaults
  PROVE  KeyCount'
  <1>1. /\ Cardinality(ApiKeys!Enabled) \in Nat /\ Cardinality(ApiKeys!Enabled)' \in Nat
        /\ Cardinality(ApiKeys!Enabled)' =
             Cardinality(ApiKeys!Enabled) + Bit(keys'[k] = "enabled") - Bit(keys[k] = "enabled")
    BY EnabledMove DEF KeyInv
  <1>2. /\ Cardinality(Inserting) \in Nat /\ Cardinality(Inserting)' \in Nat
        /\ Cardinality(ApiKeys!Rotating) \in Nat /\ Cardinality(ApiKeys!Rotating)' \in Nat
        /\ Cardinality(Inserting)' =
             Cardinality(Inserting) + Bit(keyPc'[h] = "insert") - Bit(keyPc[h] = "insert")
        /\ Cardinality(ApiKeys!Rotating)' =
             Cardinality(ApiKeys!Rotating) + Bit(keyPc'[h] \in {"disable", "rollback"})
               - Bit(keyPc[h] \in {"disable", "rollback"})
    BY KeyRequestsMove
  <1>3. Cardinality(Handlers) \in Nat /\ KeyLimit \in Nat
    BY CountRequests, ServicesAssumption
  <1>4. extra \in Nat /\ keyFaults \in Nat /\ extra' \in Nat /\ keyFaults' \in Nat
    BY DEF KeyInv, KeyTypes
  <1>5. KeyCount
    BY DEF KeyInv
  <1>6. /\ Bit(keys'[k] = "enabled") \in Nat /\ Bit(keys[k] = "enabled") \in Nat
        /\ Bit(keyPc'[h] = "insert") \in Nat /\ Bit(keyPc[h] = "insert") \in Nat
        /\ Bit(keyPc'[h] \in {"disable", "rollback"}) \in Nat
        /\ Bit(keyPc[h] \in {"disable", "rollback"}) \in Nat
    BY DEF Bit
  <1>7. Cardinality(ApiKeys!Enabled)' + Cardinality(Inserting)'
           - Cardinality(ApiKeys!Enabled) - Cardinality(Inserting) <=
        Cardinality(ApiKeys!Rotating)' - Cardinality(ApiKeys!Rotating)
           + extra' - extra + keyFaults' - keyFaults
    BY <1>1, <1>2, <1>4, <1>6
  <1>8. Cardinality(ApiKeys!Enabled)' + Cardinality(Inserting)' <=
          KeyLimit + Cardinality(Handlers) - 1 + Cardinality(ApiKeys!Rotating)' + extra' + keyFaults'
    BY <1>1, <1>2, <1>3, <1>4, <1>5, <1>7, KeyBalance DEF KeyCount
  <1> QED
    BY <1>8 DEF KeyCount

\* Every key past the limit is counted by a request, a rotation or a fault.
LEMMA KeyCountStep ==
  ASSUME KeyInv, ApiKeys!Next, KeyTypes'
  PROVE  KeyCount'
  <1>0. /\ keysMade \in 0..MaxKeys /\ extra \in Nat /\ keyFaults \in Nat
        /\ extra' \in Nat /\ keyFaults' \in Nat
        /\ keys \in [ApiKeys!Keys -> {"none", "enabled", "disabled", "expired", "deleted"}]
        /\ keyPc \in [Handlers -> {"idle", "insert", "rotate", "disable", "rollback"}]
    BY DEF KeyInv, KeyTypes
  <1>1. ASSUME NEW h \in Handlers, ApiKeys!PostApiKey(h) PROVE KeyCount'
    <2>1. ApiKeys!Enabled' = ApiKeys!Enabled /\ Cardinality(ApiKeys!Enabled) < KeyLimit
      <3>1. Cardinality(ApiKeys!Enabled) < KeyLimit /\ UNCHANGED keys
        BY <1>1, SameCardinality DEF ApiKeys!PostApiKey
      <3> QED
        BY <3>1 DEF ApiKeys!Enabled
    <2>2. /\ Cardinality(Inserting') \in Nat /\ Cardinality(Inserting') <= Cardinality(Handlers)
          /\ Cardinality(ApiKeys!Rotating') \in Nat /\ Cardinality(Handlers) \in Nat
      BY CountRequests DEF Inserting, ApiKeys!Rotating
    <2>3. Cardinality(ApiKeys!Enabled) \in Nat
      <3>1. IsFiniteSet(ApiKeys!Keys)
        BY ServicesAssumption, FS_Interval DEF ApiKeys!Keys
      <3> QED
        BY <3>1, FS_Subset, FS_CardinalityType DEF ApiKeys!Enabled, ApiKeys!Keys
    <2> QED
      BY <1>0, <2>1, <2>2, <2>3, ServicesAssumption DEF KeyCount
  <1>2. ASSUME NEW h \in Handlers, ApiKeys!InsertKey(h) PROVE KeyCount'
    <2>1. /\ keyPc[h] = "insert" /\ keyPc'[h] = "idle"
          /\ \A i \in Handlers \ {h} : keyPc'[i] = keyPc[i]
          /\ extra' = extra /\ keyFaults' = keyFaults
      BY <1>0, <1>2 DEF ApiKeys!InsertKey, ApiKeys!Done
    <2>2. /\ keysMade + 1 \in ApiKeys!Keys /\ keys'[keysMade + 1] = "enabled"
          /\ \A j \in ApiKeys!Keys \ {keysMade + 1} : keys'[j] = keys[j]
      BY <1>0, <1>2, ServicesAssumption
      DEF ApiKeys!InsertKey, ApiKeys!insert_api_key_into_db, ApiKeys!Keys
    <2>3. keys[keysMade + 1] # "enabled"
      BY <1>0, <2>2 DEF KeyInv, KeyOrder
    <2> QED
      BY <1>0, <2>1, <2>2, <2>3, KeyCountMove DEF Bit
  <1>3. ASSUME NEW h \in Handlers, ApiKeys!InsertRotated(h) PROVE KeyCount'
    <2>1. /\ keyPc[h] = "rotate" /\ keyPc'[h] = "disable"
          /\ \A i \in Handlers \ {h} : keyPc'[i] = keyPc[i]
          /\ extra' = extra /\ keyFaults' = keyFaults
      BY <1>0, <1>3 DEF ApiKeys!InsertRotated
    <2>2. /\ keysMade + 1 \in ApiKeys!Keys /\ keys'[keysMade + 1] = "enabled"
          /\ \A j \in ApiKeys!Keys \ {keysMade + 1} : keys'[j] = keys[j]
      <3>1. keysMade < MaxKeys /\ keys' = [keys EXCEPT ![keysMade + 1] = "enabled"]
        BY <1>3 DEF ApiKeys!InsertRotated, ApiKeys!insert_api_key_into_db
      <3> QED
        BY <1>0, <3>1, ServicesAssumption DEF ApiKeys!Keys
    <2>3. keys[keysMade + 1] # "enabled"
      BY <1>0, <2>2 DEF KeyInv, KeyOrder
    <2> QED
      BY <1>0, <2>1, <2>2, <2>3, KeyCountMove DEF Bit
  <1>4. ASSUME NEW h \in Handlers, ApiKeys!DisableOld(h) PROVE KeyCount'
    <2> DEFINE k == keyReq[h].old
    <2>0. k \in ApiKeys!Keys
      BY <1>0, <1>4, ServicesAssumption DEF ApiKeys!DisableOld, KeyInv, KeyOrder, ApiKeys!Keys
    <2>1. /\ keyPc[h] = "disable" /\ keyPc'[h] \in {"idle", "rollback"}
          /\ \A i \in Handlers \ {h} : keyPc'[i] = keyPc[i]
          /\ \A j \in ApiKeys!Keys \ {k} : keys'[j] = keys[j]
      BY <1>0, <1>4 DEF ApiKeys!DisableOld, ApiKeys!Done, ApiKeys!disable_apikey_in_db
    <2>2. \/ keyPc'[h] = "idle" /\ keys[k] = "enabled" /\ keys'[k] = "disabled"
               /\ extra' = extra /\ keyFaults' = keyFaults
          \/ keyPc'[h] = "idle" /\ keys[k] # "enabled" /\ keys'[k] = "disabled"
               /\ extra' = extra + 1 /\ keyFaults' = keyFaults
          \/ keyPc'[h] = "rollback" /\ keys' = keys /\ extra' = extra /\ keyFaults' >= keyFaults
      BY <1>0, <1>4, <2>0
      DEF ApiKeys!DisableOld, ApiKeys!Done, ApiKeys!disable_apikey_in_db, ApiKeys!Fault
    <2>3. Bit(keys'[k] = "enabled") - Bit(keys[k] = "enabled")
             + Bit(keyPc'[h] = "insert") - Bit(keyPc[h] = "insert") <=
          Bit(keyPc'[h] \in {"disable", "rollback"}) - Bit(keyPc[h] \in {"disable", "rollback"})
             + extra' - extra + keyFaults' - keyFaults
      <3>1. CASE keyPc'[h] = "idle" /\ extra' = extra /\ keyFaults' = keyFaults
                 /\ keys[k] = "enabled" /\ keys'[k] = "disabled"
        BY <1>0, <2>1, <3>1 DEF Bit
      <3>2. CASE keyPc'[h] = "idle" /\ extra' = extra + 1 /\ keyFaults' = keyFaults
                 /\ keys[k] # "enabled" /\ keys'[k] = "disabled"
        BY <1>0, <2>1, <3>2 DEF Bit
      <3>3. CASE keyPc'[h] = "rollback" /\ keys' = keys /\ extra' = extra /\ keyFaults' >= keyFaults
        <4>1. /\ Bit(keys'[k] = "enabled") = Bit(keys[k] = "enabled")
              /\ Bit(keys[k] = "enabled") \in Nat
          BY <3>3 DEF Bit
        <4>2. /\ Bit(keyPc'[h] = "insert") = 0 /\ Bit(keyPc[h] = "insert") = 0
              /\ Bit(keyPc'[h] \in {"disable", "rollback"}) = 1
              /\ Bit(keyPc[h] \in {"disable", "rollback"}) = 1
          BY <2>1, <3>3 DEF Bit
        <4> QED
          BY <1>0, <3>3, <4>1, <4>2
      <3> QED
        BY <2>2, <3>1, <3>2, <3>3
    <2> QED
      BY <2>0, <2>1, <2>3, KeyCountMove
  <1>5. ASSUME NEW h \in Handlers, ApiKeys!RollBack(h) PROVE KeyCount'
    <2> DEFINE k == keyReq[h].new
    <2>0. k \in ApiKeys!Keys
      BY <1>0, <1>5, ServicesAssumption
      DEF ApiKeys!RollBack, KeyInv, KeyOrder, ApiKeys!Keys, ApiKeys!Rotating
    <2>1. /\ keyPc[h] = "rollback" /\ keyPc'[h] = "idle"
          /\ \A i \in Handlers \ {h} : keyPc'[i] = keyPc[i]
          /\ \A j \in ApiKeys!Keys \ {k} : keys'[j] = keys[j]
      BY <1>0, <1>5 DEF ApiKeys!RollBack, ApiKeys!Done, ApiKeys!disable_apikey_in_db
    <2>2. \/ keys[k] = "enabled" /\ keys'[k] = "disabled" /\ extra' = extra /\ keyFaults' = keyFaults
          \/ keys[k] # "enabled" /\ keys'[k] # "enabled" /\ extra' = extra + 1 /\ keyFaults' = keyFaults
          \/ keys' = keys /\ extra' = extra /\ keyFaults' = keyFaults + 1
      BY <1>0, <1>5, <2>0
      DEF ApiKeys!RollBack, ApiKeys!Done, ApiKeys!disable_apikey_in_db, ApiKeys!Fault
    <2>3. Bit(keys'[k] = "enabled") - Bit(keys[k] = "enabled")
             + Bit(keyPc'[h] = "insert") - Bit(keyPc[h] = "insert") <=
          Bit(keyPc'[h] \in {"disable", "rollback"}) - Bit(keyPc[h] \in {"disable", "rollback"})
             + extra' - extra + keyFaults' - keyFaults
      <3>0. /\ extra \in Nat /\ keyFaults \in Nat
            /\ Bit(keyPc'[h] = "insert") = 0 /\ Bit(keyPc[h] = "insert") = 0
            /\ Bit(keyPc'[h] \in {"disable", "rollback"}) = 0
            /\ Bit(keyPc[h] \in {"disable", "rollback"}) = 1
        BY <1>0, <2>1 DEF Bit
      <3>1. CASE /\ keys[k] = "enabled" /\ keys'[k] = "disabled"
                 /\ extra' = extra /\ keyFaults' = keyFaults
        <4>1. Bit(keys[k] = "enabled") = 1 /\ Bit(keys'[k] = "enabled") = 0
          BY <3>1 DEF Bit
        <4> QED
          BY <3>0, <3>1, <4>1
      <3>2. CASE /\ keys[k] # "enabled" /\ keys'[k] # "enabled"
                 /\ extra' = extra + 1 /\ keyFaults' = keyFaults
        <4>1. Bit(keys[k] = "enabled") = 0 /\ Bit(keys'[k] = "enabled") = 0
          BY <3>2 DEF Bit
        <4> QED
          BY <3>0, <3>2, <4>1
      <3>3. CASE keys' = keys /\ extra' = extra /\ keyFaults' = keyFaults + 1
        <4>1. Bit(keys'[k] = "enabled") = Bit(keys[k] = "enabled")
          BY <3>3
        <4>2. Bit(keys[k] = "enabled") \in Nat
          BY DEF Bit
        <4> QED
          BY <3>0, <3>3, <4>1, <4>2
      <3> QED
        BY <2>2, <3>1, <3>2, <3>3
    <2> QED
      BY <2>0, <2>1, <2>3, KeyCountMove
  <1>6. ASSUME NEW h \in Handlers, NEW k \in ApiKeys!Keys, ApiKeys!RotateApiKey(h, k) PROVE KeyCount'
    <2>1. /\ keyPc[h] = "idle" /\ keyPc'[h] = "rotate"
          /\ \A i \in Handlers \ {h} : keyPc'[i] = keyPc[i]
          /\ keys' = keys /\ extra' = extra /\ keyFaults' = keyFaults
      BY <1>0, <1>6 DEF ApiKeys!RotateApiKey
    <2> QED
      BY <1>0, <2>1, KeyCountMove DEF Bit
  <1>7. ASSUME NEW k \in ApiKeys!Keys, ApiKeys!DeleteApiKey(k) \/ ApiKeys!KeyExpires(k)
        PROVE  KeyCount'
    <2>1. /\ keys'[k] # "enabled" /\ \A j \in ApiKeys!Keys \ {k} : keys'[j] = keys[j]
          /\ UNCHANGED <<keyPc, extra, keyFaults>>
      BY <1>0, <1>7 DEF ApiKeys!DeleteApiKey, ApiKeys!KeyExpires, ApiKeys!delete_apikey_from_db
    <2>2. /\ Cardinality(ApiKeys!Enabled) \in Nat /\ Cardinality(ApiKeys!Enabled)' \in Nat
          /\ Cardinality(ApiKeys!Enabled)' =
               Cardinality(ApiKeys!Enabled) + Bit(keys'[k] = "enabled") - Bit(keys[k] = "enabled")
      BY <2>1, EnabledMove DEF KeyInv
    <2>3. Inserting' = Inserting /\ ApiKeys!Rotating' = ApiKeys!Rotating
      BY <2>1 DEF Inserting, ApiKeys!Rotating
    <2>4. /\ Cardinality(Inserting) \in Nat /\ Cardinality(ApiKeys!Rotating) \in Nat
          /\ Cardinality(Handlers) \in Nat
      BY CountRequests DEF Inserting, ApiKeys!Rotating
    <2>5. KeyCount
      BY DEF KeyInv
    <2> QED
      BY <1>0, <2>1, <2>2, <2>3, <2>4, <2>5, ServicesAssumption DEF KeyCount, Bit
  <1> QED
    BY <1>1, <1>2, <1>3, <1>4, <1>5, <1>6, <1>7 DEF ApiKeys!Next

\* Rotations end where they began, with a key that works and nobody will take back.
LEMMA KeyKeptStep ==
  ASSUME KeyInv, ApiKeys!Next, KeyTypes', KeyOrder'
  PROVE  KeyKept'
  <1>0. /\ keysMade \in 0..MaxKeys /\ ApiKeys!Keys = 1..MaxKeys /\ MaxKeys \in Nat
        /\ keys \in [ApiKeys!Keys -> {"none", "enabled", "disabled", "expired", "deleted"}]
        /\ keyPc \in [Handlers -> {"idle", "insert", "rotate", "disable", "rollback"}]
        /\ keyReq \in [Handlers -> [old : Nat, new : Nat]]
    BY ServicesAssumption DEF KeyInv, KeyTypes, ApiKeys!Keys
  <1>a. KeyOrder /\ KeyKept
    BY DEF KeyInv
  <1>1. ASSUME NEW h \in Handlers, ApiKeys!PostApiKey(h) PROVE KeyKept'
    <2>1. /\ UNCHANGED <<keys, keysMade, keyReq, removed>>
          /\ ApiKeys!Rotating' = ApiKeys!Rotating
      BY <1>0, <1>1 DEF ApiKeys!PostApiKey, ApiKeys!Rotating
    <2> QED
      BY <1>a, <2>1 DEF KeyKept, Settled
  <1>2. ASSUME NEW h \in Handlers, ApiKeys!InsertKey(h) PROVE KeyKept'
    <2>1. /\ keysMade + 1 \in ApiKeys!Keys /\ keysMade' = keysMade + 1 /\ removed' = removed
          /\ keys' = [keys EXCEPT ![keysMade + 1] = "enabled"]
      BY <1>0, <1>2 DEF ApiKeys!InsertKey, ApiKeys!insert_api_key_into_db
    <2>2. /\ ApiKeys!Rotating' = ApiKeys!Rotating
          /\ \A i \in ApiKeys!Rotating : keyReq'[i] = keyReq[i]
      BY <1>0, <1>2 DEF ApiKeys!InsertKey, ApiKeys!Done, ApiKeys!Rotating
    <2>3. \A k \in ApiKeys!Keys : Settled(k) => Settled(k)'
      BY <1>0, <2>1, <2>2 DEF Settled
    <2>4. \A i \in ApiKeys!Rotating : keyReq[i].new \in 1..keysMade
      BY <1>a DEF KeyOrder
    <2>5. \A k \in ApiKeys!Keys : k = keysMade + 1 => Settled(k)'
      BY <1>0, <2>1, <2>2, <2>4 DEF Settled
    <2>6. \A i \in ApiKeys!Rotating' :
            keys'[keyReq'[i].new] = "disabled" =>
              i \in ApiKeys!Rotating /\ keys[keyReq[i].new] = "disabled" /\ keyReq'[i] = keyReq[i]
      BY <1>0, <2>1, <2>2, <2>4
    <2>7. ASSUME ~removed' PROVE \A k \in ApiKeys!Keys : keys'[k] \in {"none", "enabled", "disabled"}
      BY <1>0, <1>a, <2>1, <2>7 DEF KeyKept
    <2>8. ApiKeys!Keys' = ApiKeys!Keys
      BY DEF ApiKeys!Keys
    <2> QED
      BY <1>a, <2>1, <2>3, <2>5, <2>6, <2>7, <2>8 DEF KeyKept
  <1>3. ASSUME NEW h \in Handlers, ApiKeys!InsertRotated(h) PROVE KeyKept'
    <2>1. /\ keysMade + 1 \in ApiKeys!Keys /\ keysMade' = keysMade + 1 /\ removed' = removed
          /\ keys' = [keys EXCEPT ![keysMade + 1] = "enabled"]
      BY <1>0, <1>3 DEF ApiKeys!InsertRotated, ApiKeys!insert_api_key_into_db
    <2>2. /\ ApiKeys!Rotating' = ApiKeys!Rotating \cup {h} /\ h \notin ApiKeys!Rotating
          /\ \A i \in ApiKeys!Rotating : keyReq'[i] = keyReq[i]
          /\ keyReq'[h].new = keysMade + 1
      BY <1>0, <1>3 DEF ApiKeys!InsertRotated, ApiKeys!Rotating
    <2>3. \A k \in ApiKeys!Keys : Settled(k) => k # keysMade + 1
      BY <1>0, <1>a, <2>1 DEF Settled, KeyOrder
    <2>4. \A k \in ApiKeys!Keys : Settled(k) => Settled(k)'
      BY <1>0, <2>1, <2>2, <2>3 DEF Settled
    <2>5. keysMade > 0
      BY <1>0, <1>3, <1>a DEF ApiKeys!InsertRotated, KeyOrder
    <2>6. \A i \in ApiKeys!Rotating : keyReq[i].new \in 1..keysMade
      BY <1>a DEF KeyOrder
    <2>7. \A i \in ApiKeys!Rotating' :
            keys'[keyReq'[i].new] = "disabled" =>
              i \in ApiKeys!Rotating /\ keys[keyReq[i].new] = "disabled" /\ keyReq'[i] = keyReq[i]
      BY <1>0, <2>1, <2>2, <2>6
    <2>8. ASSUME ~removed' PROVE \A k \in ApiKeys!Keys : keys'[k] \in {"none", "enabled", "disabled"}
      BY <1>0, <1>a, <2>1, <2>8 DEF KeyKept
    <2> QED
      BY <1>0, <1>a, <2>1, <2>4, <2>5, <2>7, <2>8 DEF KeyKept
  <1>4. ASSUME NEW h \in Handlers, ApiKeys!DisableOld(h) PROVE KeyKept'
    <2> SUFFICES ASSUME ~removed' PROVE KeyKept'
      BY DEF KeyKept
    <2> DEFINE o == keyReq[h].old
               n == keyReq[h].new
    <2>0. /\ o \in ApiKeys!Keys /\ n \in ApiKeys!Keys /\ o < n /\ h \in ApiKeys!Rotating
          /\ \A i \in ApiKeys!Rotating \ {h} : keyReq[i].new # n /\ keyReq[i].new \in ApiKeys!Keys
          /\ n <= keysMade
      BY <1>0, <1>4, <1>a DEF ApiKeys!DisableOld, KeyOrder, ApiKeys!Rotating
    <2>1. ~removed /\ keysMade' = keysMade
      BY <1>4 DEF ApiKeys!DisableOld
    <2>2. /\ \A k \in ApiKeys!Keys : keys[k] \in {"none", "enabled", "disabled"}
          /\ keysMade > 0 => \E k \in ApiKeys!Keys : Settled(k)
          /\ \A i \in ApiKeys!Rotating :
               keys[keyReq[i].new] = "disabled" => \E k \in ApiKeys!Keys : k > keyReq[i].new /\ Settled(k)
      BY <1>a, <2>1 DEF KeyKept
    <2>3. CASE UNCHANGED <<keys, keyReq>> /\ keyPc' = [keyPc EXCEPT ![h] = "rollback"]
      <3>1. ApiKeys!Rotating' = ApiKeys!Rotating
        BY <1>0, <2>0, <2>3 DEF ApiKeys!Rotating
      <3> QED
        BY <2>1, <2>2, <2>3, <3>1 DEF KeyKept, Settled
    <2>4. CASE ApiKeys!disable_apikey_in_db(o) /\ ApiKeys!Done(h)
      <3>1. /\ ApiKeys!Rotating' = ApiKeys!Rotating \ {h}
            /\ \A i \in ApiKeys!Rotating \ {h} : keyReq'[i] = keyReq[i]
            /\ keys' = [keys EXCEPT ![o] = "disabled"]
        BY <1>0, <2>4 DEF ApiKeys!Done, ApiKeys!Rotating, ApiKeys!disable_apikey_in_db
      <3>2. \A k \in ApiKeys!Keys \ {o} : Settled(k) => Settled(k)'
        BY <1>0, <3>1 DEF Settled
      <3>3. PICK k \in ApiKeys!Keys : k >= n /\ Settled(k)'
        <4>1. CASE keys[n] = "enabled"
          <5>1. \A k \in ApiKeys!Keys : k = n => Settled(k)'
            BY <1>0, <2>0, <3>1, <4>1 DEF Settled
          <5> QED
            BY <1>0, <2>0, <5>1
        <4>2. CASE keys[n] = "disabled"
          <5>1. PICK j \in ApiKeys!Keys : j > n /\ Settled(j)
            BY <2>0, <2>2, <4>2
          <5>2. Settled(j)'
            BY <1>0, <2>0, <3>2, <5>1
          <5> QED
            BY <1>0, <2>0, <5>1, <5>2
        <4>3. keys[n] # "none"
          BY <1>0, <1>a, <2>0 DEF KeyOrder
        <4> QED
          BY <2>0, <2>2, <4>1, <4>2, <4>3
      <3>4. ASSUME NEW i \in ApiKeys!Rotating', keys'[keyReq'[i].new] = "disabled"
            PROVE  \E j \in ApiKeys!Keys : j > keyReq'[i].new /\ Settled(j)'
        <4>1. i \in ApiKeys!Rotating \ {h} /\ keyReq'[i] = keyReq[i]
          BY <3>1
        <4> DEFINE m == keyReq[i].new
        <4>2. m \in ApiKeys!Keys
          BY <2>0, <4>1
        <4>3. CASE m <= o
          BY <1>0, <2>0, <3>3, <4>1, <4>2, <4>3
        <4>4. CASE m > o
          <5>1. keys[m] = "disabled"
            BY <1>0, <2>0, <3>1, <3>4, <4>1, <4>2, <4>4
          <5>2. PICK j \in ApiKeys!Keys : j > m /\ Settled(j)
            BY <2>2, <4>1, <5>1
          <5>3. Settled(j)'
            BY <1>0, <2>0, <3>2, <4>2, <4>4, <5>2
          <5> QED
            BY <4>1, <5>2, <5>3
        <4> QED
          BY <1>0, <2>0, <4>2, <4>3, <4>4
      <3>5. \A j \in ApiKeys!Keys : keys'[j] \in {"none", "enabled", "disabled"}
        BY <1>0, <2>2, <3>1
      <3>6. ApiKeys!Keys' = ApiKeys!Keys
        BY DEF ApiKeys!Keys
      <3> QED
        BY <3>3, <3>4, <3>5, <3>6 DEF KeyKept
    <2>5. keys[o] # "deleted"
      BY <2>0, <2>2
    <2> QED
      BY <1>4, <2>3, <2>4, <2>5 DEF ApiKeys!DisableOld
  <1>5. ASSUME NEW h \in Handlers, ApiKeys!RollBack(h) PROVE KeyKept'
    <2> SUFFICES ASSUME ~removed' PROVE KeyKept'
      BY DEF KeyKept
    <2> DEFINE n == keyReq[h].new
    <2>0. n \in ApiKeys!Keys /\ h \in ApiKeys!Rotating
      BY <1>0, <1>5, <1>a DEF ApiKeys!RollBack, KeyOrder, ApiKeys!Rotating
    <2>1. ~removed /\ keysMade' = keysMade
      BY <1>5 DEF ApiKeys!RollBack
    <2>2. /\ \A k \in ApiKeys!Keys : keys[k] \in {"none", "enabled", "disabled"}
          /\ keysMade > 0 => \E k \in ApiKeys!Keys : Settled(k)
          /\ \A i \in ApiKeys!Rotating :
               keys[keyReq[i].new] = "disabled" => \E k \in ApiKeys!Keys : k > keyReq[i].new /\ Settled(k)
      BY <1>a, <2>1 DEF KeyKept
    <2>3. /\ ApiKeys!Rotating' = ApiKeys!Rotating \ {h}
          /\ \A i \in ApiKeys!Rotating \ {h} : keyReq'[i] = keyReq[i]
      BY <1>0, <1>5 DEF ApiKeys!RollBack, ApiKeys!Done, ApiKeys!Rotating
    <2>4. /\ \A k \in ApiKeys!Keys \ {n} : keys'[k] = keys[k]
          /\ keys'[n] \in {keys[n], "disabled"}
      BY <1>0, <1>5, <2>0 DEF ApiKeys!RollBack, ApiKeys!disable_apikey_in_db
    <2>5. \A k \in ApiKeys!Keys : Settled(k) => Settled(k)'
      BY <2>0, <2>3, <2>4 DEF Settled
    <2>6. \A i \in ApiKeys!Rotating \ {h} : keyReq[i].new \in ApiKeys!Keys \ {n}
      BY <1>0, <1>a, <2>0 DEF KeyOrder
    <2>7. ApiKeys!Keys' = ApiKeys!Keys
      BY DEF ApiKeys!Keys
    <2>8. \A k \in ApiKeys!Keys : keys'[k] \in {"none", "enabled", "disabled"}
      BY <2>0, <2>2, <2>4
    <2>9. keysMade' > 0 => \E k \in ApiKeys!Keys : Settled(k)'
      BY <2>1, <2>2, <2>5
    <2>10. \A i \in ApiKeys!Rotating' :
             keys'[keyReq'[i].new] = "disabled" =>
               \E k \in ApiKeys!Keys : k > keyReq'[i].new /\ Settled(k)'
      BY <2>2, <2>3, <2>4, <2>5, <2>6
    <2> QED
      BY <2>7, <2>8, <2>9, <2>10 DEF KeyKept
  <1>6. ASSUME NEW h \in Handlers, NEW k \in ApiKeys!Keys, ApiKeys!RotateApiKey(h, k) PROVE KeyKept'
    <2>1. /\ UNCHANGED <<keys, keysMade, removed>> /\ ApiKeys!Rotating' = ApiKeys!Rotating
          /\ \A i \in ApiKeys!Rotating : keyReq'[i] = keyReq[i]
      BY <1>0, <1>6 DEF ApiKeys!RotateApiKey, ApiKeys!Rotating
    <2> QED
      BY <1>a, <2>1 DEF KeyKept, Settled
  <1>7. ASSUME NEW k \in ApiKeys!Keys, ApiKeys!DeleteApiKey(k) \/ ApiKeys!KeyExpires(k)
        PROVE  KeyKept'
    BY <1>7 DEF ApiKeys!DeleteApiKey, ApiKeys!KeyExpires, KeyKept
  <1> QED
    BY <1>1, <1>2, <1>3, <1>4, <1>5, <1>6, <1>7 DEF ApiKeys!Next

\* The other services leave the keys alone.
LEMMA KeyFrame ==
  ASSUME KeyInv, UNCHANGED keyVars
  PROVE  KeyInv'
  BY DEF KeyInv, KeyTypes, KeyOrder, KeyCount, KeyKept, Settled, Inserting, ApiKeys!Enabled,
         ApiKeys!Rotating, ApiKeys!Keys, keyVars

\* However many requests create, rotate and delete the keys of an account, the limit
\* on keys is passed only by what post_apikey and rotate_apikey leave open, and a
\* rotation, failed or not, never takes the last key away.
THEOREM KeysAreSafe == Spec => []KeysSafe
  <1>1. KeyInv /\ [Next]_<<part, userVars, boardVars, accountVars>> => KeyInv'
    <2> SUFFICES ASSUME KeyInv, [Next]_<<part, userVars, boardVars, accountVars>> PROVE KeyInv'
      OBVIOUS
    <2>1. ApiKeys!Next \/ UNCHANGED keyVars
      BY ServiceStep
    <2>2. CASE ApiKeys!Next
      BY <2>2, KeyTypesStep, KeyOrderStep, KeyCountStep, KeyKeptStep DEF KeyInv
    <2> QED
      BY <2>1, <2>2, KeyFrame
  <1>2. KeyInv => KeysSafe
    <2> SUFFICES ASSUME KeyInv PROVE KeysSafe
      OBVIOUS
    <2>1. ApiKeys!KeysBounded
      <3>1. /\ Cardinality(Inserting) \in Nat /\ Cardinality(ApiKeys!Rotating) \in Nat
            /\ Cardinality(Handlers) \in Nat
        BY CountRequests DEF Inserting, ApiKeys!Rotating
      <3>2. Cardinality(ApiKeys!Enabled) \in Nat
        <4>1. IsFiniteSet(ApiKeys!Keys)
          BY ServicesAssumption, FS_Interval DEF ApiKeys!Keys
        <4> QED
          BY <4>1, FS_Subset, FS_CardinalityType DEF ApiKeys!Enabled, ApiKeys!Keys
      <3>3. KeyCount /\ extra \in Nat /\ keyFaults \in Nat
        BY DEF KeyInv, KeyTypes
      <3>4. Cardinality(ApiKeys!Enabled) <=
              KeyLimit + Cardinality(Handlers) - 1 + Cardinality(ApiKeys!Rotating) + extra + keyFaults
        BY <3>1, <3>2, <3>3, ServicesAssumption DEF KeyCount
      <3> QED
        BY <3>4, SameCardinality DEF ApiKeys!KeysBounded
    <2>2. ApiKeys!RotationKeepsAKey
      BY DEF KeyInv, KeyKept, Settled, ApiKeys!RotationKeepsAKey, ApiKeys!Enabled, ApiKeys!Keys
    <2> QED
      BY <2>1, <2>2 DEF KeysSafe
  <1> QED
    BY KeyInit, <1>1, <1>2, PTL DEF Spec
-----------------------------------------------------------------------------
(* Passwords *)

\* Requests that have checked a code and not yet set the password, and those
\* that have set it and not yet deleted the codes.
Resetting(c) == {h \in Handlers : pwPc[h] = "reset" /\ pwCode[h] = c}
Purging(c) == {h \in Handlers : pwPc[h] = "purge" /\ pwCode[h] = c}

ResetTypes ==
  /\ codesMade \in 0..MaxResetCodes /\ password \in Nat
  /\ resetCodes \subseteq 1..codesMade /\ purged \in 0..codesMade
  /\ pwPc \in [Handlers -> {"idle", "reset", "purge", "change"}]
  /\ pwCode \in [Handlers -> 0..codesMade]
  /\ \A h \in Handlers : pwPc[h] \in {"reset", "purge"} => pwCode[h] \in 1..codesMade
  /\ used \in [Passwords!ResetCodes -> Nat]
  /\ \A c \in Passwords!ResetCodes : c > codesMade => used[c] = 0
  /\ pwFaults \in Nat

\* A code that is still stored has set a password only in requests that are about
\* to delete it or failed to; once it is gone, only those past the check can use it.
ResetCount ==
  \A c \in Passwords!ResetCodes :
    /\ c \in resetCodes => used[c] <= Cardinality(Purging(c)) + pwFaults
    /\ used[c] + Cardinality(Resetting(c)) <= Cardinality(Handlers) + pwFaults

ResetInv == ResetTypes /\ Passwords!OldCodesDead /\ ResetCount


\* No code has been mailed at the start.
LEMMA ResetInit == Init => ResetInv
  <1> SUFFICES ASSUME Init PROVE ResetInv
    OBVIOUS
  <1>0. Passwords!Init
    BY DEF Init
  <1>1. \A c : Resetting(c) = {} /\ Purging(c) = {}
    BY <1>0 DEF Passwords!Init, Resetting, Purging
  <1>2. Cardinality({}) = 0 /\ Cardinality(Handlers) \in Nat
    BY FS_EmptySet, CountRequests
  <1>3. ResetTypes
    <2>1. used \in [Passwords!ResetCodes -> Nat]
      BY <1>0 DEF Passwords!Init
    <2>2. pwPc \in [Handlers -> {"idle", "reset", "purge", "change"}]
      BY <1>0 DEF Passwords!Init
    <2>3. pwCode \in [Handlers -> 0..codesMade]
      BY <1>0 DEF Passwords!Init
    <2>4. /\ codesMade = 0 /\ password = 1 /\ resetCodes = {} /\ purged = 0 /\ pwFaults = 0
          /\ \A h \in Handlers : pwPc[h] = "idle"
          /\ \A c \in Passwords!ResetCodes : used[c] = 0
      BY <1>0 DEF Passwords!Init
    <2>5. codesMade \in 0..MaxResetCodes
      BY <2>4, ServicesAssumption
    <2> QED
      BY <2>1, <2>2, <2>3, <2>4, <2>5 DEF ResetTypes
  <1>4. ResetCount
    <2> SUFFICES ASSUME NEW c \in Passwords!ResetCodes
                 PROVE  /\ c \notin resetCodes
                        /\ used[c] + Cardinality(Resetting(c)) <= Cardinality(Handlers) + pwFaults
      BY DEF ResetCount
    <2>1. used[c] = 0 /\ pwFaults = 0 /\ resetCodes = {}
      BY <1>0 DEF Passwords!Init
    <2> QED
      BY <1>1, <1>2, <2>1
  <1>5. Passwords!OldCodesDead
    BY <1>0 DEF Passwords!Init, Passwords!OldCodesDead
  <1> QED
    BY <1>3, <1>4, <1>5 DEF ResetInv

\* What request h adds to the requests for code c, before and after it moves.
LEMMA ResetMove ==
  ASSUME NEW c, NEW h \in Handlers,
         \A i \in Handlers \ {h} : pwPc'[i] = pwPc[i] /\ pwCode'[i] = pwCode[i]
  PROVE  /\ Cardinality(Resetting(c)) \in Nat /\ Cardinality(Resetting(c))' \in Nat
         /\ Cardinality(Purging(c)) \in Nat /\ Cardinality(Purging(c))' \in Nat
         /\ Cardinality(Resetting(c))' = Cardinality(Resetting(c))
              + Bit(pwPc'[h] = "reset" /\ pwCode'[h] = c) - Bit(pwPc[h] = "reset" /\ pwCode[h] = c)
         /\ Cardinality(Purging(c))' = Cardinality(Purging(c))
              + Bit(pwPc'[h] = "purge" /\ pwCode'[h] = c) - Bit(pwPc[h] = "purge" /\ pwCode[h] = c)
  <1> DEFINE S == {i \in Handlers : pwPc[i] = "reset" /\ pwCode[i] = c}
             T == {i \in Handlers : pwPc'[i] = "reset" /\ pwCode'[i] = c}
             U == {i \in Handlers : pwPc[i] = "purge" /\ pwCode[i] = c}
             V == {i \in Handlers : pwPc'[i] = "purge" /\ pwCode'[i] = c}
  <1>1. IsFiniteSet(S) /\ IsFiniteSet(T) /\ IsFiniteSet(U) /\ IsFiniteSet(V)
    BY CountRequests
  <1>2. S \ {h} = T \ {h} /\ U \ {h} = V \ {h}
    OBVIOUS
  <1>3. /\ Cardinality(S) \in Nat /\ Cardinality(T) \in Nat
        /\ Cardinality(T) = Cardinality(S) + Bit(h \in T) - Bit(h \in S)
    BY <1>1, <1>2, CountMove
  <1>4. /\ Cardinality(U) \in Nat /\ Cardinality(V) \in Nat
        /\ Cardinality(V) = Cardinality(U) + Bit(h \in V) - Bit(h \in U)
    BY <1>1, <1>2, CountMove
  <1>5. Resetting(c) = S /\ Resetting(c)' = T /\ Purging(c) = U /\ Purging(c)' = V
    BY DEF Resetting, Purging
  <1> QED
    BY <1>3, <1>4, <1>5 DEF Bit

\* Requests past the check and requests about to delete the codes are different ones.
LEMMA ResettingOrPurging ==
  ASSUME NEW S \in SUBSET Handlers, NEW T \in SUBSET Handlers, S \cap T = {}
  PROVE  /\ Cardinality(S) \in Nat /\ Cardinality(T) \in Nat /\ Cardinality(Handlers) \in Nat
         /\ Cardinality(S) + Cardinality(T) <= Cardinality(Handlers)
  <1>1. S \cup T \in SUBSET Handlers
    OBVIOUS
  <1>2. /\ IsFiniteSet(S) /\ IsFiniteSet(T)
        /\ Cardinality(S) \in Nat /\ Cardinality(T) \in Nat /\ Cardinality(Handlers) \in Nat
        /\ Cardinality(S \cup T) <= Cardinality(Handlers)
    BY <1>1, CountRequests
  <1>3. Cardinality(S \cup T) = Cardinality(S) + Cardinality(T) - Cardinality(S \cap T)
    BY <1>2, FS_Union
  <1>4. Cardinality(S \cap T) = 0
    BY FS_EmptySet
  <1> QED
    BY <1>2, <1>3, <1>4

\* Every step of the resets stays in the types, and no old code sets a password.
LEMMA ResetTypesStep ==
  ASSUME ResetInv, Passwords!Next
  PROVE  ResetTypes' /\ Passwords!OldCodesDead'
  <1>0. /\ codesMade \in 0..MaxResetCodes /\ password \in Nat /\ pwFaults \in Nat /\ MaxResetCodes \in Nat
        /\ resetCodes \subseteq 1..codesMade /\ purged \in 0..codesMade
        /\ pwPc \in [Handlers -> {"idle", "reset", "purge", "change"}]
        /\ pwCode \in [Handlers -> 0..codesMade]
        /\ \A h \in Handlers : pwPc[h] \in {"reset", "purge"} => pwCode[h] \in 1..codesMade
        /\ used \in [Passwords!ResetCodes -> Nat] /\ Passwords!ResetCodes = 1..MaxResetCodes
        /\ \A c \in Passwords!ResetCodes : c > codesMade => used[c] = 0
        /\ \A c \in resetCodes : c > purged
    BY ServicesAssumption DEF ResetInv, ResetTypes, Passwords!OldCodesDead, Passwords!ResetCodes
  <1> DEFINE G == ResetTypes' /\ Passwords!OldCodesDead'
  <1> USE DEF Passwords!Done, Passwords!Goto, Passwords!update_user_password
  <1>1. ASSUME Passwords!RequestReset PROVE G
    <2>1. /\ codesMade < MaxResetCodes /\ codesMade' = codesMade + 1
          /\ resetCodes' = resetCodes \cup {codesMade + 1}
          /\ UNCHANGED <<password, pwPc, pwCode, used, purged, pwFaults>>
      BY <1>1 DEF Passwords!RequestReset
    <2>2. pwCode' \in [Handlers -> 0..codesMade']
      BY <1>0, <2>1
    <2>3. \A h \in Handlers : pwPc'[h] \in {"reset", "purge"} => pwCode'[h] \in 1..codesMade'
      BY <1>0, <2>1
    <2>4. resetCodes' \subseteq 1..codesMade' /\ purged' \in 0..codesMade'
      BY <1>0, <2>1
    <2>5. \A c \in Passwords!ResetCodes' : c > codesMade' => used'[c] = 0
      BY <1>0, <2>1 DEF Passwords!ResetCodes
    <2>6. used' \in [Passwords!ResetCodes' -> Nat]
      BY <1>0, <2>1 DEF Passwords!ResetCodes
    <2>7. codesMade' \in 0..MaxResetCodes
      BY <1>0, <2>1
    <2>8. \A c \in resetCodes' : c > purged'
      BY <1>0, <2>1
    <2> QED
      BY <1>0, <2>1, <2>2, <2>3, <2>4, <2>5, <2>6, <2>7, <2>8 DEF ResetTypes, Passwords!OldCodesDead
  <1>2. ASSUME NEW c, Passwords!ResetCodeExpires(c) PROVE G
    BY <1>0, <1>2 DEF Passwords!ResetCodeExpires, ResetTypes, Passwords!OldCodesDead, Passwords!ResetCodes
  <1>3. ASSUME NEW c \in Passwords!ResetCodes, NEW h \in Handlers, Passwords!CheckResetCode(h, c) PROVE G
    <2>1. /\ c \in 1..codesMade
          /\ pwPc' = [pwPc EXCEPT ![h] = "reset"] /\ pwCode' = [pwCode EXCEPT ![h] = c]
          /\ UNCHANGED <<password, resetCodes, codesMade, used, purged, pwFaults>>
      BY <1>0, <1>3 DEF Passwords!CheckResetCode, Passwords!Current
    <2> QED
      BY <1>0, <2>1 DEF ResetTypes, Passwords!OldCodesDead, Passwords!ResetCodes
  <1>4. ASSUME NEW h \in Handlers, Passwords!ResetPassword(h) PROVE G
    <2>1. /\ pwPc[h] = "reset" /\ password' = password + 1
          /\ used' = [used EXCEPT ![pwCode[h]] = @ + 1]
          /\ pwPc' = [pwPc EXCEPT ![h] = "purge"]
          /\ UNCHANGED <<resetCodes, codesMade, purged, pwFaults, pwCode>>
      BY <1>4 DEF Passwords!ResetPassword
    <2>2. pwCode[h] \in 1..codesMade
      BY <1>0, <2>1
    <2>3. used' \in [Passwords!ResetCodes' -> Nat]
      BY <1>0, <2>1, <2>2 DEF Passwords!ResetCodes
    <2>4. \A c \in Passwords!ResetCodes' : c > codesMade' => used'[c] = 0
      BY <1>0, <2>1, <2>2 DEF Passwords!ResetCodes
    <2> QED
      BY <1>0, <2>1, <2>2, <2>3, <2>4 DEF ResetTypes, Passwords!OldCodesDead
  <1>5. ASSUME NEW h \in Handlers, Passwords!PurgeCodes(h) PROVE G
    <2>1. /\ pwPc' = [pwPc EXCEPT ![h] = "idle"] /\ pwCode' = [pwCode EXCEPT ![h] = 0]
          /\ UNCHANGED <<password, codesMade, used>>
      BY <1>5 DEF Passwords!PurgeCodes
    <2>2. /\ pwFaults' \in Nat
          /\ \/ resetCodes' = {} /\ purged' = codesMade
             \/ UNCHANGED <<resetCodes, purged>>
      BY <1>0, <1>5 DEF Passwords!PurgeCodes, Passwords!delete_all_codes
    <2>3. pwPc' \in [Handlers -> {"idle", "reset", "purge", "change"}]
      BY <1>0, <2>1
    <2>4. pwCode' \in [Handlers -> 0..codesMade']
      BY <1>0, <2>1
    <2>5. \A i \in Handlers : pwPc'[i] \in {"reset", "purge"} => pwCode'[i] \in 1..codesMade'
      BY <1>0, <2>1
    <2>6. /\ resetCodes' \subseteq 1..codesMade' /\ purged' \in 0..codesMade'
          /\ \A c \in resetCodes' : c > purged'
      <3>1. CASE resetCodes' = {} /\ purged' = codesMade
        BY <1>0, <2>1, <3>1
      <3>2. CASE UNCHANGED <<resetCodes, purged>>
        BY <1>0, <2>1, <3>2
      <3> QED
        BY <2>2, <3>1, <3>2
    <2> QED
      BY <1>0, <2>1, <2>2, <2>3, <2>4, <2>5, <2>6
      DEF ResetTypes, Passwords!OldCodesDead, Passwords!ResetCodes
  <1>6. ASSUME NEW h \in Handlers, Passwords!ChangePassword(h) \/ Passwords!WriteChanged(h) PROVE G
    <2>1. /\ \/ pwPc' = [pwPc EXCEPT ![h] = "change"] /\ pwCode' = pwCode
             \/ pwPc' = [pwPc EXCEPT ![h] = "idle"] /\ pwCode' = [pwCode EXCEPT ![h] = 0]
          /\ password' \in Nat
          /\ UNCHANGED <<resetCodes, codesMade, used, purged, pwFaults>>
      BY <1>0, <1>6 DEF Passwords!ChangePassword, Passwords!WriteChanged
    <2>2. pwPc' \in [Handlers -> {"idle", "reset", "purge", "change"}]
      BY <1>0, <2>1
    <2>3. pwCode' \in [Handlers -> 0..codesMade']
      BY <1>0, <2>1
    <2>4. \A i \in Handlers : pwPc'[i] \in {"reset", "purge"} => pwCode'[i] \in 1..codesMade'
      BY <1>0, <2>1
    <2>5. /\ resetCodes' \subseteq 1..codesMade' /\ purged' \in 0..codesMade'
          /\ \A c \in resetCodes' : c > purged'
      BY <1>0, <2>1
    <2> QED
      BY <1>0, <2>1, <2>2, <2>3, <2>4, <2>5
      DEF ResetTypes, Passwords!OldCodesDead, Passwords!ResetCodes
  <1> QED
    BY <1>1, <1>2, <1>3, <1>4, <1>5, <1>6 DEF Passwords!Next

\* Every use of a code is counted by a request or a fault.
LEMMA ResetCountStep ==
  ASSUME ResetInv, Passwords!Next, ResetTypes'
  PROVE  ResetCount'
  <1>0. /\ pwFaults \in Nat /\ pwFaults' \in Nat
        /\ pwPc \in [Handlers -> {"idle", "reset", "purge", "change"}]
        /\ codesMade \in Nat /\ resetCodes \subseteq 1..codesMade
        /\ pwCode \in [Handlers -> 0..codesMade]
        /\ used \in [Passwords!ResetCodes -> Nat] /\ used' \in [Passwords!ResetCodes -> Nat]
        /\ \A c \in Passwords!ResetCodes : c > codesMade => used[c] = 0
    BY ServicesAssumption DEF ResetInv, ResetTypes, Passwords!ResetCodes
  <1>a. /\ \A c \in Passwords!ResetCodes : c \in Nat
        /\ \A c \in Passwords!ResetCodes : c \in resetCodes => used[c] <= Cardinality(Purging(c)) + pwFaults
        /\ \A c \in Passwords!ResetCodes :
             used[c] + Cardinality(Resetting(c)) <= Cardinality(Handlers) + pwFaults
        /\ Passwords!ResetCodes' = Passwords!ResetCodes
    BY ServicesAssumption DEF ResetInv, ResetCount, Passwords!ResetCodes
  <1> USE DEF Passwords!Done, Passwords!Goto, Passwords!update_user_password
  <1>1. ASSUME UNCHANGED <<pwPc, pwCode, used, pwFaults>>,
               \A c \in resetCodes' : c \in resetCodes \/ c > codesMade
        PROVE  ResetCount'
    <2>1. \A c : /\ Cardinality(Purging(c))' = Cardinality(Purging(c))
                 /\ Cardinality(Resetting(c))' = Cardinality(Resetting(c))
      BY <1>1 DEF Purging, Resetting
    <2>2. \A c : Cardinality(Purging(c)) \in Nat
      BY CountRequests DEF Purging
    <2> QED
      BY <1>0, <1>a, <1>1, <2>1, <2>2 DEF ResetCount
  <1>2. ASSUME Passwords!RequestReset \/ \E c \in Passwords!ResetCodes : Passwords!ResetCodeExpires(c)
        PROVE  ResetCount'
    <2>1. UNCHANGED <<pwPc, pwCode, used, pwFaults>>
      BY <1>2 DEF Passwords!RequestReset, Passwords!ResetCodeExpires
    <2>2. \A c \in resetCodes' : c \in resetCodes \/ c > codesMade
      BY <1>0, <1>2 DEF Passwords!RequestReset, Passwords!ResetCodeExpires
    <2> QED
      BY <1>1, <2>1, <2>2
  <1>3. ASSUME NEW d \in Passwords!ResetCodes, NEW h \in Handlers, Passwords!CheckResetCode(h, d)
        PROVE  ResetCount'
    <2>1. /\ pwPc[h] = "idle" /\ d \in resetCodes /\ pwPc'[h] = "reset" /\ pwCode'[h] = d
          /\ \A i \in Handlers \ {h} : pwPc'[i] = pwPc[i] /\ pwCode'[i] = pwCode[i]
          /\ UNCHANGED <<resetCodes, used, pwFaults>>
      BY <1>0, <1>3 DEF Passwords!CheckResetCode, Passwords!Current
    <2> SUFFICES ASSUME NEW c \in Passwords!ResetCodes
                 PROVE  /\ c \in resetCodes' => used'[c] <= Cardinality(Purging(c))' + pwFaults'
                        /\ used'[c] + Cardinality(Resetting(c))' <= Cardinality(Handlers) + pwFaults'
      BY <1>a DEF ResetCount
    <2>2. /\ Cardinality(Resetting(c)) \in Nat /\ Cardinality(Resetting(c))' \in Nat
          /\ Cardinality(Purging(c))' = Cardinality(Purging(c))
          /\ Cardinality(Resetting(c))' = Cardinality(Resetting(c)) + Bit(c = d)
      BY <2>1, ResetMove DEF Bit
    <2>3. /\ Cardinality(Purging(c)) \in Nat /\ Cardinality(Handlers) \in Nat
          /\ Cardinality(Resetting(c))' + Cardinality(Purging(c))' <= Cardinality(Handlers)
      <3>1. /\ Resetting(c)' \in SUBSET Handlers /\ Purging(c)' \in SUBSET Handlers
            /\ Resetting(c)' \cap Purging(c)' = {} /\ Purging(c) \in SUBSET Handlers
        BY DEF Resetting, Purging
      <3> QED
        BY <3>1, CountRequests, ResettingOrPurging
    <2> QED
      BY <1>0, <1>a, <2>1, <2>2, <2>3 DEF Bit
  <1>4. ASSUME NEW h \in Handlers, Passwords!ResetPassword(h) PROVE ResetCount'
    <2>1. /\ pwPc[h] = "reset" /\ pwPc'[h] = "purge" /\ pwCode' = pwCode
          /\ \A i \in Handlers \ {h} : pwPc'[i] = pwPc[i] /\ pwCode'[i] = pwCode[i]
          /\ used' = [used EXCEPT ![pwCode[h]] = @ + 1]
          /\ UNCHANGED <<resetCodes, pwFaults>>
      BY <1>0, <1>4 DEF Passwords!ResetPassword
    <2> SUFFICES ASSUME NEW c \in Passwords!ResetCodes
                 PROVE  /\ c \in resetCodes' => used'[c] <= Cardinality(Purging(c))' + pwFaults'
                        /\ used'[c] + Cardinality(Resetting(c))' <= Cardinality(Handlers) + pwFaults'
      BY <1>a DEF ResetCount
    <2>2. /\ Cardinality(Resetting(c)) \in Nat /\ Cardinality(Resetting(c))' \in Nat
          /\ Cardinality(Purging(c)) \in Nat /\ Cardinality(Purging(c))' \in Nat
          /\ Cardinality(Purging(c))' = Cardinality(Purging(c)) + Bit(pwCode[h] = c)
          /\ Cardinality(Resetting(c))' = Cardinality(Resetting(c)) - Bit(pwCode[h] = c)
      BY <2>1, ResetMove DEF Bit
    <2>3. used'[c] = used[c] + Bit(pwCode[h] = c) /\ used[c] \in Nat
      BY <1>0, <2>1 DEF Bit
    <2>4. Bit(pwCode[h] = c) \in Nat /\ Cardinality(Handlers) \in Nat
      BY CountRequests DEF Bit
    <2> QED
      BY <1>0, <1>a, <2>1, <2>2, <2>3, <2>4
  <1>5. ASSUME NEW h \in Handlers, Passwords!PurgeCodes(h) PROVE ResetCount'
    <2>1. /\ pwPc[h] = "purge" /\ pwPc'[h] = "idle"
          /\ \A i \in Handlers \ {h} : pwPc'[i] = pwPc[i] /\ pwCode'[i] = pwCode[i]
          /\ used' = used
      BY <1>0, <1>5 DEF Passwords!PurgeCodes
    <2>2. \/ resetCodes' = {} /\ pwFaults' = pwFaults
          \/ resetCodes' = resetCodes /\ pwFaults' = pwFaults + 1
      BY <1>5 DEF Passwords!PurgeCodes, Passwords!delete_all_codes
    <2> SUFFICES ASSUME NEW c \in Passwords!ResetCodes
                 PROVE  /\ c \in resetCodes' => used'[c] <= Cardinality(Purging(c))' + pwFaults'
                        /\ used'[c] + Cardinality(Resetting(c))' <= Cardinality(Handlers) + pwFaults'
      BY <1>a DEF ResetCount
    <2>3. /\ Cardinality(Resetting(c)) \in Nat /\ Cardinality(Purging(c)) \in Nat
          /\ Cardinality(Purging(c))' \in Nat
          /\ Cardinality(Purging(c))' >= Cardinality(Purging(c)) - 1
          /\ Cardinality(Resetting(c))' = Cardinality(Resetting(c))
      <3>1. /\ Bit(pwPc'[h] = "purge" /\ pwCode'[h] = c) = 0
            /\ Bit(pwPc'[h] = "reset" /\ pwCode'[h] = c) = 0
            /\ Bit(pwPc[h] = "reset" /\ pwCode[h] = c) = 0
            /\ Bit(pwPc[h] = "purge" /\ pwCode[h] = c) \in {0, 1}
        BY <2>1 DEF Bit
      <3> QED
        BY <2>1, <3>1, ResetMove
    <2>4. Cardinality(Handlers) \in Nat /\ used[c] \in Nat
      BY <1>0, CountRequests
    <2> QED
      BY <1>0, <1>a, <2>1, <2>2, <2>3, <2>4
  <1>6. ASSUME NEW h \in Handlers, Passwords!ChangePassword(h) \/ Passwords!WriteChanged(h)
        PROVE  ResetCount'
    <2>1. /\ pwPc[h] \in {"idle", "change"} /\ pwPc'[h] \in {"idle", "change"}
          /\ \A i \in Handlers \ {h} : pwPc'[i] = pwPc[i] /\ pwCode'[i] = pwCode[i]
          /\ UNCHANGED <<resetCodes, used, pwFaults>>
      BY <1>0, <1>6 DEF Passwords!ChangePassword, Passwords!WriteChanged
    <2>2. \A c : /\ Cardinality(Purging(c))' = Cardinality(Purging(c))
                 /\ Cardinality(Resetting(c))' = Cardinality(Resetting(c))
      <3> SUFFICES ASSUME NEW c
                   PROVE  Purging(c)' = Purging(c) /\ Resetting(c)' = Resetting(c)
        OBVIOUS
      <3> QED
        BY <2>1 DEF Purging, Resetting
    <2> QED
      BY <1>a, <2>1, <2>2 DEF ResetCount
  <1> QED
    BY <1>2, <1>3, <1>4, <1>5, <1>6 DEF Passwords!Next

\* However many codes are mailed and requests overlap, a finished reset leaves no code
\* mailed before it, and a code sets no more passwords than there are requests, and one
\* more for each time the codes could not be deleted.
THEOREM ResetsAreSafe == Spec => []ResetsSafe
  <1>1. ResetInv /\ [Next]_<<part, userVars, boardVars, accountVars>> => ResetInv'
    <2> SUFFICES ASSUME ResetInv, [Next]_<<part, userVars, boardVars, accountVars>> PROVE ResetInv'
      OBVIOUS
    <2>1. Passwords!Next \/ UNCHANGED pwVars
      BY ServiceStep
    <2>2. CASE Passwords!Next
      BY <2>2, ResetTypesStep, ResetCountStep DEF ResetInv
    <2>3. CASE UNCHANGED pwVars
      BY <2>3
      DEF ResetInv, ResetTypes, ResetCount, Resetting, Purging, Passwords!OldCodesDead,
          Passwords!ResetCodes, pwVars
    <2> QED
      BY <2>1, <2>2, <2>3
  <1>2. ResetInv => ResetsSafe
    <2> SUFFICES ASSUME ResetInv PROVE ResetsSafe
      OBVIOUS
    <2>1. ASSUME NEW c \in Passwords!ResetCodes
          PROVE  used[c] <= Cardinality(Handlers) + pwFaults
      <3>1. /\ Cardinality(Resetting(c)) \in Nat /\ Cardinality(Handlers) \in Nat
            /\ used[c] \in Nat /\ pwFaults \in Nat
        BY CountRequests DEF ResetInv, ResetTypes, Resetting
      <3>2. used[c] + Cardinality(Resetting(c)) <= Cardinality(Handlers) + pwFaults
        BY DEF ResetInv, ResetCount
      <3> QED
        BY <3>1, <3>2
    <2> QED
      BY <2>1, SameCardinality DEF ResetsSafe, ResetInv, Passwords!ResetCodesBounded
  <1> QED
    BY ResetInit, <1>1, <1>2, PTL DEF Spec
-----------------------------------------------------------------------------
(* Administration and RequestLimits *)

\* A pending request was made by somebody, and to deactivate somebody else.
AdminInv ==
  /\ call \in [Handlers -> [caller : People \cup {Nobody}, target : People \cup {Nobody},
                            what : {"idle", "disable", "enable", "demote", "promote", "delete"}]]
  /\ \A h \in Handlers : call[h] # Administration!NoCall => call[h].caller \in People
  /\ \A h \in Handlers : call[h].what = "disable" => call[h].caller # call[h].target
  /\ selfDone \in BOOLEAN /\ overtaken \in BOOLEAN
  /\ Administration!AdministratorLeft

LimitTypes ==
  /\ cached \in Nat \cup {-1} /\ usage \in Nat /\ queue \in Nat
  /\ reqPc \in [Handlers -> {"idle", "increment", "count", "refill", "queue"}]
  /\ seen \in [Handlers -> Nat]
  /\ admitted \in Nat /\ missed \in Nat /\ dropped \in Nat /\ crowded \in BOOLEAN

\* Alone, a request works on a count that misses no more than the records that were
\* queued when the table was read, those that were lost and the request that filled
\* the cache; one about to run is counted already.
LimitAlone ==
  /\ \A h, i \in Handlers : reqPc[h] # "idle" /\ reqPc[i] # "idle" => h = i
  /\ admitted <= TierLimit + 1 + missed + dropped
  /\ cached # -1 => admitted <= cached + 1 + missed + dropped
  /\ \A h \in Handlers :
       /\ reqPc[h] = "increment" => seen[h] < TierLimit /\ admitted <= seen[h] + 1 + missed + dropped
       /\ reqPc[h] = "refill" => admitted <= seen[h] + missed + dropped
       /\ reqPc[h] = "queue" =>
            /\ admitted <= TierLimit + missed + dropped
            /\ cached # -1 => admitted <= cached + missed + dropped

\* Every request let through is in the table, in the queue or lost.
LimitInv ==
  /\ LimitTypes
  /\ admitted = usage + queue + dropped
  /\ crowded \/ LimitAlone

\* At the start every administrator may do his work.
LEMMA AdminInit == Init => AdminInv
  <1> SUFFICES ASSUME Init PROVE AdminInv
    OBVIOUS
  <1>0. Administration!Init
    BY DEF Init
  <1>1. Administration!NoCall \in
          [caller : People \cup {Nobody}, target : People \cup {Nobody},
           what : {"idle", "disable", "enable", "demote", "promote", "delete"}]
    BY DEF Administration!NoCall
  <1>2. \A h \in Handlers : call[h] = Administration!NoCall /\ call[h].what = "idle"
    BY <1>0 DEF Administration!Init, Administration!NoCall
  <1>3. call \in [Handlers -> [caller : People \cup {Nobody}, target : People \cup {Nobody},
                               what : {"idle", "disable", "enable", "demote", "promote", "delete"}]]
    BY <1>0, <1>1 DEF Administration!Init
  <1>4. Administration!AdministratorLeft
    BY <1>0, ServicesAssumption
    DEF Administration!Init, Administration!AdministratorLeft, Administration!Authorized
  <1>5. selfDone \in BOOLEAN /\ overtaken \in BOOLEAN
    BY <1>0 DEF Administration!Init
  <1> QED
    BY <1>2, <1>3, <1>4, <1>5 DEF AdminInv

\* A caller who still has his rights when he writes keeps them, unless he gives
\* them up himself.
LEMMA AdminStep ==
  ASSUME AdminInv, Administration!Next
  PROVE  AdminInv'
  <1> DEFINE Calls == [caller : People \cup {Nobody}, target : People \cup {Nobody},
                       what : {"idle", "disable", "enable", "demote", "promote", "delete"}]
  <1>0. /\ call \in [Handlers -> Calls]
        /\ \A h \in Handlers : call[h] # Administration!NoCall => call[h].caller \in People
        /\ \A h \in Handlers : call[h].what = "disable" => call[h].caller # call[h].target
        /\ selfDone \in BOOLEAN /\ overtaken \in BOOLEAN
        /\ Administration!AdministratorLeft
    BY DEF AdminInv
  <1>1. ASSUME NEW h \in Handlers, NEW p \in People, NEW q \in People,
               NEW what \in {"disable", "enable", "demote", "promote", "delete"},
               what = "disable" => p # q,
               Administration!Ask(h, p, q, what)
        PROVE  AdminInv'
    <2> DEFINE c == [caller |-> p, target |-> q, what |-> what]
    <2>1. /\ c \in Calls /\ c.caller = p /\ c.target = q /\ c.what = what
      OBVIOUS
    <2>2. /\ call' = [call EXCEPT ![h] = c]
          /\ UNCHANGED <<admin, active, accounts, selfDone, overtaken>>
      BY <1>1 DEF Administration!Ask
    <2> HIDE DEF c, Calls
    <2>3. call' \in [Handlers -> Calls]
      BY <1>0, <2>1, <2>2
    <2>4. \A i \in Handlers : call'[i] = IF i = h THEN c ELSE call[i]
      BY <1>0, <2>2
    <2>5. /\ \A i \in Handlers : call'[i] # Administration!NoCall => call'[i].caller \in People
          /\ \A i \in Handlers : call'[i].what = "disable" => call'[i].caller # call'[i].target
      BY <1>0, <1>1, <2>1, <2>4
    <2>6. Administration!AdministratorLeft'
      BY <1>0, <2>2 DEF Administration!AdministratorLeft, Administration!Authorized
    <2>7. Administration!NoCall' = Administration!NoCall
      BY DEF Administration!NoCall
    <2>8. selfDone' \in BOOLEAN /\ overtaken' \in BOOLEAN
      BY <1>0, <2>2
    <2> QED
      BY <2>3, <2>5, <2>6, <2>7, <2>8 DEF AdminInv, Calls
  <1>2. ASSUME NEW h \in Handlers, Administration!Write(h) PROVE AdminInv'
    <2> DEFINE p == call[h].caller
               q == call[h].target
               what == call[h].what
    <2>1. /\ call[h] # Administration!NoCall /\ call' = [call EXCEPT ![h] = Administration!NoCall]
          /\ admin' = Administration!RoleAfter(what, q)
          /\ active' = CASE what = "disable" -> active \ {q}
                         [] what = "enable" /\ q \in accounts -> active \cup {q}
                         [] OTHER -> active
          /\ accounts' = IF what = "delete" THEN accounts \ {q} ELSE accounts
          /\ selfDone' = (selfDone \/ (p = q /\ what \in {"demote", "delete"}))
          /\ overtaken' = (overtaken \/ ~Administration!Authorized(p))
      BY <1>2 DEF Administration!Write
    <2>2. Administration!NoCall \in Calls /\ Administration!NoCall.what = "idle"
      BY DEF Administration!NoCall
    <2>3. p \in People /\ (what = "disable" => p # q)
      BY <1>0, <2>1
    <2>4. call' \in [Handlers -> Calls]
      BY <1>0, <2>1, <2>2
    <2>5. \A i \in Handlers : call'[i] = IF i = h THEN Administration!NoCall ELSE call[i]
      BY <1>0, <2>1
    <2>6. /\ \A i \in Handlers : call'[i] # Administration!NoCall => call'[i].caller \in People
          /\ \A i \in Handlers : call'[i].what = "disable" => call'[i].caller # call'[i].target
      BY <1>0, <2>2, <2>5
    <2>7. Administration!AdministratorLeft'
      <3> SUFFICES ASSUME ~selfDone', ~overtaken'
                   PROVE  \E x \in People : x \in accounts' \cap active' \cap admin'
        BY DEF Administration!AdministratorLeft, Administration!Authorized
      <3>1. p \in accounts \cap active \cap admin
        BY <2>1 DEF Administration!Authorized
      <3>2. p = q => what \notin {"demote", "delete"}
        BY <2>1
      <3> HIDE DEF p, q, what
      <3>3. p \in admin'
        BY <2>1, <3>1, <3>2 DEF Administration!RoleAfter
      <3>4. p \in active'
        BY <2>1, <2>3, <3>1
      <3>5. p \in accounts'
        BY <2>1, <3>1, <3>2
      <3> QED
        BY <2>3, <3>3, <3>4, <3>5
    <2>8. Administration!NoCall' = Administration!NoCall
      BY DEF Administration!NoCall
    <2>9. selfDone' \in BOOLEAN /\ overtaken' \in BOOLEAN
      BY <2>1
    <2> QED
      BY <2>4, <2>6, <2>7, <2>8, <2>9 DEF AdminInv
  <1>3. ASSUME NEW h \in Handlers, NEW p \in People, NEW q \in People,
               Administration!DeactivateUser(h, p, q) \/ Administration!ActivateUser(h, p, q)
                 \/ Administration!PatchRole(h, p, q) \/ Administration!DeleteUserById(h, p, q)
        PROVE  AdminInv'
    <2>1. PICK what \in {"disable", "enable", "demote", "promote", "delete"} :
            (what = "disable" => p # q) /\ Administration!Ask(h, p, q, what)
      BY <1>3
      DEF Administration!DeactivateUser, Administration!ActivateUser, Administration!PatchRole,
          Administration!DeleteUserById
    <2> QED
      BY <1>1, <2>1
  <1> QED
    BY <1>2, <1>3 DEF Administration!Next

-----------------------------------------------------------------------------
(* Request limits *)

\* Nothing is cached, counted or queued at the start.
LEMMA LimitInit == Init => LimitInv
  <1> SUFFICES ASSUME Init PROVE LimitInv
    OBVIOUS
  <1>0. RequestLimits!Init
    BY DEF Init
  <1>1. /\ cached = -1 /\ usage = 0 /\ queue = 0 /\ admitted = 0 /\ missed = 0 /\ dropped = 0
        /\ \A h \in Handlers : reqPc[h] = "idle"
        /\ crowded = FALSE
    BY <1>0 DEF RequestLimits!Init, RequestLimits!NoEntry
  <1>2. LimitTypes
    <2>1. reqPc \in [Handlers -> {"idle", "increment", "count", "refill", "queue"}]
      BY <1>0 DEF RequestLimits!Init
    <2>2. seen \in [Handlers -> Nat]
      BY <1>0 DEF RequestLimits!Init
    <2>3. crowded \in BOOLEAN
      BY <1>1
    <2> QED
      BY <1>1, <2>1, <2>2, <2>3 DEF LimitTypes
  <1>3. admitted = usage + queue + dropped /\ admitted <= TierLimit + 1 + missed + dropped
    BY <1>1, ServicesAssumption
  <1> QED
    BY <1>1, <1>2, <1>3 DEF LimitInv, LimitAlone

\* Every step of a request or of the counting keeps LimitInv.
LEMMA LimitStep ==
  ASSUME LimitInv, RequestLimits!Next
  PROVE  LimitInv'
  <1> USE DEF RequestLimits!Goto, RequestLimits!NoEntry
  <1>0. /\ cached \in Nat \cup {-1} /\ usage \in Nat /\ queue \in Nat
        /\ reqPc \in [Handlers -> {"idle", "increment", "count", "refill", "queue"}]
        /\ seen \in [Handlers -> Nat]
        /\ admitted \in Nat /\ missed \in Nat /\ dropped \in Nat /\ crowded \in BOOLEAN
        /\ TierLimit \in Nat
    BY ServicesAssumption DEF LimitInv, LimitTypes
  <1>a. admitted = usage + queue + dropped /\ (crowded \/ LimitAlone)
    BY DEF LimitInv
  \* What is left to show of a step of h.
  <1>b. ASSUME NEW h \in Handlers,
               \A i \in Handlers \ {h} : reqPc'[i] = reqPc[i] /\ seen'[i] = seen[i],
               LimitTypes', admitted' = usage' + queue' + dropped',
               crowded' \/ LimitAlone,
               ASSUME LimitAlone, \A i \in Handlers \ {h} : reqPc[i] = "idle"
               PROVE  /\ admitted' <= TierLimit + 1 + missed' + dropped'
                      /\ cached' # -1 => admitted' <= cached' + 1 + missed' + dropped'
                      /\ reqPc'[h] = "increment" =>
                           seen'[h] < TierLimit /\ admitted' <= seen'[h] + 1 + missed' + dropped'
                      /\ reqPc'[h] = "refill" => admitted' <= seen'[h] + missed' + dropped'
                      /\ reqPc'[h] = "queue" =>
                           /\ admitted' <= TierLimit + missed' + dropped'
                           /\ cached' # -1 => admitted' <= cached' + missed' + dropped',
               crowded' \/ \A i \in Handlers \ {h} : reqPc[i] = "idle"
        PROVE  LimitInv'
    <2>1. CASE crowded'
      BY <1>b, <2>1 DEF LimitInv
    <2>2. CASE ~crowded'
      BY <1>b, <2>2 DEF LimitInv, LimitAlone
    <2> QED
      BY <2>1, <2>2
  <1>1. ASSUME NEW h \in Handlers, RequestLimits!Authorize(h) PROVE LimitInv'
    <2>1. /\ reqPc[h] = "idle"
          /\ UNCHANGED <<cached, usage, queue, admitted, missed, dropped>>
          /\ crowded' = (crowded \/ \E i \in Handlers : reqPc[i] # "idle")
          /\ \/ reqPc'[h] = "count"
             \/ cached # -1 /\ cached < TierLimit /\ seen'[h] = cached /\ reqPc'[h] = "increment"
             \/ reqPc'[h] = "idle"
      BY <1>0, <1>1 DEF RequestLimits!Authorize
    <2>2. \A i \in Handlers \ {h} : reqPc'[i] = reqPc[i] /\ seen'[i] = seen[i]
      BY <1>0, <1>1 DEF RequestLimits!Authorize
    <2>3. LimitTypes'
      <3>1. reqPc' \in [Handlers -> {"idle", "increment", "count", "refill", "queue"}]
        BY <1>0, <1>1 DEF RequestLimits!Authorize
      <3>2. seen' \in [Handlers -> Nat]
        BY <1>0, <1>1 DEF RequestLimits!Authorize
      <3>3. crowded' \in BOOLEAN
        BY <1>0, <1>1 DEF RequestLimits!Authorize
      <3> QED
        BY <1>0, <2>1, <3>1, <3>2, <3>3 DEF LimitTypes, RequestLimits!Larger
    <2>4. crowded' \/ (LimitAlone /\ \A i \in Handlers \ {h} : reqPc[i] = "idle")
      BY <1>0, <1>a, <2>1 DEF LimitAlone
    <2>5. admitted' = usage' + queue' + dropped'
      BY <1>0, <1>a, <2>1
    <2>6. ASSUME LimitAlone, \A i \in Handlers \ {h} : reqPc[i] = "idle"
          PROVE  /\ admitted' <= TierLimit + 1 + missed' + dropped'
                 /\ cached' # -1 => admitted' <= cached' + 1 + missed' + dropped'
                 /\ reqPc'[h] = "increment" =>
                      seen'[h] < TierLimit /\ admitted' <= seen'[h] + 1 + missed' + dropped'
                 /\ reqPc'[h] = "refill" => admitted' <= seen'[h] + missed' + dropped'
                 /\ reqPc'[h] = "queue" =>
                      /\ admitted' <= TierLimit + missed' + dropped'
                      /\ cached' # -1 => admitted' <= cached' + missed' + dropped'
      BY <1>0, <1>a, <2>1, <2>6 DEF LimitAlone, RequestLimits!Larger
    <2> QED
      BY <1>b, <2>2, <2>3, <2>4, <2>5, <2>6
  <1>2. ASSUME NEW h \in Handlers, RequestLimits!Increment(h) PROVE LimitInv'
    <2>1. /\ reqPc[h] = "increment" /\ reqPc'[h] = "queue" /\ cached' = seen[h] + 1
          /\ seen[h] \in Nat /\ UNCHANGED <<usage, queue, admitted, missed, crowded, dropped>>
      BY <1>0, <1>2 DEF RequestLimits!Increment
    <2>2. \A i \in Handlers \ {h} : reqPc'[i] = reqPc[i] /\ seen'[i] = seen[i]
      BY <1>0, <1>2 DEF RequestLimits!Increment
    <2>3. LimitTypes'
      <3>1. reqPc' \in [Handlers -> {"idle", "increment", "count", "refill", "queue"}]
        BY <1>0, <1>2 DEF RequestLimits!Increment
      <3>2. seen' \in [Handlers -> Nat]
        BY <1>0, <1>2 DEF RequestLimits!Increment
      <3>3. crowded' \in BOOLEAN
        BY <1>0, <1>2 DEF RequestLimits!Increment
      <3> QED
        BY <1>0, <2>1, <3>1, <3>2, <3>3 DEF LimitTypes, RequestLimits!Larger
    <2>4. crowded' \/ (LimitAlone /\ \A i \in Handlers \ {h} : reqPc[i] = "idle")
      BY <1>0, <1>a, <2>1 DEF LimitAlone
    <2>5. admitted' = usage' + queue' + dropped'
      BY <1>0, <1>a, <2>1
    <2>6. ASSUME LimitAlone, \A i \in Handlers \ {h} : reqPc[i] = "idle"
          PROVE  /\ admitted' <= TierLimit + 1 + missed' + dropped'
                 /\ cached' # -1 => admitted' <= cached' + 1 + missed' + dropped'
                 /\ reqPc'[h] = "increment" =>
                      seen'[h] < TierLimit /\ admitted' <= seen'[h] + 1 + missed' + dropped'
                 /\ reqPc'[h] = "refill" => admitted' <= seen'[h] + missed' + dropped'
                 /\ reqPc'[h] = "queue" =>
                      /\ admitted' <= TierLimit + missed' + dropped'
                      /\ cached' # -1 => admitted' <= cached' + missed' + dropped'
      BY <1>0, <1>a, <2>1, <2>6 DEF LimitAlone, RequestLimits!Larger
    <2> QED
      BY <1>b, <2>2, <2>3, <2>4, <2>5, <2>6
  <1>3. ASSUME NEW h \in Handlers, RequestLimits!CountUsage(h) PROVE LimitInv'
    <2>1. /\ reqPc[h] = "count" /\ reqPc'[h] = "refill" /\ seen'[h] = usage
          /\ missed' = RequestLimits!Larger(missed, queue)
          /\ UNCHANGED <<cached, usage, queue, admitted, crowded, dropped>>
      BY <1>0, <1>3 DEF RequestLimits!CountUsage
    <2>2. \A i \in Handlers \ {h} : reqPc'[i] = reqPc[i] /\ seen'[i] = seen[i]
      BY <1>0, <1>3 DEF RequestLimits!CountUsage
    <2>3. LimitTypes'
      <3>1. reqPc' \in [Handlers -> {"idle", "increment", "count", "refill", "queue"}]
        BY <1>0, <1>3 DEF RequestLimits!CountUsage
      <3>2. seen' \in [Handlers -> Nat]
        BY <1>0, <1>3 DEF RequestLimits!CountUsage
      <3>3. crowded' \in BOOLEAN
        BY <1>0, <1>3 DEF RequestLimits!CountUsage
      <3> QED
        BY <1>0, <2>1, <3>1, <3>2, <3>3 DEF LimitTypes, RequestLimits!Larger
    <2>4. crowded' \/ (LimitAlone /\ \A i \in Handlers \ {h} : reqPc[i] = "idle")
      BY <1>0, <1>a, <2>1 DEF LimitAlone
    <2>5. admitted' = usage' + queue' + dropped'
      BY <1>0, <1>a, <2>1
    <2>6. ASSUME LimitAlone, \A i \in Handlers \ {h} : reqPc[i] = "idle"
          PROVE  /\ admitted' <= TierLimit + 1 + missed' + dropped'
                 /\ cached' # -1 => admitted' <= cached' + 1 + missed' + dropped'
                 /\ reqPc'[h] = "increment" =>
                      seen'[h] < TierLimit /\ admitted' <= seen'[h] + 1 + missed' + dropped'
                 /\ reqPc'[h] = "refill" => admitted' <= seen'[h] + missed' + dropped'
                 /\ reqPc'[h] = "queue" =>
                      /\ admitted' <= TierLimit + missed' + dropped'
                      /\ cached' # -1 => admitted' <= cached' + missed' + dropped'
      BY <1>0, <1>a, <2>1, <2>6 DEF LimitAlone, RequestLimits!Larger
    <2> QED
      BY <1>b, <2>2, <2>3, <2>4, <2>5, <2>6
  <1>4. ASSUME NEW h \in Handlers, RequestLimits!Refill(h) PROVE LimitInv'
    <2>1. /\ reqPc[h] = "refill" /\ seen[h] \in Nat /\ seen'[h] = seen[h] /\ cached' = seen[h]
          /\ reqPc'[h] = IF seen[h] >= TierLimit THEN "idle" ELSE "queue"
          /\ UNCHANGED <<usage, queue, admitted, missed, crowded, dropped>>
      BY <1>0, <1>4 DEF RequestLimits!Refill
    <2>2. \A i \in Handlers \ {h} : reqPc'[i] = reqPc[i] /\ seen'[i] = seen[i]
      BY <1>0, <1>4 DEF RequestLimits!Refill
    <2>3. LimitTypes'
      <3>1. reqPc' \in [Handlers -> {"idle", "increment", "count", "refill", "queue"}]
        BY <1>0, <1>4 DEF RequestLimits!Refill
      <3>2. seen' \in [Handlers -> Nat]
        BY <1>0, <1>4 DEF RequestLimits!Refill
      <3>3. crowded' \in BOOLEAN
        BY <1>0, <1>4 DEF RequestLimits!Refill
      <3> QED
        BY <1>0, <2>1, <3>1, <3>2, <3>3 DEF LimitTypes, RequestLimits!Larger
    <2>4. crowded' \/ (LimitAlone /\ \A i \in Handlers \ {h} : reqPc[i] = "idle")
      BY <1>0, <1>a, <2>1 DEF LimitAlone
    <2>5. admitted' = usage' + queue' + dropped'
      BY <1>0, <1>a, <2>1
    <2>6. ASSUME LimitAlone, \A i \in Handlers \ {h} : reqPc[i] = "idle"
          PROVE  /\ admitted' <= TierLimit + 1 + missed' + dropped'
                 /\ cached' # -1 => admitted' <= cached' + 1 + missed' + dropped'
                 /\ reqPc'[h] = "increment" =>
                      seen'[h] < TierLimit /\ admitted' <= seen'[h] + 1 + missed' + dropped'
                 /\ reqPc'[h] = "refill" => admitted' <= seen'[h] + missed' + dropped'
                 /\ reqPc'[h] = "queue" =>
                      /\ admitted' <= TierLimit + missed' + dropped'
                      /\ cached' # -1 => admitted' <= cached' + missed' + dropped'
      BY <1>0, <1>a, <2>1, <2>6 DEF LimitAlone, RequestLimits!Larger
    <2> QED
      BY <1>b, <2>2, <2>3, <2>4, <2>5, <2>6
  <1>5. ASSUME NEW h \in Handlers, RequestLimits!QueueRecord(h) PROVE LimitInv'
    <2>1. /\ reqPc[h] = "queue" /\ reqPc'[h] = "idle" /\ admitted' = admitted + 1
          /\ \/ queue' = queue + 1 /\ dropped' = dropped
             \/ queue' = queue /\ dropped' = dropped + 1
          /\ UNCHANGED <<cached, usage, missed, crowded>>
      BY <1>0, <1>5 DEF RequestLimits!QueueRecord
    <2>2. \A i \in Handlers \ {h} : reqPc'[i] = reqPc[i] /\ seen'[i] = seen[i]
      BY <1>0, <1>5 DEF RequestLimits!QueueRecord
    <2>3. LimitTypes'
      <3>1. reqPc' \in [Handlers -> {"idle", "increment", "count", "refill", "queue"}]
        BY <1>0, <1>5 DEF RequestLimits!QueueRecord
      <3>2. seen' \in [Handlers -> Nat]
        BY <1>0, <1>5 DEF RequestLimits!QueueRecord
      <3>3. crowded' \in BOOLEAN
        BY <1>0, <1>5 DEF RequestLimits!QueueRecord
      <3> QED
        BY <1>0, <2>1, <3>1, <3>2, <3>3 DEF LimitTypes, RequestLimits!Larger
    <2>4. crowded' \/ (LimitAlone /\ \A i \in Handlers \ {h} : reqPc[i] = "idle")
      BY <1>0, <1>a, <2>1 DEF LimitAlone
    <2>5. admitted' = usage' + queue' + dropped'
      BY <1>0, <1>a, <2>1
    <2>6. ASSUME LimitAlone, \A i \in Handlers \ {h} : reqPc[i] = "idle"
          PROVE  /\ admitted' <= TierLimit + 1 + missed' + dropped'
                 /\ cached' # -1 => admitted' <= cached' + 1 + missed' + dropped'
                 /\ reqPc'[h] = "increment" =>
                      seen'[h] < TierLimit /\ admitted' <= seen'[h] + 1 + missed' + dropped'
                 /\ reqPc'[h] = "refill" => admitted' <= seen'[h] + missed' + dropped'
                 /\ reqPc'[h] = "queue" =>
                      /\ admitted' <= TierLimit + missed' + dropped'
                      /\ cached' # -1 => admitted' <= cached' + missed' + dropped'
      BY <1>0, <1>a, <2>1, <2>6 DEF LimitAlone, RequestLimits!Larger
    <2> QED
      BY <1>b, <2>2, <2>3, <2>4, <2>5, <2>6
  <1>6. ASSUME RequestLimits!FlushUsageQueue \/ RequestLimits!EntryExpires PROVE LimitInv'
    <2>1. /\ UNCHANGED <<reqPc, seen, admitted, missed, crowded>>
          /\ cached' \in {cached, -1}
          /\ usage' + queue' + dropped' = usage + queue + dropped
          /\ usage' \in Nat /\ queue' \in Nat /\ dropped' \in Nat /\ dropped' >= dropped
      BY <1>0, <1>6 DEF RequestLimits!FlushUsageQueue, RequestLimits!EntryExpires
    <2>2. LimitTypes'
      BY <1>0, <2>1 DEF LimitTypes
    <2>3. ASSUME LimitAlone PROVE LimitAlone'
      <3>1. \A x \in Int : admitted <= x + missed + dropped => admitted' <= x + missed' + dropped'
        <4>1. admitted' = admitted /\ missed' = missed /\ dropped' \in Nat /\ dropped' >= dropped
          BY <2>1
        <4>2. admitted \in Nat /\ missed \in Nat /\ dropped \in Nat
          BY <1>0
        <4>3. \A x \in Int, a, m, d, e \in Nat : e >= d /\ a <= x + m + d => a <= x + m + e
          OBVIOUS
        <4> QED
          BY <4>1, <4>2, <4>3
      <3>2. /\ TierLimit + 1 \in Int /\ TierLimit \in Int
            /\ cached \in Int /\ cached + 1 \in Int /\ (cached' # -1 => cached' = cached)
            /\ \A h \in Handlers : seen[h] \in Int /\ seen[h] + 1 \in Int
        BY <1>0, <2>1
      <3>3. UNCHANGED <<reqPc, seen>>
        BY <2>1
      <3> QED
        BY <2>3, <3>1, <3>2, <3>3 DEF LimitAlone
    <2> QED
      BY <1>0, <1>a, <2>1, <2>2, <2>3 DEF LimitInv
  <1> QED
    BY <1>1, <1>2, <1>3, <1>4, <1>5, <1>6 DEF RequestLimits!Next

\* However many accounts and requests there are, an administrator is left unless one
\* gives up his own rights or two requests cross, and requests that do not overlap
\* keep to the daily limit but for what the cache and the queue cannot know.
THEOREM AuthorizeIsSafe == Spec => []AuthorizeSafe
  <1>1. AdminInv /\ LimitInv /\ [Next]_<<part, userVars, boardVars, accountVars>>
          => AdminInv' /\ LimitInv'
    <2> SUFFICES ASSUME AdminInv, LimitInv, [Next]_<<part, userVars, boardVars, accountVars>>
                 PROVE  AdminInv' /\ LimitInv'
      OBVIOUS
    <2>1. /\ Administration!Next \/ UNCHANGED adminVars
          /\ RequestLimits!Next \/ UNCHANGED reqVars
      BY ServiceStep
    <2>2. ASSUME UNCHANGED adminVars PROVE AdminInv'
      BY <2>2
      DEF AdminInv, Administration!NoCall, Administration!AdministratorLeft,
          Administration!Authorized, adminVars
    <2>3. ASSUME UNCHANGED reqVars PROVE LimitInv'
      BY <2>3 DEF LimitInv, LimitTypes, LimitAlone, reqVars
    <2> QED
      BY <2>1, <2>2, <2>3, AdminStep, LimitStep
  <1>2. AdminInv /\ LimitInv => AuthorizeSafe
    BY DEF AdminInv, LimitInv, LimitAlone, AuthorizeSafe, RequestLimits!RequestsWithinLimit
  <1> QED
    BY AdminInit, LimitInit, <1>1, <1>2, PTL DEF Spec
-----------------------------------------------------------------------------
(* ProfilePictures *)

PictureTypes ==
  /\ second \in Nat \ {0} /\ url \in Nat /\ objects \subseteq Nat \ {0} /\ picFaults \in Nat
  /\ account \in BOOLEAN /\ spoiled \in BOOLEAN /\ overlapped \in BOOLEAN /\ clashed \in BOOLEAN
  /\ deletion \in {"none", "object", "commit"}
  /\ picPc \in [Handlers -> {"idle", "old", "file", "row"}]
  /\ old \in [Handlers -> Nat] /\ new \in [Handlers -> Nat]

\* A picture that is uploaded and not yet named is in the bucket, unless it went
\* with the account, and, but for a clash, no upload is about to delete it.
FreshPictures ==
  \A h \in Handlers : picPc[h] = "row" =>
    /\ new[h] \in objects \/ deletion = "commit" \/ ~account \/ spoiled \/ clashed
    /\ clashed \/ \A i \in Handlers : picPc[i] = "old" => old[i] # new[h]

\* What is in the bucket, and what the request in progress knows, as long as
\* nothing overlapped and nothing failed.
CleanBucket ==
  overlapped \/ spoiled \/ picFaults > 0 \/
    /\ \A h, i \in ProfilePictures!Busy : h = i
    /\ ProfilePictures!Busy # {} => deletion = "none"
    /\ ProfilePictures!Busy = {} => objects \subseteq {url}
    /\ deletion = "commit" => objects = {}
    /\ \A h \in ProfilePictures!Busy :
         /\ account
         /\ picPc[h] = "old" => objects \subseteq {url} /\ old[h] = url
         /\ picPc[h] = "file" => objects = {}
         /\ picPc[h] = "row" => objects \subseteq {new[h]}

PictureInv ==
  /\ PictureTypes /\ FreshPictures /\ CleanBucket
  /\ ~account => url = 0
  /\ ProfilePictures!PictureThere

\* There is no picture at the start.
LEMMA PictureInit == Init => PictureInv
  <1> SUFFICES ASSUME Init PROVE PictureInv
    OBVIOUS
  <1>0. ProfilePictures!Init
    BY DEF Init
  <1>1. /\ second = 1 /\ url = 0 /\ objects = {} /\ account = TRUE /\ picFaults = 0
        /\ spoiled = FALSE /\ overlapped = FALSE /\ clashed = FALSE /\ deletion = "none"
        /\ \A h \in Handlers : picPc[h] = "idle"
    BY <1>0 DEF ProfilePictures!Init
  <1>2. PictureTypes
    <2>1. picPc \in [Handlers -> {"idle", "old", "file", "row"}]
      BY <1>0 DEF ProfilePictures!Init
    <2>2. old \in [Handlers -> Nat] /\ new \in [Handlers -> Nat]
      BY <1>0 DEF ProfilePictures!Init
    <2>3. account \in BOOLEAN /\ spoiled \in BOOLEAN /\ overlapped \in BOOLEAN /\ clashed \in BOOLEAN
      BY <1>1
    <2> QED
      BY <1>1, <2>1, <2>2, <2>3 DEF PictureTypes
  <1>3. ProfilePictures!Busy = {}
    BY <1>1 DEF ProfilePictures!Busy
  <1>4. FreshPictures /\ CleanBucket /\ ProfilePictures!PictureThere
    BY <1>1, <1>3 DEF FreshPictures, CleanBucket, ProfilePictures!PictureThere
  <1> QED
    BY <1>1, <1>2, <1>4 DEF PictureInv

\* The types of the pictures' variables.
LEMMA PictureTypesStep ==
  ASSUME PictureTypes, ProfilePictures!Next
  PROVE  PictureTypes'
  <1> USE DEF ProfilePictures!Goto, ProfilePictures!Done, ProfilePictures!Fault,
              ProfilePictures!delete_from_storage, ProfilePictures!upload_to_storage,
              ProfilePictures!update_url
  <1>0. /\ second \in Nat \ {0} /\ url \in Nat /\ objects \subseteq Nat \ {0}
        /\ picFaults \in Nat /\ deletion \in {"none", "object", "commit"}
        /\ picPc \in [Handlers -> {"idle", "old", "file", "row"}]
        /\ old \in [Handlers -> Nat] /\ new \in [Handlers -> Nat]
    BY DEF PictureTypes
  <1>a. account \in BOOLEAN /\ spoiled \in BOOLEAN /\ overlapped \in BOOLEAN /\ clashed \in BOOLEAN
    BY DEF PictureTypes
  <1>1. ASSUME NEW h \in Handlers,
               \/ ProfilePictures!ReadUrl(h) \/ ProfilePictures!DeleteOldPicture(h)
               \/ ProfilePictures!RejectFile(h) \/ ProfilePictures!StoreFile(h)
               \/ ProfilePictures!WriteUrl(h)
        PROVE  PictureTypes'
    <2>1. picPc' \in [Handlers -> {"idle", "old", "file", "row"}]
      BY <1>0, <1>1
      DEF ProfilePictures!ReadUrl, ProfilePictures!DeleteOldPicture, ProfilePictures!RejectFile,
          ProfilePictures!StoreFile, ProfilePictures!WriteUrl
    <2>2. old' \in [Handlers -> Nat] /\ new' \in [Handlers -> Nat]
      BY <1>0, <1>1
      DEF ProfilePictures!ReadUrl, ProfilePictures!DeleteOldPicture, ProfilePictures!RejectFile,
          ProfilePictures!StoreFile, ProfilePictures!WriteUrl
    <2>3. account' \in BOOLEAN /\ spoiled' \in BOOLEAN /\ overlapped' \in BOOLEAN /\ clashed' \in BOOLEAN
      BY <1>a, <1>1
      DEF ProfilePictures!ReadUrl, ProfilePictures!DeleteOldPicture, ProfilePictures!RejectFile,
          ProfilePictures!StoreFile, ProfilePictures!WriteUrl
    <2>4. /\ second' = second /\ deletion' = deletion /\ url' \in Nat /\ picFaults' \in Nat
      BY <1>0, <1>1
      DEF ProfilePictures!ReadUrl, ProfilePictures!DeleteOldPicture, ProfilePictures!RejectFile,
          ProfilePictures!StoreFile, ProfilePictures!WriteUrl
    <2>5. objects' \subseteq objects \cup {second}
      BY <1>1
      DEF ProfilePictures!ReadUrl, ProfilePictures!DeleteOldPicture, ProfilePictures!RejectFile,
          ProfilePictures!StoreFile, ProfilePictures!WriteUrl
    <2>6. objects' \subseteq Nat \ {0}
      BY <1>0, <2>5
    <2> QED
      BY <1>0, <2>1, <2>2, <2>3, <2>4, <2>6 DEF PictureTypes
  <1>2. CASE \/ ProfilePictures!DeleteRow \/ ProfilePictures!DeletePicture
             \/ ProfilePictures!CommitDeletion \/ ProfilePictures!Tick
    <2>1. UNCHANGED <<picPc, old, new>> /\ objects' \subseteq objects
      BY <1>2 DEF ProfilePictures!DeleteRow, ProfilePictures!DeletePicture,
                  ProfilePictures!CommitDeletion, ProfilePictures!Tick
    <2>2. account' \in BOOLEAN /\ spoiled' \in BOOLEAN /\ overlapped' \in BOOLEAN /\ clashed' \in BOOLEAN
      BY <1>a, <1>2 DEF ProfilePictures!DeleteRow, ProfilePictures!DeletePicture,
                        ProfilePictures!CommitDeletion, ProfilePictures!Tick
    <2>3. /\ second' \in Nat \ {0} /\ url' \in Nat /\ picFaults' \in Nat
          /\ deletion' \in {"none", "object", "commit"}
      BY <1>0, <1>2 DEF ProfilePictures!DeleteRow, ProfilePictures!DeletePicture,
                        ProfilePictures!CommitDeletion, ProfilePictures!Tick
    <2> QED
      BY <1>0, <2>1, <2>2, <2>3 DEF PictureTypes
  <1> QED
    BY <1>1, <1>2 DEF ProfilePictures!Next

\* The bucket while nothing overlaps and nothing fails.
LEMMA CleanStep ==
  ASSUME PictureInv, ProfilePictures!Next
  PROVE  CleanBucket'
  <1> USE DEF ProfilePictures!Goto, ProfilePictures!Done, ProfilePictures!Fault,
              ProfilePictures!delete_from_storage, ProfilePictures!upload_to_storage,
              ProfilePictures!update_url
  <1> SUFFICES ASSUME ~overlapped', ~spoiled', ~(picFaults' > 0)
               PROVE  CleanBucket'
    BY DEF CleanBucket
  <1>0. /\ url \in Nat /\ objects \subseteq Nat \ {0} /\ picFaults \in Nat
        /\ picPc \in [Handlers -> {"idle", "old", "file", "row"}]
        /\ old \in [Handlers -> Nat] /\ new \in [Handlers -> Nat]
    BY DEF PictureInv, PictureTypes
  <1>b. CleanBucket
    BY DEF PictureInv
  <1>1. ASSUME NEW h \in Handlers, ProfilePictures!ReadUrl(h) PROVE CleanBucket'
    <2>1. /\ account /\ old'[h] = url /\ picPc'[h] = IF url = 0 THEN "file" ELSE "old"
          /\ ~overlapped /\ ProfilePictures!Busy = {} /\ deletion = "none"
          /\ UNCHANGED <<url, objects, account, deletion, spoiled, picFaults>>
      BY <1>0, <1>1 DEF ProfilePictures!ReadUrl
    <2>2. objects \subseteq {url}
      BY <1>b, <2>1 DEF CleanBucket
    <2>3. url = 0 => objects = {}
      BY <1>0, <2>2
    <2>4. \A i \in Handlers \ {h} : picPc'[i] = picPc[i]
      BY <1>0, <1>1 DEF ProfilePictures!ReadUrl
    <2>5. ProfilePictures!Busy' \subseteq {h} /\ h \in ProfilePictures!Busy'
      BY <2>1, <2>4 DEF ProfilePictures!Busy
    <2> QED
      BY <2>1, <2>2, <2>3, <2>5 DEF CleanBucket
  <1>2. ASSUME NEW h \in Handlers,
               \/ ProfilePictures!DeleteOldPicture(h) \/ ProfilePictures!StoreFile(h)
               \/ ProfilePictures!WriteUrl(h)
        PROVE  CleanBucket'
    <2>1. /\ picPc[h] # "idle" /\ UNCHANGED <<account, deletion, overlapped>>
          /\ \A i \in Handlers \ {h} : picPc'[i] = picPc[i]
      BY <1>0, <1>2
      DEF ProfilePictures!DeleteOldPicture, ProfilePictures!StoreFile, ProfilePictures!WriteUrl
    <2>2. /\ \/ picPc[h] = "old" /\ picPc'[h] = "file" /\ objects' = objects \ {old[h]} /\ url' = url
             \/ /\ picPc[h] = "file" /\ picPc'[h] = "row" /\ new'[h] = second /\ url' = url
                /\ objects' = objects \cup {second}
             \/ /\ picPc[h] = "row" /\ picPc'[h] = "idle" /\ objects' = objects
                /\ url' = IF account THEN new[h] ELSE url
          /\ UNCHANGED <<spoiled, picFaults>>
      BY <1>0, <1>2
      DEF ProfilePictures!DeleteOldPicture, ProfilePictures!StoreFile, ProfilePictures!WriteUrl
    <2>3. /\ ~overlapped /\ ~spoiled /\ ~(picFaults > 0) /\ h \in ProfilePictures!Busy
      BY <2>1, <2>2 DEF ProfilePictures!Busy
    <2>4. /\ \A i, j \in ProfilePictures!Busy : i = j
          /\ account /\ deletion = "none"
          /\ picPc[h] = "old" => objects \subseteq {url} /\ old[h] = url
          /\ picPc[h] = "file" => objects = {}
          /\ picPc[h] = "row" => objects \subseteq {new[h]}
      BY <1>b, <2>3 DEF CleanBucket
    <2>5. ProfilePictures!Busy' \subseteq {h}
      BY <2>1, <2>3, <2>4 DEF ProfilePictures!Busy
    <2>6. /\ picPc'[h] = "file" => objects' = {}
          /\ picPc'[h] = "row" => objects' \subseteq {new'[h]}
          /\ picPc'[h] = "idle" => objects' \subseteq {url'}
          /\ picPc'[h] # "old"
      BY <2>2, <2>4
    <2>7. ProfilePictures!Busy' = {} => picPc'[h] = "idle"
      BY DEF ProfilePictures!Busy
    <2> QED
      BY <2>1, <2>4, <2>5, <2>6, <2>7 DEF CleanBucket
  <1>3. ASSUME NEW h \in Handlers, ProfilePictures!RejectFile(h) PROVE CleanBucket'
    BY <1>3 DEF ProfilePictures!RejectFile
  <1>4. CASE ProfilePictures!DeleteRow
    <2>1. /\ ~overlapped /\ ProfilePictures!Busy = {} /\ ~spoiled /\ ~(picFaults > 0)
          /\ UNCHANGED <<url, objects, picPc>> /\ deletion' = IF url = 0 THEN "commit" ELSE "object"
      BY <1>4 DEF ProfilePictures!DeleteRow
    <2>2. objects \subseteq {url} /\ ProfilePictures!Busy' = {}
      BY <1>b, <2>1 DEF CleanBucket, ProfilePictures!Busy
    <2>3. url = 0 => objects = {}
      BY <1>0, <2>2
    <2> QED
      BY <2>1, <2>2, <2>3 DEF CleanBucket
  <1>5. CASE ProfilePictures!DeletePicture \/ ProfilePictures!CommitDeletion
    <2>1. /\ ~overlapped /\ ~spoiled /\ ~(picFaults > 0) /\ deletion # "none"
          /\ \/ deletion = "object" /\ objects' = objects \ {url} /\ url' = url
             \/ deletion = "commit" /\ objects' = objects /\ deletion' = "none"
          /\ UNCHANGED picPc
      BY <1>0, <1>5 DEF ProfilePictures!DeletePicture, ProfilePictures!CommitDeletion
    <2>2. ProfilePictures!Busy = {} /\ ProfilePictures!Busy' = {} /\ objects \subseteq {url}
          /\ (deletion = "commit" => objects = {})
      BY <1>b, <2>1 DEF CleanBucket, ProfilePictures!Busy
    <2>3. objects' = {}
      BY <2>1, <2>2
    <2> QED
      BY <2>2, <2>3 DEF CleanBucket
  <1>6. CASE ProfilePictures!Tick
    BY <1>b, <1>6 DEF ProfilePictures!Tick, CleanBucket, ProfilePictures!Busy
  <1> QED
    BY <1>1, <1>2, <1>3, <1>4, <1>5, <1>6 DEF ProfilePictures!Next

\* An upload deletes no picture that another has stored and not yet named, but
\* for clashes; so what it writes into the row is there.
LEMMA PictureStep ==
  ASSUME PictureInv, ProfilePictures!Next
  PROVE  PictureInv'
  <1> USE DEF ProfilePictures!Goto, ProfilePictures!Done, ProfilePictures!Fault,
              ProfilePictures!delete_from_storage, ProfilePictures!upload_to_storage,
              ProfilePictures!update_url
  <1>0. /\ picPc \in [Handlers -> {"idle", "old", "file", "row"}]
        /\ old \in [Handlers -> Nat] /\ new \in [Handlers -> Nat]
    BY DEF PictureInv, PictureTypes
  <1>a. account \in BOOLEAN /\ spoiled \in BOOLEAN /\ overlapped \in BOOLEAN /\ clashed \in BOOLEAN
    BY DEF PictureInv, PictureTypes
  <1>b. FreshPictures /\ (~account => url = 0) /\ ProfilePictures!PictureThere
    BY DEF PictureInv
  <1>t. PictureTypes' /\ CleanBucket'
    BY PictureTypesStep, CleanStep DEF PictureInv
  <1> DEFINE Rest == FreshPictures /\ (~account => url = 0) /\ ProfilePictures!PictureThere
  <1>1. ASSUME NEW h \in Handlers, ProfilePictures!ReadUrl(h) PROVE Rest'
    <2>1. /\ picPc[h] = "idle" /\ picPc'[h] \in {"file", "old"} /\ old'[h] = url
          /\ clashed' = (clashed \/ \E i \in Handlers : picPc[i] = "row" /\ new[i] = url)
          /\ UNCHANGED <<url, objects, account, deletion, new, spoiled>>
      BY <1>0, <1>1 DEF ProfilePictures!ReadUrl
    <2>2. \A i \in Handlers \ {h} : picPc'[i] = picPc[i] /\ old'[i] = old[i]
      BY <1>0, <1>1 DEF ProfilePictures!ReadUrl
    <2>3. FreshPictures'
      BY <1>a, <1>b, <2>1, <2>2 DEF FreshPictures
    <2>4. ProfilePictures!PictureThere'
      BY <1>a, <1>b, <2>1, <2>2 DEF ProfilePictures!PictureThere, ProfilePictures!Busy
    <2> QED
      BY <1>b, <2>1, <2>3, <2>4
  <1>2. ASSUME NEW h \in Handlers, ProfilePictures!DeleteOldPicture(h) PROVE Rest'
    <2>1. /\ picPc[h] = "old" /\ picPc'[h] = "file"
          /\ objects' = objects \ {old[h]} \/ objects' = objects
          /\ UNCHANGED <<url, account, deletion, old, new, spoiled, clashed>>
      BY <1>0, <1>2 DEF ProfilePictures!DeleteOldPicture
    <2>2. \A i \in Handlers \ {h} : picPc'[i] = picPc[i]
      BY <1>0, <1>2 DEF ProfilePictures!DeleteOldPicture
    <2>3. FreshPictures'
      BY <1>b, <2>1, <2>2 DEF FreshPictures
    <2>4. ProfilePictures!PictureThere'
      BY <1>b, <2>1, <2>2 DEF ProfilePictures!PictureThere, ProfilePictures!Busy
    <2> QED
      BY <1>b, <2>1, <2>3, <2>4
  <1>3. ASSUME NEW h \in Handlers, ProfilePictures!RejectFile(h) PROVE Rest'
    <2>1. /\ spoiled' /\ picPc'[h] = "idle"
          /\ UNCHANGED <<url, objects, account, deletion, clashed>>
      BY <1>0, <1>3 DEF ProfilePictures!RejectFile
    <2>2. \A i \in Handlers \ {h} : picPc'[i] = picPc[i] /\ old'[i] = old[i] /\ new'[i] = new[i]
      BY <1>0, <1>3 DEF ProfilePictures!RejectFile
    <2>3. FreshPictures'
      BY <1>b, <2>1, <2>2 DEF FreshPictures
    <2> QED
      BY <1>b, <2>1, <2>3 DEF ProfilePictures!PictureThere
  <1>4. ASSUME NEW h \in Handlers, ProfilePictures!StoreFile(h) PROVE Rest'
    <2>1. /\ picPc[h] = "file"
          /\ \/ /\ objects' = objects \cup {second} /\ new'[h] = second
                /\ old'[h] = old[h] /\ picPc'[h] = "row" /\ UNCHANGED spoiled
                /\ clashed' = (clashed \/ \E i \in Handlers : picPc[i] = "old" /\ old[i] = second)
             \/ objects' = objects /\ picPc'[h] = "idle" /\ spoiled' /\ clashed' = clashed
          /\ UNCHANGED <<url, account, deletion>>
      BY <1>0, <1>4 DEF ProfilePictures!StoreFile
    <2>2. \A i \in Handlers \ {h} : picPc'[i] = picPc[i] /\ old'[i] = old[i] /\ new'[i] = new[i]
      BY <1>0, <1>4 DEF ProfilePictures!StoreFile
    <2>3. FreshPictures'
      BY <1>a, <1>b, <2>1, <2>2 DEF FreshPictures
    <2>4. ProfilePictures!PictureThere'
      <3>1. CASE spoiled'
        BY <3>1 DEF ProfilePictures!PictureThere
      <3>2. CASE ~spoiled'
        BY <1>a, <1>b, <2>1, <2>2, <3>2 DEF ProfilePictures!PictureThere, ProfilePictures!Busy
      <3> QED
        BY <3>1, <3>2
    <2> QED
      BY <1>b, <2>1, <2>3, <2>4
  <1>5. ASSUME NEW h \in Handlers, ProfilePictures!WriteUrl(h) PROVE Rest'
    <2>1. /\ picPc[h] = "row" /\ picPc'[h] = "idle" /\ deletion = "none"
          /\ \/ url' = (IF account THEN new[h] ELSE url) /\ spoiled' = spoiled
             \/ url' = url /\ spoiled'
          /\ UNCHANGED <<objects, account, deletion, clashed>>
      BY <1>0, <1>5 DEF ProfilePictures!WriteUrl
    <2>2. \A i \in Handlers \ {h} : picPc'[i] = picPc[i] /\ old'[i] = old[i] /\ new'[i] = new[i]
      BY <1>0, <1>5 DEF ProfilePictures!WriteUrl
    <2>3. FreshPictures'
      BY <1>a, <1>b, <2>1, <2>2 DEF FreshPictures
    <2>4. ~account' => url' = 0
      BY <1>b, <2>1
    <2>5. ProfilePictures!PictureThere'
      <3>1. CASE spoiled' \/ ~account
        BY <2>1, <2>4, <3>1 DEF ProfilePictures!PictureThere
      <3>2. CASE account /\ url' = new[h] /\ ~spoiled'
        <4>1. new[h] \in objects \/ clashed
          BY <1>a, <1>b, <2>1, <3>2 DEF FreshPictures
        <4> QED
          BY <2>1, <3>2, <4>1 DEF ProfilePictures!PictureThere
      <3> QED
        BY <1>a, <2>1, <3>1, <3>2
    <2> QED
      BY <2>3, <2>4, <2>5
  <1>6. ASSUME ProfilePictures!DeleteRow \/ ProfilePictures!Tick PROVE Rest'
    <2>1. /\ deletion' = deletion \/ deletion = "none"
          /\ UNCHANGED <<url, objects, account, picPc, old, new, spoiled, clashed>>
      BY <1>6 DEF ProfilePictures!DeleteRow, ProfilePictures!Tick
    <2> QED
      BY <1>b, <2>1 DEF FreshPictures, ProfilePictures!PictureThere, ProfilePictures!Busy
  <1>7. ASSUME ProfilePictures!DeletePicture PROVE Rest'
    <2>1. /\ deletion = "object"
          /\ \/ objects' = objects \ {url} /\ deletion' = "commit"
             \/ objects' = objects /\ deletion' = "none"
          /\ UNCHANGED <<url, account, picPc, old, new, spoiled, clashed>>
      BY <1>7 DEF ProfilePictures!DeletePicture
    <2> QED
      BY <1>b, <2>1 DEF FreshPictures, ProfilePictures!PictureThere, ProfilePictures!Busy
  <1>8. ASSUME ProfilePictures!CommitDeletion PROVE Rest'
    <2>1. /\ deletion = "commit"
          /\ \/ ~account' /\ url' = 0 /\ spoiled' = spoiled
             \/ spoiled' /\ UNCHANGED <<account, url>>
          /\ UNCHANGED <<objects, picPc, old, new, clashed>>
      BY <1>8 DEF ProfilePictures!CommitDeletion
    <2> QED
      BY <1>b, <2>1 DEF FreshPictures, ProfilePictures!PictureThere, ProfilePictures!Busy
  <1>9. Rest'
    BY <1>1, <1>2, <1>3, <1>4, <1>5, <1>6, <1>7, <1>8 DEF ProfilePictures!Next
  <1> QED
    BY <1>t, <1>9 DEF PictureInv

\* However many uploads overlap with each other and with the deletion of the account,
\* the row names a picture that is there, unless one of them is replacing it or has
\* ended half-way, the account is about to go, or two uploads of one second have
\* clashed on a key; and undisturbed uploads leave no other picture behind.
THEOREM PicturesAreSafe == Spec => []PicturesSafe
  <1>1. PictureInv /\ [Next]_<<part, userVars, boardVars, accountVars>> => PictureInv'
    <2> SUFFICES ASSUME PictureInv, [Next]_<<part, userVars, boardVars, accountVars>>
                 PROVE  PictureInv'
      OBVIOUS
    <2>1. ProfilePictures!Next \/ UNCHANGED picVars
      BY ServiceStep
    <2>2. CASE UNCHANGED picVars
      BY <2>2
      DEF PictureInv, PictureTypes, FreshPictures, CleanBucket, ProfilePictures!PictureThere,
          ProfilePictures!Busy, picVars
    <2> QED
      BY <2>1, <2>2, PictureStep
  <1>2. PictureInv => PicturesSafe
    BY DEF PictureInv, CleanBucket, PicturesSafe, ProfilePictures!NoPictureLeft
  <1> QED
    BY PictureInit, <1>1, <1>2, PTL DEF Spec
-----------------------------------------------------------------------------
(* BoardAccess *)

\* The requests that can have been let in.
AccessReqs ==
  [kind : {"none", "add", "remove", "invite", "uninvite", "accept"},
   who : BoardAccess!Users, target : BoardAccess!Users,
   value : BoardAccess!Roles \cup InviteRoles \cup {"none"}]

\* A request on a member that nothing has overtaken was let in under the rule that
\* still holds of its target.
StillAllowed ==
  \A h \in Handlers :
    aReq[h].kind \in {"add", "remove", "accept"} /\ h \notin crossed \cup misread =>
      aReq[h].who \in {Creator, Admin, aReq[h].target} \/ role[aReq[h].target] # "owner"

AccessInv ==
  /\ role \in [BoardAccess!Users -> BoardAccess!Roles \cup {"none"}]
  /\ aReq \in [Handlers -> AccessReqs]
  /\ invites \subseteq {"viewer", "editor"}
  /\ \A h \in Handlers :
       /\ aReq[h].kind \in {"add", "accept"} => aReq[h].value \in BoardAccess!Roles
       /\ aReq[h].kind = "invite" => aReq[h].value \in {"viewer", "editor"}
  /\ StillAllowed

\* Nobody has asked for anything at the start.
LEMMA AccessInit == Init => AccessInv
  <1> SUFFICES ASSUME Init PROVE AccessInv
    OBVIOUS
  <1>0. BoardAccess!Init
    BY DEF Init
  <1>1. BoardAccess!NoAccessReq \in AccessReqs /\ BoardAccess!NoAccessReq.kind = "none"
    BY DEF BoardAccess!NoAccessReq, AccessReqs, BoardAccess!Users
  <1>2. /\ aReq \in [Handlers -> AccessReqs] /\ \A h \in Handlers : aReq[h].kind = "none"
        /\ invites = {}
    BY <1>0, <1>1 DEF BoardAccess!Init
  <1>3. role \in [BoardAccess!Users -> BoardAccess!Roles \cup {"none"}]
    BY <1>0 DEF BoardAccess!Init, BoardAccess!Roles
  <1> QED
    BY <1>2, <1>3 DEF AccessInv, StillAllowed

\* What is kept of a request that is let in.
LEMMA PendingShape ==
  ASSUME NEW r \in BoardAccess!Requests
  PROVE  /\ BoardAccess!Pending(r) \in AccessReqs
         /\ BoardAccess!Pending(r).kind = r.kind /\ BoardAccess!Pending(r).value = r.value
         /\ r.kind \in {"add", "remove", "invite", "uninvite", "accept"}
         /\ r.kind \in {"add", "remove", "accept"} => BoardAccess!Pending(r) = r
         /\ r.kind = "add" => r.value \in BoardAccess!Roles
  <1>1. /\ r \in AccessReqs /\ r.kind # "none"
        /\ r.kind = "add" => r.value \in BoardAccess!Roles
    <2>1. CASE r \in [kind : {"add"}, who : BoardAccess!Users, target : BoardAccess!Members,
                      value : BoardAccess!Roles]
      BY <2>1 DEF AccessReqs, BoardAccess!Members, BoardAccess!Users
    <2>2. CASE r \in [kind : {"remove"}, who : BoardAccess!Users, target : BoardAccess!Members,
                      value : {"none"}]
      BY <2>2 DEF AccessReqs, BoardAccess!Members, BoardAccess!Users
    <2>3. ASSUME NEW k \in {"invite", "uninvite", "accept"}, NEW u \in BoardAccess!Users,
                 NEW x \in InviteRoles, r = [kind |-> k, who |-> u, target |-> u, value |-> x]
          PROVE  r \in AccessReqs /\ r.kind \notin {"none", "add"}
      BY <2>3 DEF AccessReqs
    <2> QED
      BY <2>1, <2>2, <2>3 DEF BoardAccess!Requests, BoardAccess!Members, BoardAccess!Users
  <1>2. CASE r.kind \in {"add", "remove", "accept"}
    BY <1>1, <1>2 DEF BoardAccess!Pending, AccessReqs
  <1>3. CASE r.kind \notin {"add", "remove", "accept"}
    <2>1. BoardAccess!Pending(r) = [r EXCEPT !.who = Admin, !.target = Admin]
      BY <1>3 DEF BoardAccess!Pending
    <2>2. Admin \in BoardAccess!Users
      BY DEF BoardAccess!Users
    <2> QED
      BY <1>1, <1>3, <2>1, <2>2 DEF AccessReqs
  <1> QED
    BY <1>2, <1>3

\* A handler takes the request r.
LEMMA CheckStep ==
  ASSUME AccessInv, NEW h \in Handlers, NEW r \in BoardAccess!Requests,
         aReq' = [aReq EXCEPT ![h] = BoardAccess!Pending(r)],
         UNCHANGED <<role, invites, crossed>>, misread \subseteq misread',
         BoardAccess!Allowed(r) \/ (h \in misread' /\ r.kind \in {"add", "remove"})
  PROVE  AccessInv'
  <1>0. /\ role \in [BoardAccess!Users -> BoardAccess!Roles \cup {"none"}]
        /\ aReq \in [Handlers -> AccessReqs] /\ invites \subseteq {"viewer", "editor"}
    BY DEF AccessInv
  <1> DEFINE p == BoardAccess!Pending(r)
  <1>1. /\ p \in AccessReqs /\ p.kind = r.kind /\ p.value = r.value
        /\ r.kind \in {"add", "remove", "invite", "uninvite", "accept"}
        /\ r.kind \in {"add", "remove", "accept"} => p = r
        /\ r.kind = "add" => r.value \in BoardAccess!Roles
    BY PendingShape
  <1>2. r.kind = "accept" => r.value \in BoardAccess!Roles /\ r.who = r.target
    BY <1>0 DEF BoardAccess!Allowed, BoardAccess!accept_invite, BoardAccess!Roles
  <1>3. r.kind = "invite" => r.value \in {"viewer", "editor"}
    BY DEF BoardAccess!Allowed, BoardAccess!create_invite_link
  <1>4. r.kind \in {"add", "remove"} =>
          h \in misread' \/ r.who \in {Creator, Admin, r.target} \/ role[r.target] # "owner"
    BY DEF BoardAccess!Allowed, BoardAccess!add_board_member, BoardAccess!remove_board_member,
           BoardAccess!MayTouch
  <1> HIDE DEF p
  <1>5. /\ aReq' \in [Handlers -> AccessReqs]
        /\ \A i \in Handlers : aReq'[i] = IF i = h THEN p ELSE aReq[i]
    BY <1>0, <1>1 DEF p
  <1>6. \A i \in Handlers :
          /\ aReq'[i].kind \in {"add", "accept"} => aReq'[i].value \in BoardAccess!Roles
          /\ aReq'[i].kind = "invite" => aReq'[i].value \in {"viewer", "editor"}
    BY <1>1, <1>2, <1>3, <1>5 DEF AccessInv
  <1>7. StillAllowed'
    <2> SUFFICES ASSUME NEW i \in Handlers, aReq'[i].kind \in {"add", "remove", "accept"},
                        i \notin crossed' \cup misread'
                 PROVE  aReq'[i].who \in {Creator, Admin, aReq'[i].target}
                          \/ role'[aReq'[i].target] # "owner"
      BY DEF StillAllowed
    <2>1. CASE i = h
      BY <1>1, <1>2, <1>4, <1>5, <2>1
    <2>2. CASE i # h
      BY <1>5, <2>2 DEF AccessInv, StillAllowed
    <2> QED
      BY <2>1, <2>2
  <1>8. BoardAccess!Users' = BoardAccess!Users /\ BoardAccess!Roles' = BoardAccess!Roles
        /\ AccessReqs' = AccessReqs
    BY DEF BoardAccess!Users, BoardAccess!Roles, AccessReqs
  <1> QED
    BY <1>0, <1>5, <1>6, <1>7, <1>8 DEF AccessInv

\* A request is carried out: the role that changes is the one of its target.
LEMMA ApplyShape ==
  ASSUME AccessInv, NEW h \in Handlers, BoardAccess!Apply(h)
  PROVE  /\ role' \in [BoardAccess!Users -> BoardAccess!Roles \cup {"none"}]
         /\ invites' \subseteq {"viewer", "editor"}
         /\ aReq[h].target \in BoardAccess!Users
         /\ \A u \in BoardAccess!Users \ {aReq[h].target} : role'[u] = role[u]
         /\ aReq[h].kind \in {"invite", "uninvite"} => role' = role
         /\ aReq[h].kind \in {"add", "remove", "invite", "uninvite", "accept"}
         /\ aReq' = [aReq EXCEPT ![h] = BoardAccess!NoAccessReq]
         /\ misread' = misread \ {h}
         /\ \A i \in Handlers \ {h} :
              /\ aReq[i].kind # "none" /\ aReq[i].target = aReq[h].target /\ role' # role => i \in crossed'
              /\ i \in crossed => i \in crossed'
  <1>0. /\ role \in [BoardAccess!Users -> BoardAccess!Roles \cup {"none"}]
        /\ aReq \in [Handlers -> AccessReqs] /\ invites \subseteq {"viewer", "editor"}
        /\ aReq[h].kind \in {"add", "accept"} => aReq[h].value \in BoardAccess!Roles
        /\ aReq[h].kind = "invite" => aReq[h].value \in {"viewer", "editor"}
    BY DEF AccessInv
  <1>1. /\ aReq[h].kind # "none" /\ aReq' = [aReq EXCEPT ![h] = BoardAccess!NoAccessReq]
        /\ role' = BoardAccess!MemberRows(aReq[h]) /\ invites' = BoardAccess!InviteRows(aReq[h])
        /\ crossed' = (IF role' # role
                       THEN crossed \cup {i \in Handlers \ {h} : aReq[i].kind # "none"
                                                            /\ aReq[i].target = aReq[h].target}
                       ELSE crossed) \ {h}
        /\ misread' = misread \ {h}
    BY DEF BoardAccess!Apply
  <1>2. /\ aReq[h].kind \in {"add", "remove", "invite", "uninvite", "accept"}
        /\ aReq[h].target \in BoardAccess!Users
    BY <1>0, <1>1 DEF AccessReqs
  <1>3. /\ aReq[h].kind \in {"add", "accept"} => role' = [role EXCEPT ![aReq[h].target] = aReq[h].value]
        /\ aReq[h].kind = "remove" => role' = [role EXCEPT ![aReq[h].target] = "none"]
        /\ aReq[h].kind \in {"invite", "uninvite"} => role' = role
    BY <1>1 DEF BoardAccess!MemberRows
  <1>4. /\ aReq[h].kind = "invite" => invites' = invites \cup {aReq[h].value}
        /\ aReq[h].kind # "invite" => invites' \subseteq invites
    BY <1>1 DEF BoardAccess!InviteRows
  <1>5. role' \in [BoardAccess!Users -> BoardAccess!Roles \cup {"none"}]
    BY <1>0, <1>2, <1>3
  <1>6. \A u \in BoardAccess!Users \ {aReq[h].target} : role'[u] = role[u]
    BY <1>0, <1>2, <1>3
  <1>7. \A i \in Handlers \ {h} :
          /\ aReq[i].kind # "none" /\ aReq[i].target = aReq[h].target /\ role' # role => i \in crossed'
          /\ i \in crossed => i \in crossed'
    BY <1>1
  <1> QED
    BY <1>0, <1>1, <1>2, <1>3, <1>4, <1>5, <1>6, <1>7

\* What a request was let in to do is done, by whatever rule holds by then.
LEMMA ApplyStep ==
  ASSUME AccessInv, NEW h \in Handlers, BoardAccess!Apply(h)
  PROVE  AccessInv'
  <1>0. aReq \in [Handlers -> AccessReqs] /\ StillAllowed
    BY DEF AccessInv
  <1>1. /\ role' \in [BoardAccess!Users -> BoardAccess!Roles \cup {"none"}]
        /\ invites' \subseteq {"viewer", "editor"}
        /\ aReq[h].target \in BoardAccess!Users
        /\ \A u \in BoardAccess!Users \ {aReq[h].target} : role'[u] = role[u]
        /\ aReq' = [aReq EXCEPT ![h] = BoardAccess!NoAccessReq]
        /\ misread' = misread \ {h}
        /\ \A i \in Handlers \ {h} :
             /\ aReq[i].kind # "none" /\ aReq[i].target = aReq[h].target /\ role' # role => i \in crossed'
             /\ i \in crossed => i \in crossed'
    BY ApplyShape
  <1>2. BoardAccess!NoAccessReq \in AccessReqs /\ BoardAccess!NoAccessReq.kind = "none"
    BY DEF BoardAccess!NoAccessReq, AccessReqs, BoardAccess!Users
  <1>3. /\ aReq' \in [Handlers -> AccessReqs] /\ aReq'[h].kind = "none"
        /\ \A i \in Handlers \ {h} : aReq'[i] = aReq[i]
    BY <1>0, <1>1, <1>2
  <1>4. \A i \in Handlers :
          /\ aReq'[i].kind \in {"add", "accept"} => aReq'[i].value \in BoardAccess!Roles
          /\ aReq'[i].kind = "invite" => aReq'[i].value \in {"viewer", "editor"}
    BY <1>3 DEF AccessInv
  <1>5. StillAllowed'
    <2> SUFFICES ASSUME NEW i \in Handlers, aReq'[i].kind \in {"add", "remove", "accept"},
                        i \notin crossed' \cup misread'
                 PROVE  aReq'[i].who \in {Creator, Admin, aReq'[i].target}
                          \/ role'[aReq'[i].target] # "owner"
      BY DEF StillAllowed
    <2>1. i \in Handlers \ {h} /\ aReq'[i] = aReq[i] /\ i \notin crossed \cup misread
      BY <1>1, <1>3
    <2>2. aReq[i].target \in BoardAccess!Users
      BY <1>0 DEF AccessReqs
    <2>3. role'[aReq[i].target] = role[aReq[i].target]
      BY <1>1, <2>1, <2>2
    <2> QED
      BY <1>0, <2>1, <2>3 DEF StillAllowed
  <1>6. /\ BoardAccess!Users' = BoardAccess!Users /\ BoardAccess!Roles' = BoardAccess!Roles
        /\ AccessReqs' = AccessReqs
    BY DEF BoardAccess!Users, BoardAccess!Roles, AccessReqs
  <1> QED
    BY <1>1, <1>3, <1>4, <1>5, <1>6 DEF AccessInv

\* Every step of the boards' members, and every step elsewhere, keeps AccessInv.
LEMMA AccessStep ==
  ASSUME AccessInv, BoardAccess!Next \/ UNCHANGED accessVars
  PROVE  AccessInv'
  <1>1. CASE UNCHANGED <<role, invites, aReq, crossed, misread>>
    BY <1>1
    DEF AccessInv, StillAllowed, AccessReqs, BoardAccess!Users, BoardAccess!Roles
  <1>2. CASE BoardAccess!UpdateBoard
    BY <1>1, <1>2 DEF BoardAccess!UpdateBoard
  <1>3. ASSUME NEW h \in Handlers, NEW r \in BoardAccess!Requests,
               BoardAccess!Check(h, r) \/ BoardAccess!CheckMisread(h, r)
        PROVE  AccessInv'
    <2>1. CASE BoardAccess!Check(h, r)
      BY <2>1, CheckStep DEF BoardAccess!Check
    <2>2. CASE BoardAccess!CheckMisread(h, r)
      BY <2>2, CheckStep DEF BoardAccess!CheckMisread
    <2> QED
      BY <1>3, <2>1, <2>2
  <1>4. ASSUME NEW h \in Handlers, BoardAccess!Apply(h) PROVE AccessInv'
    BY <1>4, ApplyStep
  <1> QED
    BY <1>1, <1>2, <1>3, <1>4 DEF BoardAccess!Next, accessVars

\* However many requests to a board's members overlap, an owner loses the role by the
\* creator, an administrator or his own doing, unless he became an owner after the
\* check or the read of his role failed.
THEOREM OwnersAreProtected == Spec => OwnersProtected
  <1> DEFINE Safe ==
        \A u \in BoardAccess!Users, h \in Handlers :
          role[u] = "owner" /\ role'[u] # "owner" /\ aReq[h] # aReq'[h] =>
            aReq[h].who \in {Creator, Admin, u} \/ h \in crossed \cup misread
  <1>1. AccessInv /\ [Next]_<<part, userVars, boardVars, accountVars>> => AccessInv'
    BY ServiceStep, AccessStep
  <1>2. AccessInv /\ [Next]_<<part, userVars, boardVars, accountVars>> => [Safe]_accessVars
    <2> SUFFICES ASSUME AccessInv, [Next]_<<part, userVars, boardVars, accountVars>>,
                        ~UNCHANGED accessVars,
                        NEW u \in BoardAccess!Users, NEW h \in Handlers,
                        role[u] = "owner", role'[u] # "owner", aReq[h] # aReq'[h],
                        h \notin crossed \cup misread
                 PROVE  aReq[h].who \in {Creator, Admin, u}
      OBVIOUS
    <2>1. BoardAccess!Next
      BY ServiceStep
    <2>2. PICK i \in Handlers : BoardAccess!Apply(i)
      BY <2>1
      DEF BoardAccess!Next, BoardAccess!UpdateBoard, BoardAccess!Check, BoardAccess!CheckMisread
    <2>3. aReq \in [Handlers -> AccessReqs] /\ StillAllowed
      BY DEF AccessInv
    <2>4. /\ \A x \in BoardAccess!Users \ {aReq[i].target} : role'[x] = role[x]
          /\ aReq[i].kind \in {"invite", "uninvite"} => role' = role
          /\ aReq[i].kind \in {"add", "remove", "invite", "uninvite", "accept"}
          /\ aReq' = [aReq EXCEPT ![i] = BoardAccess!NoAccessReq]
      BY <2>2, ApplyShape
    <2>5. i = h
      BY <2>3, <2>4
    <2>6. u = aReq[h].target /\ aReq[h].kind \in {"add", "remove", "accept"}
      BY <2>4, <2>5
    <2> QED
      BY <2>3, <2>6 DEF StillAllowed
  <1> QED
    BY AccessInit, <1>1, <1>2, PTL DEF Spec, OwnersProtected, BoardAccess!OwnersProtected,
       accessVars, BoardAccess!accessVars

\* Whatever roles, invitations and links a board has: whoever can open it or a socket to
\* it can read its state, updates and files, except a creator without a membership; and
\* no other handler lets somebody in who cannot open the board.
THEOREM ReadPathsDoAgree == Spec => []ReadPathsAgree
  <1>1. ReadPathsAgree
    BY ServicesAssumption
    DEF ReadPathsAgree, BoardAccess!ReadPathsAgree, BoardAccess!Users, BoardAccess!Open,
        BoardAccess!Manages, BoardAccess!ensure_board_access, BoardAccess!get_board_state,
        BoardAccess!presign_board_file, BoardAccess!effective_role,
        BoardAccess!list_boards_for_user, BoardAccess!export_board,
        BoardAccess!export_board_image, BoardAccess!list_board_members,
        BoardAccess!list_invite_links, BoardAccess!get_board_sessions,
        BoardAccess!ensure_board_edit_access
  <1> QED
    BY <1>1, PTL
-----------------------------------------------------------------------------
(* EmbedTokens and ProjectStatuses *)

\* Unless two creations overlapped, the one that found no token still finds none.
EmbedInv ==
  /\ \E n \in Nat : tokens \in [1..n -> BOOLEAN]
  /\ ePc \in [Handlers -> {"idle", "insert"}]
  /\ twice \in BOOLEAN /\ embedFaults \in Nat
  /\ twice \/
       /\ \A h, i \in Handlers : ePc[h] = "insert" /\ ePc[i] = "insert" => h = i
       /\ \A h \in Handlers : ePc[h] = "insert" => EmbedTokens!Valid = {}
       /\ \A t, u \in EmbedTokens!Valid : t = u

\* Any of the statuses have a last one among them: what MAX(position) finds.
Ranked ==
  \A S \in SUBSET statuses : S # {} => \E m \in S : \A s \in S : s.position <= m.position

\* Unless requests overlapped, the position a request is about to use is past all
\* that are taken.
StatusInv ==
  /\ inserted \in Nat /\ statusFaults \in Nat /\ sOverlap \in BOOLEAN
  /\ statuses \subseteq [id : Nat, position : Nat]
  /\ \A s \in statuses : s.position < inserted
  /\ Ranked
  /\ sPc \in [Handlers -> {"idle", "seed", "insert"}]
  /\ at \in [Handlers -> Nat]
  /\ \A h \in Handlers : at[h] <= inserted /\ (sPc[h] = "idle" => at[h] = 0)
  /\ sOverlap \/
       /\ \A h, i \in Handlers : sPc[h] # "idle" /\ sPc[i] # "idle" => h = i
       /\ \A h \in Handlers, s \in statuses : sPc[h] # "idle" => s.position < at[h]
       /\ ProjectStatuses!PositionsDistinct

\* No token is there at the start.
LEMMA EmbedInit ==
  ASSUME Spec
  PROVE  EmbedInv /\ StatusInv
  <1>1. EmbedTokens!Init /\ ProjectStatuses!Init
    BY DEF Spec, Init
  <1>2. EmbedInv
    <2>1. tokens \in [1..0 -> BOOLEAN]
      <3>1. 1..0 = {}
        OBVIOUS
      <3> QED
        BY <1>1, <3>1 DEF EmbedTokens!Init
    <2>2. \E n \in Nat : tokens \in [1..n -> BOOLEAN]
      BY <2>1
    <2>3. EmbedTokens!Valid = {}
      BY <1>1 DEF EmbedTokens!Init, EmbedTokens!Valid
    <2> QED
      BY <1>1, <2>2, <2>3 DEF EmbedTokens!Init, EmbedInv
  <1>3. StatusInv
    <2>1. /\ statuses = {} /\ inserted = 0 /\ sOverlap = FALSE /\ statusFaults = 0
          /\ sPc = [h \in Handlers |-> "idle"] /\ at = [h \in Handlers |-> 0]
      BY <1>1 DEF ProjectStatuses!Init
    <2>2. Ranked /\ ProjectStatuses!PositionsDistinct
      BY <2>1 DEF Ranked, ProjectStatuses!PositionsDistinct
    <2>3. /\ sPc \in [Handlers -> {"idle", "seed", "insert"}] /\ at \in [Handlers -> Nat]
          /\ \A h \in Handlers : sPc[h] = "idle" /\ at[h] = 0
      BY <2>1
    <2>4. \A h \in Handlers : at[h] <= inserted
      BY <2>1, <2>3
    <2> QED
      BY <2>1, <2>2, <2>3, <2>4 DEF StatusInv
  <1> QED
    BY <1>2, <1>3

\* Tokens are numbered as they are made, so that the next number is free.
LEMMA TokensAreNumbered ==
  ASSUME NEW n \in Nat, tokens \in [1..n -> BOOLEAN]
  PROVE  EmbedTokens!Made = n
  <1>1. DOMAIN tokens = 1..n
    OBVIOUS
  <1>2. Cardinality(1..n) = n
    <2>1. Cardinality(1..n) = IF 1 > n THEN 0 ELSE n - 1 + 1
      BY FS_Interval
    <2> QED
      BY <2>1
  <1> QED
    BY <1>1, <1>2, SameCardinality DEF EmbedTokens!Made

\* A request has found no token that is valid, and goes on to insert one.
LEMMA CreateTokenStep ==
  ASSUME EmbedInv, NEW h \in Handlers, EmbedTokens!CreateToken(h)
  PROVE  EmbedInv'
  <1>1. /\ ePc[h] = "idle" /\ ePc' = [ePc EXCEPT ![h] = "insert"] /\ tokens' = tokens
        /\ embedFaults' = embedFaults \/ embedFaults' = embedFaults + 1
        /\ embedFaults' = embedFaults => EmbedTokens!Valid = {}
    BY DEF EmbedTokens!CreateToken, EmbedTokens!latest_embed_token, EmbedInv
  <1>2. twice' = (twice \/ (\E i \in Handlers : ePc[i] = "insert") \/ embedFaults' # embedFaults)
    BY DEF EmbedTokens!CreateToken
  <1>3. twice' \in BOOLEAN
    BY <1>2, Zenon
  <1>4. EmbedTokens!Valid' = EmbedTokens!Valid
    BY <1>1 DEF EmbedTokens!Valid
  <1>5. ASSUME ~twice'
        PROVE  /\ \A i, j \in Handlers : ePc'[i] = "insert" /\ ePc'[j] = "insert" => i = j
               /\ EmbedTokens!Valid = {}
    <2>1. ~twice /\ (\A i \in Handlers : ePc[i] # "insert") /\ embedFaults' = embedFaults
      BY <1>2, <1>5
    <2> QED
      BY <1>1, <2>1 DEF EmbedInv
  <1>6. /\ \E n \in Nat : tokens' \in [1..n -> BOOLEAN]
        /\ ePc' \in [Handlers -> {"idle", "insert"}] /\ embedFaults' \in Nat
    BY <1>1 DEF EmbedInv
  <1> QED
    BY <1>3, <1>4, <1>5, <1>6 DEF EmbedInv

\* The row of a token is inserted.
LEMMA InsertTokenStep ==
  ASSUME EmbedInv, NEW h \in Handlers, EmbedTokens!InsertToken(h)
  PROVE  EmbedInv'
  <1>1. PICK n \in Nat : tokens \in [1..n -> BOOLEAN]
    BY DEF EmbedInv
  <1>2. /\ ePc[h] = "insert" /\ ePc' = [ePc EXCEPT ![h] = "idle"]
        /\ twice' = twice /\ embedFaults' = embedFaults
        /\ tokens' = [t \in 1..n + 1 |-> IF t \in 1..n THEN tokens[t] ELSE TRUE]
    <2>1. EmbedTokens!Made = n /\ DOMAIN tokens = 1..n
      BY <1>1, TokensAreNumbered
    <2> QED
      BY <2>1 DEF EmbedTokens!InsertToken
  <1>3. tokens' \in [1..n + 1 -> BOOLEAN] /\ n + 1 \in Nat
    <2>1. \A t \in 1..n : tokens[t] \in BOOLEAN
      BY <1>1
    <2>2. ASSUME NEW t \in 1..n + 1
          PROVE  (IF t \in 1..n THEN tokens[t] ELSE TRUE) \in BOOLEAN
      <3>1. CASE t \in 1..n
        <4>1. (IF t \in 1..n THEN tokens[t] ELSE TRUE) = tokens[t]
          BY <3>1, Zenon
        <4> QED
          BY <2>1, <3>1, <4>1
      <3>2. CASE t \notin 1..n
        BY <3>2, Zenon
      <3> QED
        BY <3>1, <3>2
    <2>3. tokens' \in [1..n + 1 -> BOOLEAN]
      BY <1>2, <2>2, Zenon
    <2> QED
      BY <2>3
  <1>4. ASSUME ~twice
        PROVE  /\ \A i, j \in Handlers : ePc'[i] = "insert" /\ ePc'[j] = "insert" => i = j
               /\ \A i \in Handlers : ePc'[i] # "insert"
               /\ \A t, u \in EmbedTokens!Valid' : t = u
    <2>1. \A i \in Handlers : ePc'[i] # "insert"
      BY <1>2, <1>4 DEF EmbedInv
    <2>2. \A t \in 1..n : ~tokens[t]
      BY <1>1, <1>2, <1>4 DEF EmbedInv, EmbedTokens!Valid
    <2>3. \A t \in EmbedTokens!Valid' : t = n + 1
      <3>1. DOMAIN tokens' = 1..n + 1
        BY <1>2
      <3> SUFFICES ASSUME NEW t \in 1..n + 1, tokens'[t] PROVE t = n + 1
        BY <3>1 DEF EmbedTokens!Valid
      <3>2. t \notin 1..n
        BY <1>2, <2>2
      <3> QED
        BY <3>2
    <2> QED
      BY <2>1, <2>3
  <1>5. ePc' \in [Handlers -> {"idle", "insert"}]
    BY <1>2 DEF EmbedInv
  <1>6. twice' \in BOOLEAN /\ embedFaults' \in Nat
    BY <1>2 DEF EmbedInv
  <1> QED
    BY <1>2, <1>3, <1>4, <1>5, <1>6 DEF EmbedInv

\* The tokens of a board are revoked.
LEMMA RevokeTokensStep ==
  ASSUME EmbedInv, EmbedTokens!RevokeTokens
  PROVE  EmbedInv'
  <1>1. PICK n \in Nat : tokens \in [1..n -> BOOLEAN]
    BY DEF EmbedInv
  <1>2. /\ tokens' = [t \in 1..n |-> FALSE] /\ ePc' = ePc /\ embedFaults' = embedFaults
        /\ twice' = \E h \in Handlers : twice /\ ePc[h] = "insert"
    BY <1>1 DEF EmbedTokens!RevokeTokens
  <1>3. tokens' \in [1..n -> BOOLEAN] /\ EmbedTokens!Valid' = {}
    BY <1>2 DEF EmbedTokens!Valid
  <1>4. twice' \in BOOLEAN
    BY <1>2, Zenon
  <1>5. ~twice' => \A i, j \in Handlers : ePc'[i] = "insert" /\ ePc'[j] = "insert" => i = j
    BY <1>2 DEF EmbedInv
  <1> QED
    BY <1>2, <1>3, <1>4, <1>5 DEF EmbedInv

\* Every step of the embed tokens, and every step elsewhere, keeps EmbedInv.
LEMMA EmbedStep ==
  ASSUME EmbedInv, EmbedTokens!Next \/ UNCHANGED embedVars
  PROVE  EmbedInv'
  <1>1. CASE UNCHANGED <<tokens, ePc, twice, embedFaults>>
    BY <1>1 DEF EmbedInv, EmbedTokens!Valid
  <1>2. CASE EmbedTokens!Next
    BY <1>2, CreateTokenStep, InsertTokenStep, RevokeTokensStep DEF EmbedTokens!Next
  <1> QED
    BY <1>1, <1>2 DEF embedVars

\* MAX(position) + 1 is past every position, and no more than the rows ever inserted.
LEMMA NextPositionIsFree ==
  ASSUME StatusInv
  PROVE  /\ ProjectStatuses!next_position \in 0..inserted
         /\ \A s \in statuses : s.position < ProjectStatuses!next_position
  <1>0. /\ statuses \subseteq [id : Nat, position : Nat] /\ inserted \in Nat /\ Ranked
        /\ \A s \in statuses : s.position < inserted
    BY DEF StatusInv
  <1>1. CASE statuses = {}
    BY <1>0, <1>1 DEF ProjectStatuses!next_position
  <1>2. CASE statuses # {}
    <2> DEFINE taken == {s.position : s \in statuses}
               top == ProjectStatuses!Max(taken)
    <2>1. PICK m \in statuses : \A s \in statuses : s.position <= m.position
      BY <1>0, <1>2 DEF Ranked
    <2>2. m.position \in taken /\ \A p \in taken : m.position >= p
      BY <1>0, <2>1
    <2>3. top \in taken /\ \A p \in taken : top >= p
      <3> HIDE DEF taken
      <3> QED
        BY <2>2 DEF ProjectStatuses!Max
    <2>4. ProjectStatuses!next_position = top + 1
      BY <1>2 DEF ProjectStatuses!next_position
    <2>5. PICK s \in statuses : top = s.position
      BY <2>3
    <2>6. top \in Nat /\ top < inserted
      BY <1>0, <2>5
    <2>7. \A t \in statuses : t.position \in Nat /\ t.position <= top
      BY <1>0, <2>3
    <2> HIDE DEF top
    <2> QED
      BY <1>0, <2>4, <2>6, <2>7
  <1> QED
    BY <1>1, <1>2

\* Inserting a row at a position past all that are taken.
LEMMA InsertRow ==
  ASSUME StatusInv, NEW p \in Nat, p <= inserted, ProjectStatuses!insert_status(p)
  PROVE  /\ inserted' = inserted + 1 /\ inserted' \in Nat
         /\ statuses' \subseteq [id : Nat, position : Nat]
         /\ \A s \in statuses' : s.position < inserted'
         /\ Ranked'
         /\ \A s \in statuses' : s \in statuses \/ s.position = p
         /\ ProjectStatuses!PositionsDistinct /\ ~sOverlap
              /\ (\A s \in statuses : s.position < p) =>
            \A s, t \in statuses' : s.position = t.position => s = t
  <1> DEFINE row == [id |-> inserted + 1, position |-> p]
  <1>0. /\ statuses \subseteq [id : Nat, position : Nat] /\ inserted \in Nat /\ Ranked
        /\ \A s \in statuses : s.position < inserted
    BY DEF StatusInv
  <1>1. inserted' = inserted + 1 /\ statuses' = statuses \cup {row}
    BY DEF ProjectStatuses!insert_status
  <1>2. row \in [id : Nat, position : Nat] /\ row.position = p
    BY <1>0
  <1> HIDE DEF row
  <1>3. /\ statuses' \subseteq [id : Nat, position : Nat]
        /\ \A s \in statuses' : s.position < inserted'
        /\ \A s \in statuses' : s \in statuses \/ s = row
    BY <1>0, <1>1, <1>2
  <1>4. Ranked'
    <2> SUFFICES ASSUME NEW S \in SUBSET statuses', S # {}
                 PROVE  \E m \in S : \A s \in S : s.position <= m.position
      BY DEF Ranked
    <2>1. CASE S \subseteq statuses
      BY <1>0, <2>1 DEF Ranked
    <2>2. CASE S = {row}
      BY <1>2, <2>2
    <2>3. CASE row \in S /\ S \ {row} # {}
      <3>1. S \ {row} \in SUBSET statuses
        BY <1>1
      <3>2. PICK m \in S \ {row} : \A s \in S \ {row} : s.position <= m.position
        BY <1>0, <2>3, <3>1 DEF Ranked
      <3>3. m \in S /\ m.position \in Nat /\ \A s \in S : s.position \in Nat
        BY <1>3, <3>2
      <3>4. CASE m.position <= p
        <4>1. \A s \in S : s.position <= row.position
          BY <1>2, <3>2, <3>3, <3>4
        <4> QED
          BY <2>3, <4>1
      <3>5. CASE p < m.position
        <4>1. \A s \in S : s.position <= m.position
          BY <1>2, <3>2, <3>3, <3>5
        <4> QED
          BY <3>3, <4>1
      <3> QED
        BY <3>3, <3>4, <3>5
    <2> QED
      BY <1>3, <2>1, <2>2, <2>3
  <1>5. ASSUME ProjectStatuses!PositionsDistinct, ~sOverlap, \A s \in statuses : s.position < p,
               NEW s \in statuses', NEW t \in statuses', s.position = t.position
        PROVE  s = t
    <2>1. \A x \in statuses : x.position # row.position
      BY <1>0, <1>2, <1>5
    <2> QED
      BY <1>3, <1>5, <2>1 DEF ProjectStatuses!PositionsDistinct
  <1> QED
    BY <1>0, <1>1, <1>2, <1>3, <1>4, <1>5

\* Who is busy, and where it inserts next, is all that a step leaves to show.
LEMMA RequestEnds ==
  ASSUME StatusInv, NEW h \in Handlers, ProjectStatuses!Done(h)
  PROVE  /\ sPc' \in [Handlers -> {"idle", "seed", "insert"}] /\ at' \in [Handlers -> Nat]
         /\ sPc'[h] = "idle" /\ at'[h] = 0
         /\ \A i \in Handlers : i # h => sPc'[i] = sPc[i] /\ at'[i] = at[i]
  BY DEF StatusInv, ProjectStatuses!Done, ProjectStatuses!Goto

\* A status is inserted at the position read before, and the request ends.
LEMMA InsertAndEnd ==
  ASSUME StatusInv, NEW h \in Handlers, sPc[h] # "idle",
         ProjectStatuses!insert_status(at[h]), ProjectStatuses!Done(h),
         sOverlap' = sOverlap, statusFaults' = statusFaults
  PROVE  StatusInv'
  <1>1. at[h] \in Nat /\ at[h] <= inserted
    BY DEF StatusInv
  <1>2. /\ inserted' = inserted + 1 /\ inserted' \in Nat
        /\ statuses' \subseteq [id : Nat, position : Nat]
        /\ \A s \in statuses' : s.position < inserted'
        /\ Ranked'
        /\ ProjectStatuses!PositionsDistinct /\ ~sOverlap
             /\ (\A s \in statuses : s.position < at[h]) =>
           \A s, t \in statuses' : s.position = t.position => s = t
    BY <1>1, InsertRow
  <1>3. /\ sPc' \in [Handlers -> {"idle", "seed", "insert"}] /\ at' \in [Handlers -> Nat]
        /\ sPc'[h] = "idle" /\ at'[h] = 0
        /\ \A i \in Handlers : i # h => sPc'[i] = sPc[i] /\ at'[i] = at[i]
    BY RequestEnds
  <1>4. \A i \in Handlers : at'[i] <= inserted' /\ (sPc'[i] = "idle" => at'[i] = 0)
    BY <1>2, <1>3 DEF StatusInv
  <1>5. ASSUME ~sOverlap
        PROVE  /\ \A i \in Handlers : sPc'[i] = "idle"
               /\ \A s, t \in statuses' : s.position = t.position => s = t
    BY <1>2, <1>3, <1>5 DEF StatusInv
  <1>6. statusFaults' \in Nat /\ sOverlap' \in BOOLEAN
    BY DEF StatusInv
  <1>7. sOverlap' \/
          /\ \A i, j \in Handlers : sPc'[i] # "idle" /\ sPc'[j] # "idle" => i = j
          /\ \A i \in Handlers, s \in statuses' : sPc'[i] # "idle" => s.position < at'[i]
          /\ ProjectStatuses!PositionsDistinct'
    BY <1>5 DEF ProjectStatuses!PositionsDistinct
  <1> QED
    BY <1>2, <1>3, <1>4, <1>6, <1>7 DEF StatusInv

\* The first status of a project is inserted by the request that found none.
LEMMA SeedStatusStep ==
  ASSUME StatusInv, NEW h \in Handlers, ProjectStatuses!SeedStatus(h)
  PROVE  StatusInv'
  <1>0. sPc[h] = "seed" /\ sOverlap' = sOverlap
    BY DEF ProjectStatuses!SeedStatus
  <1>1. CASE ProjectStatuses!insert_status(at[h]) /\ statusFaults' = statusFaults
               /\ ProjectStatuses!Done(h)
    BY <1>0, <1>1, InsertAndEnd
  <1>2. CASE /\ ProjectStatuses!insert_status(at[h]) /\ statusFaults' = statusFaults
             /\ at' = [at EXCEPT ![h] = @ + 1] /\ sPc' = sPc
    <2>1. at[h] \in Nat /\ at[h] <= inserted /\ inserted \in Nat
      BY DEF StatusInv
    <2>2. /\ inserted' = inserted + 1 /\ inserted' \in Nat
          /\ statuses' \subseteq [id : Nat, position : Nat]
          /\ \A s \in statuses' : s.position < inserted'
          /\ Ranked'
          /\ \A s \in statuses' : s \in statuses \/ s.position = at[h]
          /\ ProjectStatuses!PositionsDistinct /\ ~sOverlap
               /\ (\A s \in statuses : s.position < at[h]) =>
             \A s, t \in statuses' : s.position = t.position => s = t
      BY <1>2, <2>1, InsertRow
    <2>3. /\ at' \in [Handlers -> Nat] /\ at'[h] = at[h] + 1
          /\ \A i \in Handlers : i # h => at'[i] = at[i]
      BY <1>2, <2>1 DEF StatusInv
    <2>4. \A i \in Handlers : at'[i] <= inserted' /\ (sPc'[i] = "idle" => at'[i] = 0)
      <3>1. \A i \in Handlers : at[i] \in Nat /\ at[i] <= inserted /\ (sPc[i] = "idle" => at[i] = 0)
        BY DEF StatusInv
      <3> QED
        BY <1>0, <1>2, <2>1, <2>2, <2>3, <3>1
    <2>5. ASSUME ~sOverlap
          PROVE  /\ \A i, j \in Handlers : sPc[i] # "idle" /\ sPc[j] # "idle" => i = j
                 /\ \A s \in statuses : s.position < at[h]
                 /\ ProjectStatuses!PositionsDistinct
      BY <1>0, <2>5 DEF StatusInv
    <2>6. ASSUME ~sOverlap
          PROVE  /\ \A i \in Handlers, s \in statuses' : sPc'[i] # "idle" => s.position < at'[i]
                 /\ \A s, t \in statuses' : s.position = t.position => s = t
      <3>1. \A i \in Handlers : sPc[i] # "idle" => i = h
        BY <1>0, <2>5, <2>6
      <3>2. \A s \in statuses' : s.position < at'[h]
        <4> SUFFICES ASSUME NEW s \in statuses' PROVE s.position < at[h] + 1
          BY <2>3
        <4>1. s.position \in Nat
          BY <2>2
        <4>2. s.position < at[h] \/ s.position = at[h]
          BY <2>2, <2>5, <2>6
        <4> QED
          BY <2>1, <4>1, <4>2
      <3>3. \A s, t \in statuses' : s.position = t.position => s = t
        BY <2>2, <2>5, <2>6
      <3> QED
        BY <1>2, <3>1, <3>2, <3>3
    <2>7. statusFaults' \in Nat /\ sOverlap' \in BOOLEAN
      BY <1>0, <1>2 DEF StatusInv
    <2>8. sPc' \in [Handlers -> {"idle", "seed", "insert"}]
      BY <1>2 DEF StatusInv
    <2>9. sOverlap' \/
            /\ \A i, j \in Handlers : sPc'[i] # "idle" /\ sPc'[j] # "idle" => i = j
            /\ \A i \in Handlers, s \in statuses' : sPc'[i] # "idle" => s.position < at'[i]
            /\ ProjectStatuses!PositionsDistinct'
      BY <1>0, <1>2, <2>5, <2>6 DEF ProjectStatuses!PositionsDistinct
    <2> QED
      BY <2>2, <2>3, <2>4, <2>7, <2>8, <2>9 DEF StatusInv
  <1>3. CASE /\ ProjectStatuses!Fault /\ ProjectStatuses!Done(h)
             /\ statuses' = statuses /\ inserted' = inserted
    <2>1. /\ sPc' \in [Handlers -> {"idle", "seed", "insert"}] /\ at' \in [Handlers -> Nat]
          /\ sPc'[h] = "idle" /\ at'[h] = 0
          /\ \A i \in Handlers : i # h => sPc'[i] = sPc[i] /\ at'[i] = at[i]
      BY <1>3, RequestEnds
    <2>2. statusFaults' \in Nat
      BY <1>3 DEF ProjectStatuses!Fault, StatusInv
    <2>3. \A i \in Handlers : at'[i] <= inserted' /\ (sPc'[i] = "idle" => at'[i] = 0)
      BY <1>3, <2>1 DEF StatusInv
    <2>4. sOverlap' \/
            /\ \A i, j \in Handlers : sPc'[i] # "idle" /\ sPc'[j] # "idle" => i = j
            /\ \A i \in Handlers, s \in statuses' : sPc'[i] # "idle" => s.position < at'[i]
            /\ ProjectStatuses!PositionsDistinct'
      BY <1>0, <1>3, <2>1 DEF StatusInv, ProjectStatuses!PositionsDistinct
    <2>5. Ranked'
      BY <1>3 DEF StatusInv, Ranked
    <2>6. /\ inserted' \in Nat /\ sOverlap' \in BOOLEAN
          /\ statuses' \subseteq [id : Nat, position : Nat]
          /\ \A s \in statuses' : s.position < inserted'
      BY <1>0, <1>3 DEF StatusInv
    <2> QED
      BY <2>1, <2>2, <2>3, <2>4, <2>5, <2>6 DEF StatusInv
  <1> QED
    BY <1>0, <1>1, <1>2, <1>3 DEF ProjectStatuses!SeedStatus

\* A request starts: the others are idle unless requests overlap.
LEMMA RequestStarts ==
  ASSUME StatusInv, NEW h \in Handlers, sPc[h] = "idle",
         NEW where \in {"seed", "insert"}, ProjectStatuses!Goto(h, where),
         NEW p \in 0..inserted, at' = [at EXCEPT ![h] = p],
         \A s \in statuses : s.position < p,
         sOverlap' = (sOverlap \/ ProjectStatuses!Busy),
         UNCHANGED <<statuses, inserted, statusFaults>>
  PROVE  StatusInv'
  <1>0. /\ sPc \in [Handlers -> {"idle", "seed", "insert"}] /\ at \in [Handlers -> Nat]
        /\ inserted \in Nat
        /\ \A i \in Handlers : at[i] <= inserted /\ (sPc[i] = "idle" => at[i] = 0)
    BY DEF StatusInv
  <1>1. /\ sPc' \in [Handlers -> {"idle", "seed", "insert"}] /\ at' \in [Handlers -> Nat]
        /\ sPc'[h] # "idle" /\ at'[h] = p
        /\ \A i \in Handlers : i # h => sPc'[i] = sPc[i] /\ at'[i] = at[i]
    BY <1>0 DEF ProjectStatuses!Goto
  <1>2. \A i \in Handlers : at'[i] <= inserted' /\ (sPc'[i] = "idle" => at'[i] = 0)
    BY <1>0, <1>1
  <1>3. sOverlap' \in BOOLEAN
    BY Zenon DEF ProjectStatuses!Busy
  <1>4. ASSUME ~sOverlap'
        PROVE  /\ \A i \in Handlers : sPc'[i] # "idle" => i = h
               /\ ProjectStatuses!PositionsDistinct' /\ ~sOverlap
    BY <1>1, <1>4 DEF StatusInv, ProjectStatuses!Busy, ProjectStatuses!PositionsDistinct
  <1>5. sOverlap' \/
          /\ \A i, j \in Handlers : sPc'[i] # "idle" /\ sPc'[j] # "idle" => i = j
          /\ \A i \in Handlers, s \in statuses' : sPc'[i] # "idle" => s.position < at'[i]
          /\ ProjectStatuses!PositionsDistinct'
    BY <1>1, <1>4
  <1>6. Ranked'
    BY DEF StatusInv, Ranked
  <1>7. /\ inserted' \in Nat /\ statusFaults' \in Nat
        /\ statuses' \subseteq [id : Nat, position : Nat]
        /\ \A s \in statuses' : s.position < inserted'
    BY DEF StatusInv
  <1> QED
    BY <1>1, <1>2, <1>3, <1>5, <1>6, <1>7 DEF StatusInv

\* A status is deleted: the positions of the others stay apart.
LEMMA DeleteStatusStep ==
  ASSUME StatusInv, ProjectStatuses!DeleteStatus
  PROVE  StatusInv'
  <1>1. /\ statuses' \subseteq statuses
        /\ inserted' = inserted /\ sPc' = sPc /\ at' = at /\ statusFaults' = statusFaults
        /\ sOverlap' = (sOverlap \/ ProjectStatuses!Busy)
    BY DEF ProjectStatuses!DeleteStatus
  <1>2. sOverlap' \in BOOLEAN
    BY <1>1, Zenon DEF ProjectStatuses!Busy
  <1>3. Ranked'
    BY <1>1 DEF StatusInv, Ranked
  <1>4. sOverlap' \/
          /\ \A i, j \in Handlers : sPc'[i] # "idle" /\ sPc'[j] # "idle" => i = j
          /\ \A i \in Handlers, s \in statuses' : sPc'[i] # "idle" => s.position < at'[i]
          /\ ProjectStatuses!PositionsDistinct'
    BY <1>1 DEF StatusInv, ProjectStatuses!PositionsDistinct
  <1>5. /\ inserted' \in Nat /\ statusFaults' \in Nat
        /\ statuses' \subseteq [id : Nat, position : Nat]
        /\ \A s \in statuses' : s.position < inserted'
        /\ sPc' \in [Handlers -> {"idle", "seed", "insert"}] /\ at' \in [Handlers -> Nat]
        /\ \A h \in Handlers : at'[h] <= inserted' /\ (sPc'[h] = "idle" => at'[h] = 0)
    BY <1>1 DEF StatusInv
  <1> QED
    BY <1>2, <1>3, <1>4, <1>5 DEF StatusInv

\* Every step of the statuses, and every step elsewhere, keeps StatusInv.
LEMMA StatusStep ==
  ASSUME StatusInv, ProjectStatuses!Next \/ UNCHANGED statusVars
  PROVE  StatusInv'
  <1>1. CASE UNCHANGED <<statuses, inserted, sPc, at, sOverlap, statusFaults>>
    BY <1>1 DEF StatusInv, Ranked, ProjectStatuses!PositionsDistinct
  <1>2. ASSUME NEW h \in Handlers, ProjectStatuses!ListStatuses(h) PROVE StatusInv'
    <2>1. /\ sPc[h] = "idle" /\ statuses = {} /\ ProjectStatuses!Goto(h, "seed")
          /\ sOverlap' = (sOverlap \/ ProjectStatuses!Busy)
          /\ UNCHANGED <<statuses, inserted, at, statusFaults>>
      BY <1>2 DEF ProjectStatuses!ListStatuses
    <2>2. 0 \in 0..inserted /\ at' = [at EXCEPT ![h] = 0]
      BY <2>1 DEF StatusInv
    <2> QED
      BY <2>1, <2>2, RequestStarts
  <1>3. ASSUME NEW h \in Handlers, ProjectStatuses!CreateStatus(h) PROVE StatusInv'
    <2>1. /\ sPc[h] = "idle" /\ ProjectStatuses!Goto(h, "insert")
          /\ at' = [at EXCEPT ![h] = ProjectStatuses!next_position]
          /\ sOverlap' = (sOverlap \/ ProjectStatuses!Busy)
          /\ UNCHANGED <<statuses, inserted, statusFaults>>
      BY <1>3 DEF ProjectStatuses!CreateStatus
    <2> QED
      BY <2>1, NextPositionIsFree, RequestStarts
  <1>4. ASSUME NEW h \in Handlers, ProjectStatuses!InsertStatus(h) PROVE StatusInv'
    BY <1>4, InsertAndEnd DEF ProjectStatuses!InsertStatus
  <1> QED
    BY <1>1, <1>2, <1>3, <1>4, SeedStatusStep, DeleteStatusStep
    DEF ProjectStatuses!Next, statusVars

\* A board has one valid token and the positions of a project's statuses differ,
\* however many there are, as long as the requests that look first and insert later
\* do not overlap.
THEOREM OneIsInserted == Spec => []InsertedOnce
  <1>1. EmbedInv /\ StatusInv /\ [Next]_<<part, userVars, boardVars, accountVars>>
          => EmbedInv' /\ StatusInv'
    BY ServiceStep, EmbedStep, StatusStep
  <1>2. EmbedInv /\ StatusInv => InsertedOnce
    <2>1. EmbedInv => EmbedTokens!EmbedIdempotent
      BY DEF EmbedInv, EmbedTokens!EmbedIdempotent, EmbedTokens!embed_grants_view
    <2>2. StatusInv => ProjectStatuses!PositionsDistinct
      BY DEF StatusInv, ProjectStatuses!PositionsDistinct
    <2> QED
      BY <2>1, <2>2 DEF InsertedOnce
  <1> QED
    BY EmbedInit, <1>1, <1>2, PTL DEF Spec
-----------------------------------------------------------------------------
(* Accounts *)

AccountReqs ==
  [user : 0..MaxUsers, email : Addresses \cup {NoEmail},
   identity : Identities \cup {NoIdentity}, code : 0..MaxCodes]

\* What a request carries at the place it is at, when n accounts have been made.
Fits(where, r, n) ==
  /\ where \in Accounts!At /\ r \in AccountReqs
  /\ where \in {"register", "insert", "cleanup", "request", "verify"} => r.email \in Addresses
  /\ where \in {"request", "verify"} => r.user \in Accounts!Users
  /\ where \in {"take", "find", "byemail", "create", "link", "native"} => r.identity \in Identities
  /\ where \in {"byemail", "native"} => EmailOf[r.identity] # NoEmail
  /\ where = "link" => r.user \in 1..n

HandlersFit ==
  /\ pc \in [Handlers -> Accounts!At] /\ req \in [Handlers -> AccountReqs]
  /\ \A h \in Handlers : Fits(pc[h], req[h], made)

UserTypes ==
  /\ exists \subseteq 1..made /\ made \in 0..MaxUsers
  /\ email \in [Accounts!Users -> Accounts!Emails]
  /\ proof \in [Accounts!Users -> 0..MaxCodes]
  /\ request \in [Accounts!Users -> [email : Accounts!Emails, code : 0..MaxCodes]]
  /\ \A u \in Accounts!Users \ exists : email[u] = NoEmail /\ request[u] = Accounts!NoRequest

RowTypes ==
  /\ pending \in [Addresses -> [code : 0..MaxCodes, verified : BOOLEAN]]
  /\ linked \in [Identities -> 0..MaxUsers]
  /\ states \subseteq Identities /\ doubled \subseteq Identities
  /\ mailed \in [Accounts!Codes -> Accounts!Emails]
  /\ starts \in 0..MaxStarts /\ accepted \in Nat /\ faults \in 0..MaxFaults

\* The address was proved with the code, if there is one.
ProvedBy(c, a) == c # 0 => a # NoEmail /\ mailed[c] = a

\* Codes are numbered as they are mailed, and wherever one is kept it is kept with
\* the address it went to.
MailInv ==
  /\ \E n \in 0..MaxCodes : \A c \in Accounts!Codes : mailed[c] # NoEmail <=> c <= n
  /\ \A u \in exists : ProvedBy(proof[u], email[u])
  /\ \A u \in Accounts!Users : ProvedBy(request[u].code, request[u].email)
  /\ \A a \in Addresses : ProvedBy(pending[a].code, a)
  /\ \A h \in Handlers : pc[h] = "insert" => ProvedBy(req[h].code, req[h].email)

OwnersInv == \A u, w \in exists : email[u] # NoEmail /\ email[u] = email[w] => u = w

\* The account a sign-in is about to link, if it is still there, is the one with the
\* identity's address.
LinkInv ==
  /\ Accounts!LinkFollowsEmail
  /\ \A h \in Handlers :
       pc[h] = "link" /\ req[h].user \in exists /\ EmailOf[req[h].identity] # NoEmail =>
         email[req[h].user] = EmailOf[req[h].identity]

\* No other sign-in of the identity is past the lookup of its link.
SignsInAlone(h) ==
  \A i \in Handlers \ {h} : pc[i] \in {"create", "link"} => req[i].identity # req[h].identity

Excused == faults > 0 \/ \E i \in doubled : EmailOf[i] = NoEmail

\* A sign-in that makes an account without an address is alone until it has linked
\* it; any other one is about to write the link that is there.
FirstInv ==
  Excused \/
    /\ \A u \in exists :
         email[u] # NoEmail \/ u \in Accounts!BeingLinked \/ \E i \in Identities : linked[i] = u
    /\ \A h \in Handlers : pc[h] = "create" /\ EmailOf[req[h].identity] = NoEmail =>
         linked[req[h].identity] = 0 /\ SignsInAlone(h)
    /\ \A h \in Handlers :
         pc[h] = "link" /\ EmailOf[req[h].identity] = NoEmail /\ req[h].user \in exists =>
           \/ linked[req[h].identity] = req[h].user
           \/ linked[req[h].identity] = 0 /\ SignsInAlone(h)

\* Callbacks that have read a state which has been deleted since.
Stragglers == {h \in Handlers : pc[h] = "take" /\ req[h].identity \notin states}

\* A state in Redis may still be accepted by every request, one that was deleted by
\* those that have read it.
StateInv ==
  /\ IsFiniteSet(states) /\ Cardinality(states) <= starts + faults
  /\ accepted + Cardinality(Stragglers)
       <= (starts + faults - Cardinality(states)) * Cardinality(Handlers)

AccountInv ==
  /\ HandlersFit /\ UserTypes /\ RowTypes
  /\ MailInv /\ OwnersInv /\ LinkInv /\ FirstInv /\ StateInv

\* The requests but one stay where they are.
OthersStay(h) == \A i \in Handlers \ {h} : pc'[i] = pc[i] /\ req'[i] = req[i]

\* What is assumed of addresses, identities and bounds.
LEMMA AccountConstants ==
  /\ NoEmail \notin Addresses /\ NoIdentity \notin Identities
  /\ EmailOf \in [Identities -> Addresses \cup {NoEmail}]
  /\ MaxUsers \in Nat /\ MaxCodes \in Nat /\ MaxStarts \in Nat /\ MaxFaults \in Nat
  BY AccountsHold DEF Accounts!AccountsAssumption

\* The ranges of the accounts' rows and requests give the module's type invariant.
LEMMA AccountTypeCorrect ==
  ASSUME HandlersFit, UserTypes, RowTypes
  PROVE  Accounts!TypeOK
  <1>1. req \in [Handlers -> [user : 0..MaxUsers, email : Accounts!Emails,
                              identity : Identities \cup {NoIdentity}, code : 0..MaxCodes]]
    BY DEF HandlersFit, AccountReqs, Accounts!Emails
  <1> QED
    BY <1>1 DEF HandlersFit, UserTypes, RowTypes, Accounts!TypeOK

\* An idle request carries nothing, which fits.
LEMMA IdleFits ==
  ASSUME NEW n
  PROVE  Fits("idle", Accounts!NoReq, n)
  BY AccountConstants DEF Fits, AccountReqs, Accounts!NoReq, Accounts!At

\* No account, no link and nobody under way: the invariant holds at the start.
LEMMA AccountInit ==
  ASSUME Spec
  PROVE  AccountInv
  <1>1. /\ exists = {} /\ made = 0
        /\ email = [u \in Accounts!Users |-> NoEmail]
        /\ pending = [a \in Addresses |-> Accounts!NoPending]
        /\ request = [u \in Accounts!Users |-> Accounts!NoRequest]
        /\ linked = [i \in Identities |-> 0]
        /\ states = {}
        /\ pc = [h \in Handlers |-> "idle"]
        /\ req = [h \in Handlers |-> Accounts!NoReq]
        /\ mailed = [c \in Accounts!Codes |-> NoEmail]
        /\ proof = [u \in Accounts!Users |-> 0]
        /\ starts = 0 /\ accepted = 0 /\ doubled = {} /\ faults = 0
    BY DEF Spec, Init, Accounts!Init
  <1>2. HandlersFit
    BY <1>1, IdleFits DEF HandlersFit, Fits
  <1>3. UserTypes
    <2>1. Accounts!NoRequest \in [email : Accounts!Emails, code : 0..MaxCodes]
      BY AccountConstants DEF Accounts!NoRequest, Accounts!Emails
    <2> QED
      BY <1>1, <2>1, AccountConstants DEF UserTypes, Accounts!Emails
  <1>4. RowTypes
    <2>1. Accounts!NoPending \in [code : 0..MaxCodes, verified : BOOLEAN]
      BY AccountConstants DEF Accounts!NoPending
    <2>2. pending \in [Addresses -> [code : 0..MaxCodes, verified : BOOLEAN]]
      BY <1>1, <2>1
    <2> QED
      BY <1>1, <2>2, AccountConstants DEF RowTypes, Accounts!Emails
  <1>5. MailInv
    <2>1. \A c \in Accounts!Codes : mailed[c] # NoEmail <=> c <= 0
      BY <1>1, AccountConstants DEF Accounts!Codes
    <2>2. \E n \in 0..MaxCodes : \A c \in Accounts!Codes : mailed[c] # NoEmail <=> c <= n
      BY <2>1, AccountConstants
    <2>3. /\ \A u \in Accounts!Users : request[u].code = 0
          /\ \A a \in Addresses : pending[a].code = 0
          /\ \A h \in Handlers : pc[h] # "insert"
      BY <1>1 DEF Accounts!NoRequest, Accounts!NoPending
    <2> QED
      BY <1>1, <2>2, <2>3 DEF MailInv, ProvedBy
  <1>6. OwnersInv /\ LinkInv /\ FirstInv
    BY <1>1 DEF OwnersInv, LinkInv, FirstInv, Accounts!LinkFollowsEmail
  <1>7. StateInv
    <2>1. Stragglers = {}
      BY <1>1 DEF Stragglers
    <2>2. Cardinality(Handlers) \in Nat
      BY CountRequests
    <2> QED
      BY <1>1, <2>1, <2>2, FS_EmptySet DEF StateInv
  <1> QED
    BY <1>2, <1>3, <1>4, <1>5, <1>6, <1>7 DEF AccountInv

\* A request goes to another place, with what it carries there.
LEMMA Moves ==
  ASSUME HandlersFit, NEW h \in Handlers, NEW where, NEW r, Fits(where, r, made'),
         1..made \subseteq 1..made',
         pc' = [pc EXCEPT ![h] = where], req' = [req EXCEPT ![h] = r]
  PROVE  /\ HandlersFit'
         /\ pc'[h] = where /\ req'[h] = r /\ OthersStay(h)
  <1>1. /\ pc \in [Handlers -> Accounts!At] /\ req \in [Handlers -> AccountReqs]
        /\ where \in Accounts!At /\ r \in AccountReqs
    BY DEF HandlersFit, Fits
  <1>2. /\ pc' \in [Handlers -> Accounts!At] /\ req' \in [Handlers -> AccountReqs]
        /\ pc'[h] = where /\ req'[h] = r /\ OthersStay(h)
    BY <1>1 DEF OthersStay
  <1>3. \A i \in Handlers : Fits(pc'[i], req'[i], made')
    <2> SUFFICES ASSUME NEW i \in Handlers PROVE Fits(pc'[i], req'[i], made')
      OBVIOUS
    <2>1. CASE i = h
      BY <1>2, <2>1
    <2>2. CASE i # h
      <3>1. Fits(pc[i], req[i], made) /\ pc'[i] = pc[i] /\ req'[i] = req[i]
        BY <1>2, <2>2 DEF OthersStay, HandlersFit
      <3> QED
        BY <3>1 DEF Fits
    <2> QED
      BY <2>1, <2>2
  <1> QED
    BY <1>2, <1>3 DEF HandlersFit, AccountReqs, Accounts!At, Fits, Accounts!Users

\* The shapes of a move in the model.
LEMMA GotoMoves ==
  ASSUME HandlersFit, NEW h \in Handlers, NEW where, Accounts!Goto(h, where)
  PROVE  pc' = [pc EXCEPT ![h] = where] /\ req' = [req EXCEPT ![h] = req[h]]
  BY DEF HandlersFit, Accounts!Goto

\* A request that ends.
LEMMA DoneMoves ==
  ASSUME HandlersFit, NEW h \in Handlers, Accounts!Done(h), 1..made \subseteq 1..made'
  PROVE  /\ HandlersFit'
         /\ pc'[h] = "idle" /\ OthersStay(h)
  BY IdleFits, Moves DEF Accounts!Done

\* A fault is counted, and there are at most MaxFaults.
LEMMA FaultCounts ==
  ASSUME RowTypes, Accounts!Fault
  PROVE  faults' = faults + 1 /\ faults' \in 0..MaxFaults /\ faults' > 0
  BY AccountConstants DEF RowTypes, Accounts!Fault

-----------------------------------------------------------------------------
(* What leaves an invariant of the accounts alone *)

\* Mail goes out and what was proved stays proved.
LEMMA ProofsStay ==
  ASSUME RowTypes, \A c \in Accounts!Codes : mailed[c] # NoEmail => mailed'[c] = mailed[c],
         NEW c \in 0..MaxCodes, NEW a, ProvedBy(c, a)
  PROVE  c # 0 => a # NoEmail /\ mailed'[c] = a
  BY AccountConstants DEF ProvedBy, Accounts!Codes

\* What was mailed and proved stays so when no row that keeps a code changes.
LEMMA MailStays ==
  ASSUME MailInv, UNCHANGED <<exists, email, proof, pending, request, mailed>>,
         \A h \in Handlers : pc'[h] = "insert" => pc[h] = "insert" /\ req'[h] = req[h]
  PROVE  MailInv'
  BY DEF MailInv, ProvedBy, Accounts!Users, Accounts!Codes

\* Rows of users are added or get an address.
LEMMA LinksStay ==
  ASSUME LinkInv, HandlersFit, linked' = linked,
         exists \subseteq exists', exists' \cap 1..made \subseteq exists,
         \A u \in exists : email[u] # NoEmail => email'[u] = email[u],
         \A h \in Handlers : pc'[h] = "link" => pc[h] = "link" /\ req'[h] = req[h]
  PROVE  LinkInv'
  <1>1. \A h \in Handlers : pc[h] = "link" => req[h].user \in 1..made
    BY DEF HandlersFit, Fits
  <1>2. Accounts!LinkFollowsEmail'
    BY DEF LinkInv, Accounts!LinkFollowsEmail
  <1> QED
    BY <1>1, <1>2 DEF LinkInv

\* No account becomes lost when its row stays and the request writing it does not move.
LEMMA FirstStays ==
  ASSUME FirstInv, HandlersFit, RowTypes, UNCHANGED linked, doubled \subseteq doubled',
         faults' \in {faults, faults + 1},
         \A u \in exists' : \/ u \in exists /\ (email[u] # NoEmail => email'[u] # NoEmail)
                            \/ u \notin 1..made /\ email'[u] # NoEmail,
         \A h \in Handlers : pc[h] \in {"create", "link"} \/ pc'[h] \in {"create", "link"} =>
                               pc'[h] = pc[h] /\ req'[h] = req[h]
  PROVE  FirstInv'
  <1>1. CASE Excused
    <2>1. Excused'
      BY <1>1 DEF Excused, RowTypes
    <2> QED
      BY <2>1 DEF FirstInv
  <1>2. CASE ~Excused
    <2>1. \A h \in Handlers : pc[h] = "link" => req[h].user \in 1..made
      BY DEF HandlersFit, Fits
    <2>2. \A h \in Handlers : pc'[h] \in {"create", "link"} /\ SignsInAlone(h) => SignsInAlone(h)'
      BY DEF SignsInAlone
    <2>3. Accounts!BeingLinked' = Accounts!BeingLinked
      BY DEF Accounts!BeingLinked
    <2>4. /\ \A h \in Handlers : pc'[h] = "create" /\ EmailOf[req'[h].identity] = NoEmail =>
               linked'[req'[h].identity] = 0 /\ SignsInAlone(h)'
          /\ \A h \in Handlers :
               pc'[h] = "link" /\ EmailOf[req'[h].identity] = NoEmail /\ req'[h].user \in exists' =>
                 \/ linked'[req'[h].identity] = req'[h].user
                 \/ linked'[req'[h].identity] = 0 /\ SignsInAlone(h)'
      BY <1>2, <2>1, <2>2 DEF FirstInv
    <2>5. \A u \in exists' :
            email'[u] # NoEmail \/ u \in Accounts!BeingLinked' \/ \E i \in Identities : linked'[i] = u
      BY <1>2, <2>3 DEF FirstInv
    <2> QED
      BY <2>4, <2>5 DEF FirstInv
  <1> QED
    BY <1>1, <1>2

\* Products of counts.
LEMMA CountTimes ==
  ASSUME NEW x \in Nat, NEW n \in Nat, NEW k \in Nat
  PROVE  /\ x * k \in Nat /\ (x + 1) * k = x * k + k
         /\ x <= n => x * k <= n * k
  <1>1. x * k \in Nat /\ (x + 1) * k = x * k + k
    OBVIOUS
  <1>2. ASSUME x <= n PROVE x * k <= n * k
    <2>1. PICK d \in Nat : n = x + d
      BY <1>2
    <2>2. (x + d) * k = x * k + d * k /\ d * k \in Nat /\ d * k >= 0
      OBVIOUS
    <2> QED
      BY <1>1, <2>1, <2>2
  <1> QED
    BY <1>1, <1>2

\* What may still be accepted stays when no state is stored or taken.
LEMMA StatesStay ==
  ASSUME StateInv, RowTypes, UNCHANGED <<states, starts, accepted>>,
         faults' \in {faults, faults + 1},
         \A h \in Handlers : pc'[h] = "take" =>
           req'[h].identity \in states \/ (pc[h] = "take" /\ req'[h] = req[h])
  PROVE  StateInv'
  <1> DEFINE left == starts + faults - Cardinality(states)
             all == Cardinality(Handlers)
  <1>1. /\ IsFiniteSet(states) /\ Cardinality(states) \in Nat /\ left \in Nat /\ accepted \in Nat
        /\ accepted + Cardinality(Stragglers) <= left * all
    BY FS_CardinalityType DEF StateInv, RowTypes
  <1>2. Stragglers' \subseteq Stragglers /\ Stragglers \in SUBSET Handlers
    BY DEF Stragglers
  <1>3. /\ Cardinality(Stragglers') <= Cardinality(Stragglers)
        /\ Cardinality(Stragglers) \in Nat /\ Cardinality(Stragglers') \in Nat /\ all \in Nat
    BY <1>2, CountRequests, FS_Subset
  <1>4. left' \in Nat /\ left <= left' /\ Cardinality(states') <= starts' + faults'
    BY <1>1 DEF StateInv, RowTypes
  <1>5. left * all <= left' * all /\ left * all \in Nat /\ left' * all \in Nat
    BY <1>1, <1>3, <1>4, CountTimes
  <1>6. accepted' + Cardinality(Stragglers') <= left' * all
    <2> HIDE DEF left, all
    <2> QED
      BY <1>1, <1>3, <1>5
  <1> QED
    BY <1>1, <1>4, <1>6 DEF StateInv

\* Wherever a code is kept with an address, it was kept so before or is new.
LEMMA MailKept ==
  ASSUME UserTypes, RowTypes, HandlersFit, MailInv,
         \A c \in Accounts!Codes : mailed[c] # NoEmail => mailed'[c] = mailed[c],
         \E n \in 0..MaxCodes : \A c \in Accounts!Codes : mailed'[c] # NoEmail <=> c <= n,
         \A u \in exists' : \/ u \in exists /\ proof'[u] = proof[u] /\ email'[u] = email[u]
                            \/ ProvedBy(proof[u], email[u])',
         \A u \in Accounts!Users :
           request'[u] = request[u] \/ ProvedBy(request[u].code, request[u].email)',
         \A a \in Addresses : pending'[a] = pending[a] \/ ProvedBy(pending[a].code, a)',
         \A h \in Handlers : pc'[h] = "insert" =>
           \/ pc[h] = "insert" /\ req'[h] = req[h]
           \/ ProvedBy(req[h].code, req[h].email)'
  PROVE  MailInv'
  <1>1. \A c \in 0..MaxCodes : \A a : ProvedBy(c, a) => (c # 0 => a # NoEmail /\ mailed'[c] = a)
    BY ProofsStay
  <1>2. \A u \in exists' : ProvedBy(proof[u], email[u])'
    <2> SUFFICES ASSUME NEW u \in exists', u \in exists, proof'[u] = proof[u], email'[u] = email[u]
                 PROVE  ProvedBy(proof[u], email[u])'
      OBVIOUS
    <2>1. proof[u] \in 0..MaxCodes /\ ProvedBy(proof[u], email[u])
      <3>1. u \in Accounts!Users
        BY AccountConstants DEF UserTypes, Accounts!Users
      <3> QED
        BY <3>1 DEF UserTypes, MailInv
    <2> QED
      BY <1>1, <2>1 DEF ProvedBy
  <1>3. \A u \in Accounts!Users : ProvedBy(request[u].code, request[u].email)'
    <2> SUFFICES ASSUME NEW u \in Accounts!Users, request'[u] = request[u]
                 PROVE  ProvedBy(request[u].code, request[u].email)'
      OBVIOUS
    <2>1. request[u].code \in 0..MaxCodes /\ ProvedBy(request[u].code, request[u].email)
      BY DEF UserTypes, MailInv
    <2> QED
      BY <1>1, <2>1 DEF ProvedBy
  <1>4. \A a \in Addresses : ProvedBy(pending[a].code, a)'
    <2> SUFFICES ASSUME NEW a \in Addresses, pending'[a] = pending[a]
                 PROVE  ProvedBy(pending[a].code, a)'
      OBVIOUS
    <2>1. pending[a].code \in 0..MaxCodes /\ ProvedBy(pending[a].code, a)
      BY DEF RowTypes, MailInv
    <2> QED
      BY <1>1, <2>1 DEF ProvedBy
  <1>5. \A h \in Handlers : pc'[h] = "insert" => ProvedBy(req[h].code, req[h].email)'
    <2> SUFFICES ASSUME NEW h \in Handlers, pc[h] = "insert", req'[h] = req[h]
                 PROVE  ProvedBy(req[h].code, req[h].email)'
      OBVIOUS
    <2>1. req[h].code \in 0..MaxCodes /\ ProvedBy(req[h].code, req[h].email)
      BY DEF HandlersFit, AccountReqs, MailInv
    <2> QED
      BY <1>1, <2>1 DEF ProvedBy
  <1>6. Accounts!Users' = Accounts!Users /\ Accounts!Codes' = Accounts!Codes
    BY DEF Accounts!Users, Accounts!Codes
  <1> QED
    BY <1>2, <1>3, <1>4, <1>5, <1>6 DEF MailInv

\* The next code is one that nobody has been mailed.
LEMMA Mails ==
  ASSUME RowTypes, MailInv, NEW a \in Addresses, Accounts!send_mail(a)
  PROVE  /\ Accounts!Sent + 1 \in Accounts!Codes
         /\ mailed' \in [Accounts!Codes -> Accounts!Emails]
         /\ mailed'[Accounts!Sent + 1] = a /\ mailed[Accounts!Sent + 1] # a
         /\ \A c \in Accounts!Codes : mailed[c] # NoEmail => mailed'[c] = mailed[c]
         /\ \E n \in 0..MaxCodes : \A c \in Accounts!Codes : mailed'[c] # NoEmail <=> c <= n
  <1>1. PICK n \in 0..MaxCodes : \A c \in Accounts!Codes : mailed[c] # NoEmail <=> c <= n
    BY DEF MailInv
  <1>2. Accounts!Sent = n
    <2>1. {c \in Accounts!Codes : mailed[c] # NoEmail} = 1..n
      BY <1>1, AccountConstants DEF Accounts!Codes
    <2>2. Cardinality(1..n) = n
      <3>1. Cardinality(1..n) = IF 1 > n THEN 0 ELSE n - 1 + 1
        BY AccountConstants, FS_Interval
      <3> QED
        BY <3>1, AccountConstants
    <2> QED
      BY <2>1, <2>2, SameCardinality DEF Accounts!Sent
  <1>3. /\ n < MaxCodes /\ n + 1 \in Accounts!Codes /\ mailed' = [mailed EXCEPT ![n + 1] = a]
        /\ mailed[n + 1] = NoEmail /\ a \in Accounts!Emails /\ a # NoEmail
    BY <1>1, <1>2, AccountConstants DEF Accounts!send_mail, Accounts!Codes, Accounts!Emails
  <1>4. mailed' \in [Accounts!Codes -> Accounts!Emails]
    BY <1>3 DEF RowTypes
  <1>5. mailed'[n + 1] = a /\ \A c \in Accounts!Codes \ {n + 1} : mailed'[c] = mailed[c]
    BY <1>3 DEF RowTypes
  <1>6. \A c \in Accounts!Codes : mailed'[c] # NoEmail <=> c <= n + 1
    <2> SUFFICES ASSUME NEW c \in Accounts!Codes PROVE mailed'[c] # NoEmail <=> c <= n + 1
      OBVIOUS
    <2>1. CASE c = n + 1
      BY <1>3, <1>5, <2>1 DEF Accounts!Codes
    <2>2. CASE c # n + 1
      BY <1>1, <1>5, <2>2, AccountConstants DEF Accounts!Codes
    <2> QED
      BY <2>1, <2>2
  <1>7. n + 1 \in 0..MaxCodes
    BY <1>3, AccountConstants DEF Accounts!Codes
  <1> QED
    BY <1>2, <1>3, <1>4, <1>5, <1>6, <1>7

-----------------------------------------------------------------------------
(* The steps of the accounts *)

RowsStay ==
  UNCHANGED <<exists, email, made, proof, pending, request, linked, states, starts, accepted,
              doubled, mailed, faults>>

\* A request that only moves, and neither to nor from the writing part of a sign-in.
LEMMA MoveStep ==
  ASSUME AccountInv, NEW h \in Handlers, NEW where, NEW r, Fits(where, r, made), RowsStay,
         pc' = [pc EXCEPT ![h] = where], req' = [req EXCEPT ![h] = r],
         pc[h] \notin {"create", "link"}, where \notin {"create", "link"},
         where = "insert" => ProvedBy(r.code, r.email),
         where = "take" => r.identity \in states
  PROVE  AccountInv'
  <1>0. HandlersFit /\ UserTypes /\ RowTypes /\ MailInv /\ OwnersInv /\ LinkInv /\ FirstInv /\ StateInv
    BY DEF AccountInv
  <1>1. HandlersFit' /\ pc'[h] = where /\ req'[h] = r /\ OthersStay(h)
    <2>1. Fits(where, r, made') /\ 1..made \subseteq 1..made'
      BY DEF RowsStay
    <2> QED
      BY <1>0, <2>1, Moves
  <1>2. UserTypes' /\ RowTypes'
    BY <1>0 DEF UserTypes, RowTypes, RowsStay, Accounts!Users, Accounts!Emails, Accounts!Codes,
                Accounts!NoRequest
  <1>3. MailInv'
    <2>1. \A i \in Handlers : pc'[i] = "insert" =>
            \/ pc[i] = "insert" /\ req'[i] = req[i]
            \/ ProvedBy(req[i].code, req[i].email)'
      <3> SUFFICES ASSUME NEW i \in Handlers, pc'[i] = "insert", i = h
                   PROVE  ProvedBy(req[i].code, req[i].email)'
        BY <1>1 DEF OthersStay
      <3> QED
        BY <1>1 DEF ProvedBy, RowsStay
    <2>2. \E n \in 0..MaxCodes : \A c \in Accounts!Codes : mailed'[c] # NoEmail <=> c <= n
      BY <1>0 DEF MailInv, RowsStay
    <2> QED
      BY <1>0, <2>1, <2>2, MailKept DEF RowsStay
  <1>4. OwnersInv'
    BY <1>0 DEF OwnersInv, RowsStay
  <1>5. LinkInv'
    BY <1>0, <1>1, LinksStay DEF RowsStay, OthersStay
  <1>6. FirstInv'
    <2>1. \A i \in Handlers : pc[i] \in {"create", "link"} \/ pc'[i] \in {"create", "link"} =>
            pc'[i] = pc[i] /\ req'[i] = req[i]
      BY <1>1 DEF OthersStay
    <2> QED
      BY <1>0, <2>1, FirstStays DEF RowsStay
  <1>7. StateInv'
    <2>1. \A i \in Handlers : pc'[i] = "take" =>
            req'[i].identity \in states \/ (pc[i] = "take" /\ req'[i] = req[i])
      BY <1>1 DEF OthersStay
    <2> QED
      BY <1>0, <2>1, StatesStay DEF RowsStay
  <1> QED
    BY <1>1, <1>2, <1>3, <1>4, <1>5, <1>6, <1>7 DEF AccountInv

\* An idle request begins, with what it has checked.
LEMMA BeginStep ==
  ASSUME AccountInv, NEW h \in Handlers, NEW where, NEW r, Fits(where, r, made), RowsStay,
         Accounts!Begin(h, where, r), where \notin {"create", "link"},
         where = "insert" => ProvedBy(r.code, r.email),
         where = "take" => r.identity \in states
  PROVE  AccountInv'
  BY MoveStep DEF Accounts!Begin

\* The requests that have checked and not yet written.
LEMMA ChecksStep ==
  ASSUME AccountInv, NEW h \in Handlers
  PROVE  /\ \A a \in Addresses :
              Accounts!PostRegister(h, a) \/ Accounts!RegisterComplete(h, a) => AccountInv'
         /\ \A i \in Identities :
              Accounts!get_oauth_state(h, i) \/ Accounts!OAuthGoogleExchange(h, i) => AccountInv'
         /\ \A u \in Accounts!Users, a \in Addresses :
              Accounts!RequestEmail(h, u, a) => AccountInv'
         /\ \A u \in Accounts!Users, a \in Addresses, c \in Accounts!Codes :
              Accounts!VerifyEmail(h, u, a, c) => AccountInv'
  <1>0. /\ Accounts!NoReq \in AccountReqs /\ Accounts!NoReq = [user |-> 0, email |-> NoEmail,
                                                          identity |-> NoIdentity, code |-> 0]
        /\ RowTypes /\ MailInv
    BY AccountConstants DEF AccountReqs, Accounts!NoReq, AccountInv
  <1>1. ASSUME NEW a \in Addresses, Accounts!PostRegister(h, a) PROVE AccountInv'
    <2>1. Fits("register", [Accounts!NoReq EXCEPT !.email = a], made)
      BY <1>0, AccountConstants DEF Fits, AccountReqs, Accounts!At
    <2>2. RowsStay /\ Accounts!Begin(h, "register", [Accounts!NoReq EXCEPT !.email = a])
      BY <1>1 DEF Accounts!PostRegister, RowsStay, Accounts!userVars, Accounts!oauthVars
    <2> QED
      BY <2>1, <2>2, BeginStep
  <1>2. ASSUME NEW a \in Addresses, Accounts!RegisterComplete(h, a) PROVE AccountInv'
    <2> DEFINE r == [Accounts!NoReq EXCEPT !.email = a, !.code = pending[a].code]
    <2>1. pending[a].code \in 0..MaxCodes /\ ProvedBy(pending[a].code, a)
      BY <1>0 DEF RowTypes, MailInv
    <2>2. r \in AccountReqs /\ r.email = a /\ r.code = pending[a].code
      BY <1>0, <2>1, AccountConstants DEF AccountReqs
    <2>3. RowsStay /\ Accounts!Begin(h, "insert", r)
      BY <1>2 DEF Accounts!RegisterComplete, RowsStay, Accounts!userVars, Accounts!oauthVars
    <2> HIDE DEF r
    <2>4. Fits("insert", r, made)
      BY <2>2 DEF Fits, Accounts!At
    <2> QED
      BY <2>1, <2>2, <2>3, <2>4, BeginStep
  <1>3. ASSUME NEW i \in Identities, Accounts!get_oauth_state(h, i) PROVE AccountInv'
    <2> DEFINE r == [Accounts!NoReq EXCEPT !.identity = i]
    <2>1. r \in AccountReqs /\ r.identity = i
      BY <1>0, AccountConstants DEF AccountReqs
    <2>2. RowsStay /\ Accounts!Begin(h, "take", r) /\ i \in states
      BY <1>3 DEF Accounts!get_oauth_state, RowsStay, Accounts!userVars, Accounts!oauthVars
    <2> HIDE DEF r
    <2>3. Fits("take", r, made)
      BY <2>1 DEF Fits, Accounts!At
    <2> QED
      BY <2>1, <2>2, <2>3, BeginStep
  <1>4. ASSUME NEW i \in Identities, Accounts!OAuthGoogleExchange(h, i) PROVE AccountInv'
    <2> DEFINE r == [Accounts!NoReq EXCEPT !.identity = i]
    <2>1. r \in AccountReqs /\ r.identity = i
      BY <1>0, AccountConstants DEF AccountReqs
    <2>2. RowsStay /\ Accounts!Begin(h, "native", r) /\ EmailOf[i] # NoEmail
      BY <1>4 DEF Accounts!OAuthGoogleExchange, RowsStay, Accounts!userVars, Accounts!oauthVars
    <2> HIDE DEF r
    <2>3. Fits("native", r, made)
      BY <2>1, <2>2 DEF Fits, Accounts!At
    <2> QED
      BY <2>2, <2>3, BeginStep
  <1>5. ASSUME NEW u \in Accounts!Users, NEW a \in Addresses, Accounts!RequestEmail(h, u, a)
        PROVE  AccountInv'
    <2> DEFINE r == [Accounts!NoReq EXCEPT !.user = u, !.email = a]
    <2>1. r \in AccountReqs /\ r.user = u /\ r.email = a
      <3>1. u \in 0..MaxUsers
        BY AccountConstants DEF Accounts!Users
      <3> QED
        BY <1>0, <3>1 DEF AccountReqs
    <2>2. RowsStay /\ Accounts!Begin(h, "request", r)
      BY <1>5 DEF Accounts!RequestEmail, RowsStay, Accounts!userVars, Accounts!oauthVars
    <2> HIDE DEF r
    <2>3. Fits("request", r, made)
      BY <2>1 DEF Fits, Accounts!At
    <2> QED
      BY <2>2, <2>3, BeginStep
  <1>6. ASSUME NEW u \in Accounts!Users, NEW a \in Addresses, NEW c \in Accounts!Codes,
               Accounts!VerifyEmail(h, u, a, c)
        PROVE  AccountInv'
    <2> DEFINE r == [Accounts!NoReq EXCEPT !.user = u, !.email = a, !.code = c]
    <2>1. r \in AccountReqs /\ r.user = u /\ r.email = a
      <3>1. u \in 0..MaxUsers /\ c \in 0..MaxCodes
        BY AccountConstants DEF Accounts!Users, Accounts!Codes
      <3> QED
        BY <1>0, <3>1 DEF AccountReqs
    <2>2. RowsStay /\ Accounts!Begin(h, "verify", r)
      BY <1>6 DEF Accounts!VerifyEmail, RowsStay, Accounts!userVars, Accounts!oauthVars
    <2> HIDE DEF r
    <2>3. Fits("verify", r, made)
      BY <2>1 DEF Fits, Accounts!At
    <2> QED
      BY <2>2, <2>3, BeginStep
  <1> QED
    BY <1>1, <1>2, <1>3, <1>4, <1>5, <1>6

\* A request ends without touching an account, a link or a state.
LEMMA EndStep ==
  ASSUME AccountInv, NEW h \in Handlers, Accounts!Done(h), pc[h] \notin {"create", "link"},
         UNCHANGED <<exists, email, made, linked, states, starts, accepted, doubled>>,
         faults' \in {faults, faults + 1}
  PROVE  /\ HandlersFit' /\ OwnersInv' /\ LinkInv' /\ FirstInv' /\ StateInv'
         /\ \A i \in Handlers : pc'[i] = "insert" => pc[i] = "insert" /\ req'[i] = req[i]
  <1>0. HandlersFit /\ UserTypes /\ RowTypes /\ OwnersInv /\ LinkInv /\ FirstInv /\ StateInv
    BY DEF AccountInv
  <1>1. HandlersFit' /\ pc'[h] = "idle" /\ OthersStay(h)
    BY <1>0, DoneMoves
  <1>2. OwnersInv'
    BY <1>0 DEF OwnersInv
  <1>3. LinkInv'
    BY <1>0, <1>1, LinksStay DEF OthersStay
  <1>4. FirstInv'
    <2>1. \A i \in Handlers : pc[i] \in {"create", "link"} \/ pc'[i] \in {"create", "link"} =>
            pc'[i] = pc[i] /\ req'[i] = req[i]
      BY <1>1 DEF OthersStay
    <2> QED
      BY <1>0, <2>1, FirstStays
  <1>5. StateInv'
    <2>1. \A i \in Handlers : pc'[i] = "take" =>
            req'[i].identity \in states \/ (pc[i] = "take" /\ req'[i] = req[i])
      BY <1>1 DEF OthersStay
    <2> QED
      BY <1>0, <2>1, StatesStay
  <1>6. \A i \in Handlers : pc'[i] = "insert" => pc[i] = "insert" /\ req'[i] = req[i]
    BY <1>1 DEF OthersStay
  <1> QED
    BY <1>1, <1>2, <1>3, <1>4, <1>5, <1>6

\* post_register's upsert: a new code is kept with the address it is mailed to.
LEMMA UpsertPendingStep ==
  ASSUME AccountInv, NEW h \in Handlers, Accounts!UpsertPending(h)
  PROVE  AccountInv'
  <1> DEFINE a == req[h].email
             row == [code |-> IF mailed' = mailed THEN 0 ELSE Accounts!Sent + 1, verified |-> FALSE]
  <1>0. HandlersFit /\ UserTypes /\ RowTypes /\ MailInv
    BY DEF AccountInv
  <1>1. a \in Addresses
    BY <1>0 DEF Accounts!UpsertPending, HandlersFit, Fits
  <1>2. /\ pc[h] = "register" /\ Accounts!Done(h) /\ pending' = [pending EXCEPT ![a] = row]
        /\ UNCHANGED <<exists, email, made, proof, request, linked, states, starts, accepted, doubled>>
    BY DEF Accounts!UpsertPending, Accounts!userVars, Accounts!oauthVars
  <1>3. \/ Accounts!send_mail(a) /\ faults' = faults
        \/ mailed' = mailed /\ faults' = faults + 1 /\ faults' \in 0..MaxFaults
    BY <1>0, FaultCounts DEF Accounts!UpsertPending, Accounts!NoFault
  <1>4. /\ mailed' \in [Accounts!Codes -> Accounts!Emails]
        /\ \A c \in Accounts!Codes : mailed[c] # NoEmail => mailed'[c] = mailed[c]
        /\ \E n \in 0..MaxCodes : \A c \in Accounts!Codes : mailed'[c] # NoEmail <=> c <= n
        /\ row.code \in 0..MaxCodes /\ row.verified = FALSE
        /\ row.code # 0 => mailed'[row.code] = a
    <2>1. CASE mailed' = mailed
      BY <1>0, <2>1, AccountConstants DEF RowTypes, MailInv
    <2>2. CASE mailed' # mailed
      <3>1. Accounts!send_mail(a)
        BY <1>3, <2>2
      <3>2. row.code = Accounts!Sent + 1 /\ row.verified = FALSE
        BY <2>2
      <3> HIDE DEF row
      <3> QED
        BY <1>0, <1>1, <3>1, <3>2, Mails, AccountConstants DEF Accounts!Codes
    <2> QED
      BY <2>1, <2>2
  <1> HIDE DEF a
  <1>5. /\ HandlersFit' /\ OwnersInv' /\ LinkInv' /\ FirstInv' /\ StateInv'
        /\ \A i \in Handlers : pc'[i] = "insert" => pc[i] = "insert" /\ req'[i] = req[i]
    BY <1>2, <1>3, EndStep
  <1>6. UserTypes'
    BY <1>0, <1>2 DEF UserTypes, Accounts!Users, Accounts!Emails, Accounts!NoRequest
  <1>7. RowTypes'
    <2>1. row \in [code : 0..MaxCodes, verified : BOOLEAN]
      BY <1>4
    <2> HIDE DEF row
    <2>2. pending' \in [Addresses -> [code : 0..MaxCodes, verified : BOOLEAN]]
      BY <1>0, <1>1, <1>2, <2>1 DEF RowTypes
    <2>3. faults' \in 0..MaxFaults
      BY <1>0, <1>3 DEF RowTypes
    <2> QED
      BY <1>0, <1>2, <1>4, <2>2, <2>3 DEF RowTypes, Accounts!Codes, Accounts!Emails
  <1>8. MailInv'
    <2> HIDE DEF row
    <2>1. pending'[a] = row /\ \A b \in Addresses \ {a} : pending'[b] = pending[b]
      BY <1>0, <1>1, <1>2 DEF RowTypes
    <2>2. \A b \in Addresses : pending'[b] = pending[b] \/ ProvedBy(pending[b].code, b)'
      <3> SUFFICES ASSUME NEW b \in Addresses, b = a PROVE ProvedBy(pending[b].code, b)'
        BY <2>1
      <3> QED
        BY <1>1, <1>4, <2>1, AccountConstants DEF ProvedBy
    <2> QED
      BY <1>0, <1>2, <1>4, <1>5, <2>2, MailKept
  <1> QED
    BY <1>5, <1>6, <1>7, <1>8 DEF AccountInv

\* The code of the pending registration is the one mailed: it is marked proved.
LEMMA RegisterVerifyStep ==
  ASSUME AccountInv, NEW a \in Addresses, NEW c \in Accounts!Codes, Accounts!RegisterVerify(a, c)
  PROVE  AccountInv'
  <1>0. /\ HandlersFit /\ UserTypes /\ RowTypes /\ MailInv
        /\ OwnersInv /\ LinkInv /\ FirstInv /\ StateInv
    BY DEF AccountInv
  <1>1. /\ pending' = [pending EXCEPT ![a].verified = TRUE]
        /\ UNCHANGED <<exists, email, made, proof, request, linked, states, starts, accepted, doubled,
                       pc, req, mailed, faults>>
    BY DEF Accounts!RegisterVerify, Accounts!mark_pending_registration_verified,
           Accounts!userVars, Accounts!oauthVars
  <1>2. /\ pending' \in [Addresses -> [code : 0..MaxCodes, verified : BOOLEAN]]
        /\ \A b \in Addresses : pending'[b].code = pending[b].code
    <2>1. pending \in [Addresses -> [code : 0..MaxCodes, verified : BOOLEAN]]
      BY <1>0 DEF RowTypes
    <2>2. [pending[a] EXCEPT !.verified = TRUE] \in [code : 0..MaxCodes, verified : BOOLEAN]
      BY <2>1
    <2>3. pending' = [pending EXCEPT ![a] = [pending[a] EXCEPT !.verified = TRUE]]
      BY <1>1, Zenon
    <2> QED
      BY <2>1, <2>2, <2>3
  <1>3. UserTypes' /\ RowTypes'
    BY <1>0, <1>1, <1>2
    DEF UserTypes, RowTypes, Accounts!Users, Accounts!Codes, Accounts!Emails, Accounts!NoRequest
  <1>4. HandlersFit'
    BY <1>0, <1>1 DEF HandlersFit, Fits, AccountReqs, Accounts!At, Accounts!Users
  <1>5. MailInv'
    BY <1>0, <1>1, <1>2 DEF MailInv, ProvedBy, Accounts!Users, Accounts!Codes
  <1>6. OwnersInv' /\ LinkInv' /\ FirstInv' /\ StateInv'
    BY <1>0, <1>1, LinksStay, FirstStays, StatesStay DEF OwnersInv
  <1> QED
    BY <1>3, <1>4, <1>5, <1>6 DEF AccountInv

\* post_register_complete deletes the pending registration it has turned into an account.
LEMMA DeletePendingStep ==
  ASSUME AccountInv, NEW h \in Handlers, Accounts!DeletePending(h)
  PROVE  AccountInv'
  <1> DEFINE a == req[h].email
  <1>0. HandlersFit /\ UserTypes /\ RowTypes /\ MailInv
    BY DEF AccountInv
  <1>1. a \in Addresses
    BY <1>0 DEF Accounts!DeletePending, HandlersFit, Fits
  <1>2. /\ pc[h] = "cleanup" /\ Accounts!Done(h)
        /\ UNCHANGED <<exists, email, made, proof, request, linked, states, starts, accepted, doubled,
                       mailed>>
    BY DEF Accounts!DeletePending, Accounts!userVars, Accounts!oauthVars
  <1>3. \/ pending' = [pending EXCEPT ![a] = Accounts!NoPending] /\ faults' = faults
        \/ pending' = pending /\ faults' = faults + 1 /\ faults' \in 0..MaxFaults
    BY <1>0, FaultCounts
    DEF Accounts!DeletePending, Accounts!NoFault, Accounts!delete_pending_registration
  <1> HIDE DEF a
  <1>4. /\ pending' \in [Addresses -> [code : 0..MaxCodes, verified : BOOLEAN]]
        /\ \A b \in Addresses : pending'[b] = pending[b] \/ pending'[b].code = 0
    <2>1. /\ Accounts!NoPending \in [code : 0..MaxCodes, verified : BOOLEAN]
          /\ Accounts!NoPending.code = 0
      BY AccountConstants DEF Accounts!NoPending
    <2>2. pending \in [Addresses -> [code : 0..MaxCodes, verified : BOOLEAN]]
      BY <1>0 DEF RowTypes
    <2> QED
      BY <1>1, <1>3, <2>1, <2>2
  <1>5. /\ HandlersFit' /\ OwnersInv' /\ LinkInv' /\ FirstInv' /\ StateInv'
        /\ \A i \in Handlers : pc'[i] = "insert" => pc[i] = "insert" /\ req'[i] = req[i]
    BY <1>2, <1>3, EndStep
  <1>6. UserTypes'
    BY <1>0, <1>2 DEF UserTypes, Accounts!Users, Accounts!Emails, Accounts!NoRequest
  <1>7. RowTypes'
    <2>1. faults' \in 0..MaxFaults
      BY <1>0, <1>3 DEF RowTypes
    <2> QED
      BY <1>0, <1>2, <1>4, <2>1 DEF RowTypes, Accounts!Codes, Accounts!Emails
  <1>8. MailInv'
    <2>1. \E n \in 0..MaxCodes : \A c \in Accounts!Codes : mailed'[c] # NoEmail <=> c <= n
      BY <1>0, <1>2 DEF MailInv
    <2>2. \A b \in Addresses : pending'[b] = pending[b] \/ ProvedBy(pending[b].code, b)'
      BY <1>4 DEF ProvedBy
    <2> QED
      BY <1>0, <1>2, <1>5, <2>1, <2>2, MailKept
  <1> QED
    BY <1>5, <1>6, <1>7, <1>8 DEF AccountInv

\* post_request_email's upsert: a new code is kept with the account and address it is for.
LEMMA UpsertRequestStep ==
  ASSUME AccountInv, NEW h \in Handlers, Accounts!UpsertRequest(h)
  PROVE  AccountInv'
  <1> DEFINE a == req[h].email
             w == req[h].user
             row == [email |-> a, code |-> Accounts!Sent + 1]
  <1>0. HandlersFit /\ UserTypes /\ RowTypes /\ MailInv
    BY DEF AccountInv
  <1>1. a \in Addresses /\ w \in Accounts!Users /\ a \in Accounts!Emails
    BY <1>0 DEF Accounts!UpsertRequest, HandlersFit, Fits, Accounts!Emails
  <1>2. /\ pc[h] = "request" /\ Accounts!Done(h)
        /\ UNCHANGED <<exists, email, made, proof, pending, linked, states, starts, accepted, doubled,
                       faults>>
    BY DEF Accounts!UpsertRequest, Accounts!userVars, Accounts!oauthVars, Accounts!NoFault
  <1>3. \/ w \in exists /\ Accounts!send_mail(a) /\ request' = [request EXCEPT ![w] = row]
        \/ request' = request /\ mailed' = mailed
    BY DEF Accounts!UpsertRequest
  <1>4. /\ mailed' \in [Accounts!Codes -> Accounts!Emails]
        /\ \A c \in Accounts!Codes : mailed[c] # NoEmail => mailed'[c] = mailed[c]
        /\ \E n \in 0..MaxCodes : \A c \in Accounts!Codes : mailed'[c] # NoEmail <=> c <= n
        /\ \/ /\ w \in exists /\ request' = [request EXCEPT ![w] = row]
              /\ row.code \in 0..MaxCodes /\ row.email = a /\ mailed'[row.code] = a
           \/ request' = request
    <2>1. CASE request' = request /\ mailed' = mailed
      BY <1>0, <2>1 DEF RowTypes, MailInv
    <2>2. CASE w \in exists /\ Accounts!send_mail(a) /\ request' = [request EXCEPT ![w] = row]
      <3>1. row.code = Accounts!Sent + 1 /\ row.email = a
        OBVIOUS
      <3> HIDE DEF row
      <3> QED
        BY <1>0, <1>1, <2>2, <3>1, Mails, AccountConstants DEF Accounts!Codes
    <2> QED
      BY <1>3, <2>1, <2>2
  <1>5. /\ HandlersFit' /\ OwnersInv' /\ LinkInv' /\ FirstInv' /\ StateInv'
        /\ \A i \in Handlers : pc'[i] = "insert" => pc[i] = "insert" /\ req'[i] = req[i]
    BY <1>2, EndStep
  <1>6. /\ request' \in [Accounts!Users -> [email : Accounts!Emails, code : 0..MaxCodes]]
        /\ \A u \in Accounts!Users : \/ request'[u] = request[u]
                                     \/ u \in exists /\ ProvedBy(request[u].code, request[u].email)'
    <2>0. request \in [Accounts!Users -> [email : Accounts!Emails, code : 0..MaxCodes]]
      BY <1>0 DEF UserTypes
    <2>1. CASE request' = request
      BY <2>0, <2>1
    <2>2. CASE /\ w \in exists /\ request' = [request EXCEPT ![w] = row]
               /\ row.code \in 0..MaxCodes /\ row.email = a /\ mailed'[row.code] = a
      <3>1. row \in [email : Accounts!Emails, code : 0..MaxCodes]
        BY <1>1, <2>2
      <3> HIDE DEF row, a, w
      <3>2. /\ request' \in [Accounts!Users -> [email : Accounts!Emails, code : 0..MaxCodes]]
            /\ request'[w] = row /\ \A u \in Accounts!Users \ {w} : request'[u] = request[u]
        BY <1>1, <2>0, <2>2, <3>1
      <3> QED
        BY <1>1, <2>2, <3>2, AccountConstants DEF ProvedBy
    <2> QED
      BY <1>4, <2>1, <2>2
  <1> HIDE DEF a, w, row
  <1>7. UserTypes'
    BY <1>0, <1>2, <1>6 DEF UserTypes, Accounts!Users, Accounts!Emails, Accounts!NoRequest
  <1>8. RowTypes'
    BY <1>0, <1>2, <1>4 DEF RowTypes, Accounts!Codes, Accounts!Emails
  <1>9. MailInv'
    BY <1>0, <1>2, <1>4, <1>5, <1>6, MailKept
  <1> QED
    BY <1>5, <1>7, <1>8, <1>9 DEF AccountInv

\* INSERT INTO users: a row with an id that was never used, and an address nobody has.
LEMMA UserInserted ==
  ASSUME AccountInv, NEW a \in Accounts!Emails, NEW c \in 0..MaxCodes,
         Accounts!insert_user(a, c), request' = request
  PROVE  /\ made' = made + 1 /\ 1..made \subseteq 1..made' /\ made + 1 \in 1..made'
         /\ made + 1 \notin exists /\ made + 1 \notin 1..made
         /\ exists' = exists \cup {made + 1} /\ exists' \cap 1..made \subseteq exists
         /\ \A u \in exists : email'[u] = email[u] /\ proof'[u] = proof[u]
         /\ email'[made + 1] = a /\ proof'[made + 1] = c
         /\ made + 1 \in 0..MaxUsers
         /\ UserTypes' /\ OwnersInv'
  <1>0. UserTypes /\ OwnersInv /\ made \in Nat /\ made < MaxUsers
    BY AccountConstants DEF AccountInv, UserTypes, Accounts!insert_user
  <1>1. /\ made' = made + 1 /\ exists' = exists \cup {made + 1} /\ made + 1 \in Accounts!Users
        /\ exists \subseteq 1..made /\ exists \subseteq Accounts!Users
        /\ email' = [email EXCEPT ![made + 1] = a] /\ proof' = [proof EXCEPT ![made + 1] = c]
    BY <1>0, AccountConstants DEF Accounts!insert_user, Accounts!Users, UserTypes
  <1>2. /\ made + 1 \notin 1..made /\ made + 1 \notin exists /\ made + 1 \in 1..made'
        /\ 1..made \subseteq 1..made' /\ made + 1 \in 0..MaxUsers
    BY <1>0, <1>1, AccountConstants
  <1>3. exists' \cap 1..made \subseteq exists
    BY <1>1, <1>2
  <1>4. /\ email' \in [Accounts!Users -> Accounts!Emails] /\ proof' \in [Accounts!Users -> 0..MaxCodes]
        /\ email'[made + 1] = a /\ proof'[made + 1] = c
        /\ \A u \in Accounts!Users \ {made + 1} : email'[u] = email[u] /\ proof'[u] = proof[u]
    BY <1>0, <1>1 DEF UserTypes
  <1>5. UserTypes'
    <2>1. exists' \subseteq 1..made' /\ made' \in 0..MaxUsers
      BY <1>0, <1>1, <1>2
    <2>2. \A u \in Accounts!Users \ exists' : email'[u] = NoEmail /\ request'[u] = Accounts!NoRequest
      BY <1>0, <1>1, <1>4 DEF UserTypes
    <2> QED
      BY <1>0, <1>4, <2>1, <2>2
      DEF UserTypes, Accounts!Users, Accounts!Emails, Accounts!NoRequest
  <1>6. OwnersInv'
    <2>1. a = NoEmail \/ \A u \in exists : email[u] # a
      BY DEF Accounts!insert_user, Accounts!Taken, Accounts!Owners
    <2> QED
      BY <1>0, <1>1, <1>2, <1>4, <2>1 DEF OwnersInv
  <1> QED
    BY <1>1, <1>2, <1>3, <1>4, <1>5, <1>6

\* An account with an address is made, and no sign-in that writes moves.
LEMMA InsertStep ==
  ASSUME AccountInv, NEW a \in Accounts!Emails, a # NoEmail, NEW c \in 0..MaxCodes,
         Accounts!insert_user(a, c), ProvedBy(c, a), HandlersFit',
         UNCHANGED <<pending, request, linked, states, starts, accepted, doubled, mailed, faults>>,
         \A i \in Handlers : pc[i] \in {"create", "link"} \/ pc'[i] \in {"create", "link", "insert", "take"} =>
                               pc'[i] = pc[i] /\ req'[i] = req[i]
  PROVE  AccountInv'
  <1>0. /\ HandlersFit /\ UserTypes /\ RowTypes /\ MailInv
        /\ OwnersInv /\ LinkInv /\ FirstInv /\ StateInv
    BY DEF AccountInv
  <1>1. /\ made + 1 \notin exists /\ made + 1 \notin 1..made
        /\ exists' = exists \cup {made + 1} /\ exists' \cap 1..made \subseteq exists
        /\ \A u \in exists : email'[u] = email[u] /\ proof'[u] = proof[u]
        /\ email'[made + 1] = a /\ proof'[made + 1] = c
        /\ UserTypes' /\ OwnersInv'
    BY UserInserted
  <1>2. RowTypes'
    BY <1>0 DEF RowTypes, Accounts!Codes, Accounts!Emails
  <1>3. MailInv'
    <2>1. \A u \in exists' : \/ u \in exists /\ proof'[u] = proof[u] /\ email'[u] = email[u]
                             \/ ProvedBy(proof[u], email[u])'
      BY <1>1 DEF ProvedBy
    <2>2. \E n \in 0..MaxCodes : \A k \in Accounts!Codes : mailed'[k] # NoEmail <=> k <= n
      BY <1>0 DEF MailInv
    <2> QED
      BY <1>0, <2>1, <2>2, MailKept
  <1>4. LinkInv'
    BY <1>0, <1>1, LinksStay
  <1>5. FirstInv'
    <2>1. \A u \in exists' : \/ u \in exists /\ (email[u] # NoEmail => email'[u] # NoEmail)
                             \/ u \notin 1..made /\ email'[u] # NoEmail
      BY <1>1
    <2> QED
      BY <1>0, <2>1, FirstStays
  <1>6. StateInv'
    BY <1>0, StatesStay
  <1> QED
    BY <1>1, <1>2, <1>3, <1>4, <1>5, <1>6 DEF AccountInv

\* An administrator makes an account with a free address.
LEMMA PostUserStep ==
  ASSUME AccountInv, NEW a \in Addresses, Accounts!PostUser(a)
  PROVE  AccountInv'
  <1>0. HandlersFit /\ UserTypes
    BY DEF AccountInv
  <1>1. /\ Accounts!insert_user(a, 0)
        /\ UNCHANGED <<pending, request, linked, states, starts, accepted, doubled, mailed, faults, pc, req>>
    BY DEF Accounts!PostUser, Accounts!oauthVars
  <1>2. a \in Accounts!Emails /\ a # NoEmail /\ 0 \in 0..MaxCodes /\ ProvedBy(0, a)
    BY AccountConstants DEF Accounts!Emails, ProvedBy
  <1>3. HandlersFit'
    <2>1. 1..made \subseteq 1..made'
      BY <1>1, <1>2, UserInserted
    <2> QED
      BY <1>0, <1>1, <2>1 DEF HandlersFit, Fits, AccountReqs, Accounts!At, Accounts!Users
  <1> QED
    BY <1>1, <1>2, <1>3, InsertStep

\* An INSERT that met a taken address: the request ends.
LEMMA TakenStep ==
  ASSUME AccountInv, NEW h \in Handlers, Accounts!Done(h), pc[h] \notin {"create", "link"}, RowsStay
  PROVE  AccountInv'
  BY MoveStep, IdleFits DEF Accounts!Done

\* post_register_complete's INSERT, or its failure on an address taken meanwhile.
LEMMA InsertRegisteredStep ==
  ASSUME AccountInv, NEW h \in Handlers, Accounts!InsertRegistered(h)
  PROVE  AccountInv'
  <1>0. HandlersFit /\ UserTypes /\ MailInv
    BY DEF AccountInv
  <1>1. /\ pc[h] = "insert"
        /\ UNCHANGED <<pending, request, linked, states, starts, accepted, doubled, mailed, faults>>
    BY DEF Accounts!InsertRegistered, Accounts!oauthVars
  <1>2. CASE Accounts!insert_user(req[h].email, req[h].code) /\ Accounts!Goto(h, "cleanup")
    <2>1. /\ Fits("insert", req[h], made) /\ ProvedBy(req[h].code, req[h].email)
      BY <1>0, <1>1 DEF HandlersFit, MailInv
    <2>2. /\ req[h].email \in Addresses /\ req[h].email \in Accounts!Emails /\ req[h].email # NoEmail
          /\ req[h].code \in 0..MaxCodes
      BY <2>1, AccountConstants DEF Fits, Accounts!Emails, AccountReqs
    <2>3. 1..made \subseteq 1..made'
      BY <1>1, <1>2, <2>2, UserInserted
    <2>4. Fits("cleanup", req[h], made')
      BY <2>1 DEF Fits, Accounts!At
    <2>5. HandlersFit' /\ pc'[h] = "cleanup" /\ OthersStay(h)
      BY <1>0, <1>2, <2>3, <2>4, GotoMoves, Moves
    <2> QED
      BY <1>1, <1>2, <2>1, <2>2, <2>5, InsertStep DEF OthersStay
  <1>3. CASE Accounts!Done(h) /\ UNCHANGED Accounts!userVars
    <2>1. RowsStay
      BY <1>1, <1>3 DEF RowsStay, Accounts!userVars
    <2> QED
      BY <1>1, <1>3, <2>1, TakenStep
  <1> QED
    BY <1>2, <1>3 DEF Accounts!InsertRegistered

\* The native sign-in's INSERT of an account with the provider's address.
LEMMA InsertNativeStep ==
  ASSUME AccountInv, NEW h \in Handlers, Accounts!InsertNative(h)
  PROVE  AccountInv'
  <1> DEFINE a == EmailOf[req[h].identity]
  <1>0. HandlersFit /\ UserTypes
    BY DEF AccountInv
  <1>1. /\ pc[h] = "native" /\ Accounts!Done(h)
        /\ UNCHANGED <<pending, request, linked, states, starts, accepted, doubled, mailed, faults>>
        /\ Accounts!insert_user(a, 0) \/ UNCHANGED Accounts!userVars
    BY DEF Accounts!InsertNative, Accounts!oauthVars
  <1>2. CASE Accounts!insert_user(a, 0)
    <2>1. Fits("native", req[h], made)
      BY <1>0, <1>1 DEF HandlersFit
    <2>2. a \in Accounts!Emails /\ a # NoEmail /\ 0 \in 0..MaxCodes /\ ProvedBy(0, a)
      BY <2>1, AccountConstants DEF Fits, Accounts!Emails, ProvedBy
    <2> HIDE DEF a
    <2>3. 1..made \subseteq 1..made'
      BY <1>1, <1>2, <2>2, UserInserted
    <2>4. HandlersFit' /\ pc'[h] = "idle" /\ OthersStay(h)
      BY <1>0, <1>1, <2>3, DoneMoves
    <2> QED
      BY <1>1, <1>2, <2>2, <2>4, InsertStep DEF OthersStay
  <1>3. CASE UNCHANGED Accounts!userVars
    <2>1. RowsStay
      BY <1>1, <1>3 DEF RowsStay, Accounts!userVars
    <2> QED
      BY <1>1, <2>1, TakenStep
  <1> QED
    BY <1>1, <1>2, <1>3

\* A sign-in stays alone when another request moves and does not join its identity.
LEMMA AloneStays ==
  ASSUME NEW h \in Handlers, OthersStay(h), NEW i \in Handlers \ {h}, SignsInAlone(i),
         pc'[h] \in {"create", "link"} =>
           \/ pc[h] \in {"create", "link"} /\ req'[h].identity = req[h].identity
           \/ req'[h].identity # req[i].identity
  PROVE  SignsInAlone(i)'
  <1> SUFFICES ASSUME NEW k \in Handlers \ {i}, pc'[k] \in {"create", "link"}
               PROVE  req'[k].identity # req'[i].identity
    BY DEF SignsInAlone
  <1>1. req'[i] = req[i]
    BY DEF OthersStay
  <1>2. CASE k = h
    BY <1>1, <1>2 DEF SignsInAlone
  <1>3. CASE k # h
    BY <1>1, <1>3 DEF SignsInAlone, OthersStay
  <1> QED
    BY <1>2, <1>3

\* The browser sign-in's INSERT of an account, with the provider's address if it gave one.
LEMMA CreateOAuthUserStep ==
  ASSUME AccountInv, NEW h \in Handlers, Accounts!CreateOAuthUser(h)
  PROVE  AccountInv'
  <1> DEFINE j == req[h].identity
  <1>0. /\ HandlersFit /\ UserTypes /\ RowTypes /\ MailInv
        /\ OwnersInv /\ LinkInv /\ FirstInv /\ StateInv
    BY DEF AccountInv
  <1>1. /\ pc[h] = "create"
        /\ UNCHANGED <<pending, request, linked, states, starts, accepted, doubled, mailed, faults>>
    BY DEF Accounts!CreateOAuthUser, Accounts!oauthVars
  <1>2. Fits("create", req[h], made) /\ j \in Identities /\ EmailOf[j] \in Accounts!Emails
    BY <1>0, <1>1, AccountConstants DEF HandlersFit, Fits, Accounts!Emails
  <1>r. RowTypes'
    BY <1>0, <1>1 DEF RowTypes, Accounts!Codes, Accounts!Emails
  <1>3. CASE /\ Accounts!insert_user(EmailOf[j], 0)
             /\ pc' = [pc EXCEPT ![h] = "link"] /\ req' = [req EXCEPT ![h].user = made + 1]
    <2>1. 0 \in 0..MaxCodes /\ ProvedBy(0, EmailOf[j])
      BY AccountConstants DEF ProvedBy
    <2>2. /\ 1..made \subseteq 1..made' /\ made + 1 \in 1..made'
          /\ made + 1 \notin exists /\ made + 1 \notin 1..made
          /\ exists' = exists \cup {made + 1} /\ exists' \cap 1..made \subseteq exists
          /\ \A u \in exists : email'[u] = email[u] /\ proof'[u] = proof[u]
          /\ email'[made + 1] = EmailOf[j] /\ proof'[made + 1] = 0
          /\ made + 1 \in 0..MaxUsers
          /\ UserTypes' /\ OwnersInv'
      BY <1>1, <1>2, <1>3, <2>1, UserInserted
    <2>3. /\ HandlersFit' /\ OthersStay(h) /\ pc'[h] = "link"
          /\ req'[h].user = made + 1 /\ req'[h].identity = j
      <3> DEFINE r == [req[h] EXCEPT !.user = made + 1]
      <3>1. r \in AccountReqs /\ r.user = made + 1 /\ r.identity = j
        BY <1>2, <2>2 DEF Fits, AccountReqs
      <3>2. req' = [req EXCEPT ![h] = r]
        BY <1>3, Zenon
      <3> HIDE DEF r
      <3>3. Fits("link", r, made')
        BY <1>2, <2>2, <3>1 DEF Fits, Accounts!At
      <3>4. pc' = [pc EXCEPT ![h] = "link"]
        BY <1>3
      <3>5. HandlersFit /\ 1..made \subseteq 1..made'
        BY <1>0, <2>2
      <3>6. HandlersFit' /\ pc'[h] = "link" /\ req'[h] = r /\ OthersStay(h)
        BY <3>2, <3>3, <3>4, <3>5, Moves
      <3> QED
        BY <3>1, <3>6
    <2> HIDE DEF j
    <2>4. MailInv'
      <3>1. \A u \in exists' : \/ u \in exists /\ proof'[u] = proof[u] /\ email'[u] = email[u]
                               \/ ProvedBy(proof[u], email[u])'
        BY <2>2 DEF ProvedBy
      <3>2. \E n \in 0..MaxCodes : \A k \in Accounts!Codes : mailed'[k] # NoEmail <=> k <= n
        BY <1>0, <1>1 DEF MailInv
      <3>3. \A i \in Handlers : pc'[i] = "insert" => pc[i] = "insert" /\ req'[i] = req[i]
        BY <2>3 DEF OthersStay
      <3> QED
        BY <1>0, <1>1, <3>1, <3>2, <3>3, MailKept
    <2>5. \A i \in Handlers \ {h} : pc[i] = "link" => req[i].user \in 1..made
      BY <1>0 DEF HandlersFit, Fits
    <2>6. LinkInv'
      <3>1. Accounts!LinkFollowsEmail'
        BY <1>0, <1>1, <2>2 DEF LinkInv, Accounts!LinkFollowsEmail
      <3>2. ASSUME NEW i \in Handlers, pc'[i] = "link", req'[i].user \in exists',
                   EmailOf[req'[i].identity] # NoEmail
            PROVE  email'[req'[i].user] = EmailOf[req'[i].identity]
        <4>1. CASE i = h
          BY <2>2, <2>3, <4>1
        <4>2. CASE i # h
          BY <1>0, <2>2, <2>3, <2>5, <3>2, <4>2 DEF LinkInv, OthersStay
        <4> QED
          BY <4>1, <4>2
      <3> QED
        BY <3>1, <3>2 DEF LinkInv
    <2>7. FirstInv'
      <3>1. CASE Excused
        BY <1>1, <3>1 DEF Excused, FirstInv
      <3>2. CASE ~Excused
        <4>1. \A i \in Handlers \ {h} : SignsInAlone(i) => SignsInAlone(i)'
          BY <1>1, <2>3, AloneStays DEF j
        <4>2. SignsInAlone(h) => SignsInAlone(h)'
          BY <2>3 DEF SignsInAlone, OthersStay, j
        <4>3. Accounts!BeingLinked \subseteq Accounts!BeingLinked'
          BY <1>1, <2>3 DEF Accounts!BeingLinked, OthersStay
        <4>4. made + 1 \in Accounts!BeingLinked'
          BY <2>3 DEF Accounts!BeingLinked
        <4>5. \A u \in exists' :
                email'[u] # NoEmail \/ u \in Accounts!BeingLinked' \/ \E i \in Identities : linked'[i] = u
          BY <1>0, <1>1, <2>2, <3>2, <4>3, <4>4 DEF FirstInv
        <4>6. \A i \in Handlers : pc'[i] = "create" /\ EmailOf[req'[i].identity] = NoEmail =>
                linked'[req'[i].identity] = 0 /\ SignsInAlone(i)'
          BY <1>0, <1>1, <2>3, <3>2, <4>1 DEF FirstInv, OthersStay
        <4>7. ASSUME NEW i \in Handlers, pc'[i] = "link", EmailOf[req'[i].identity] = NoEmail,
                     req'[i].user \in exists'
              PROVE  \/ linked'[req'[i].identity] = req'[i].user
                     \/ linked'[req'[i].identity] = 0 /\ SignsInAlone(i)'
          <5>1. CASE i = h
            BY <1>0, <1>1, <2>3, <3>2, <4>2, <4>7, <5>1 DEF FirstInv, j
          <5>2. CASE i # h
            BY <1>0, <1>1, <2>2, <2>3, <2>5, <3>2, <4>1, <4>7, <5>2 DEF FirstInv, OthersStay
          <5> QED
            BY <5>1, <5>2
        <4> QED
          BY <4>5, <4>6, <4>7 DEF FirstInv
      <3> QED
        BY <3>1, <3>2
    <2>8. StateInv'
      <3>1. \A i \in Handlers : pc'[i] = "take" =>
              req'[i].identity \in states \/ (pc[i] = "take" /\ req'[i] = req[i])
        BY <2>3 DEF OthersStay
      <3> QED
        BY <1>0, <1>1, <3>1, StatesStay
    <2> QED
      BY <1>r, <2>2, <2>3, <2>4, <2>6, <2>7, <2>8 DEF AccountInv
  <1>4. CASE Accounts!Done(h) /\ Accounts!Taken(EmailOf[j]) /\ UNCHANGED Accounts!userVars
    <2>1. UNCHANGED <<exists, email, made, proof>>
      BY <1>4 DEF Accounts!userVars
    <2>2. HandlersFit' /\ pc'[h] = "idle" /\ OthersStay(h)
      BY <1>0, <1>4, <2>1, DoneMoves
    <2>3. UserTypes'
      BY <1>0, <1>1, <2>1 DEF UserTypes, Accounts!Users, Accounts!Emails, Accounts!NoRequest
    <2>4. MailInv'
      BY <1>0, <1>1, <2>1, <2>2, MailStays DEF OthersStay
    <2>5. OwnersInv' /\ LinkInv'
      BY <1>0, <1>1, <2>1, <2>2, LinksStay DEF OwnersInv, OthersStay
    <2>6. FirstInv'
      <3>1. CASE Excused
        BY <1>1, <3>1 DEF Excused, FirstInv
      <3>2. CASE ~Excused
        <4>1. \A i \in Handlers \ {h} : SignsInAlone(i) => SignsInAlone(i)'
          BY <2>2, AloneStays
        <4>2. Accounts!BeingLinked \subseteq Accounts!BeingLinked'
          BY <1>1, <2>2 DEF Accounts!BeingLinked, OthersStay
        <4> QED
          BY <1>0, <1>1, <2>1, <2>2, <3>2, <4>1, <4>2 DEF FirstInv, OthersStay
      <3> QED
        BY <3>1, <3>2
    <2>7. StateInv'
      BY <1>0, <1>1, <2>2, StatesStay DEF OthersStay
    <2> QED
      BY <1>r, <2>2, <2>3, <2>4, <2>5, <2>6, <2>7 DEF AccountInv
  <1> QED
    BY <1>3, <1>4 DEF Accounts!CreateOAuthUser

\* A sign-in looks something up: what it finds is the account it says.
LEMMA LooksUp ==
  ASSUME AccountInv, NEW h \in Handlers, HandlersFit', OthersStay(h),
         pc[h] \in {"find", "byemail"}, pc'[h] \in {"byemail", "create", "link"},
         UNCHANGED <<exists, email, made, proof, pending, request, linked, states, starts, accepted,
                     mailed, faults>>,
         doubled' \subseteq Identities,
         pc'[h] = "link" /\ req'[h].user \in exists /\ EmailOf[req'[h].identity] # NoEmail =>
           email[req'[h].user] = EmailOf[req'[h].identity],
         FirstInv'
  PROVE  AccountInv'
  <1>0. /\ HandlersFit /\ UserTypes /\ RowTypes /\ MailInv
        /\ OwnersInv /\ LinkInv /\ FirstInv /\ StateInv
    BY DEF AccountInv
  <1>1. UserTypes' /\ RowTypes'
    BY <1>0
    DEF UserTypes, RowTypes, Accounts!Users, Accounts!Codes, Accounts!Emails, Accounts!NoRequest
  <1>2. MailInv' /\ OwnersInv'
    <2>1. \A i \in Handlers : pc'[i] = "insert" => pc[i] = "insert" /\ req'[i] = req[i]
      BY DEF OthersStay
    <2> QED
      BY <1>0, <2>1, MailStays DEF OwnersInv
  <1>3. LinkInv'
    <2>1. Accounts!LinkFollowsEmail'
      BY <1>0 DEF LinkInv, Accounts!LinkFollowsEmail
    <2>2. ASSUME NEW i \in Handlers, pc'[i] = "link", req'[i].user \in exists',
                 EmailOf[req'[i].identity] # NoEmail
          PROVE  email'[req'[i].user] = EmailOf[req'[i].identity]
      <3>1. CASE i = h
        BY <2>2, <3>1
      <3>2. CASE i # h
        BY <1>0, <2>2, <3>2 DEF LinkInv, OthersStay
      <3> QED
        BY <3>1, <3>2
    <2> QED
      BY <2>1, <2>2 DEF LinkInv
  <1>4. StateInv'
    <2>1. \A i \in Handlers : pc'[i] = "take" =>
            req'[i].identity \in states \/ (pc[i] = "take" /\ req'[i] = req[i])
      BY DEF OthersStay
    <2> QED
      BY <1>0, <2>1, StatesStay
  <1> QED
    BY <1>1, <1>2, <1>3, <1>4 DEF AccountInv

\* A sign-in that finds an account has it in req, and keeps the identity.
LEMMA FindsUser ==
  ASSUME HandlersFit, NEW h \in Handlers, pc[h] \in {"find", "byemail"}, NEW u \in 1..made,
         made \in 0..MaxUsers, made' = made,
         pc' = [pc EXCEPT ![h] = "link"], req' = [req EXCEPT ![h].user = u]
  PROVE  /\ HandlersFit' /\ OthersStay(h) /\ pc'[h] = "link"
         /\ req'[h].user = u /\ req'[h].identity = req[h].identity
  <1> DEFINE r == [req[h] EXCEPT !.user = u]
  <1>1. Fits(pc[h], req[h], made)
    BY DEF HandlersFit
  <1>2. u \in 0..MaxUsers
    BY AccountConstants
  <1>3. r \in AccountReqs /\ r.user = u /\ r.identity = req[h].identity
    BY <1>1, <1>2 DEF Fits, AccountReqs
  <1>4. req' = [req EXCEPT ![h] = r]
    BY Zenon
  <1> HIDE DEF r
  <1>5. Fits("link", r, made') /\ 1..made \subseteq 1..made'
    BY <1>1, <1>3 DEF Fits, Accounts!At
  <1>6. HandlersFit' /\ pc'[h] = "link" /\ req'[h] = r /\ OthersStay(h)
    BY <1>4, <1>5, Moves
  <1> QED
    BY <1>3, <1>6

\* A sign-in looks its identity up among the linked ones.
LEMMA FindLinkedStep ==
  ASSUME AccountInv, NEW h \in Handlers, Accounts!FindLinked(h)
  PROVE  AccountInv'
  <1> DEFINE j == req[h].identity
             next == IF EmailOf[j] = NoEmail THEN "create" ELSE "byemail"
  <1>0. HandlersFit /\ UserTypes /\ RowTypes /\ LinkInv /\ FirstInv
    BY DEF AccountInv
  <1>1. /\ pc[h] = "find"
        /\ UNCHANGED <<exists, email, made, proof, pending, request, linked, states, starts, accepted,
                       mailed, faults>>
    BY DEF Accounts!FindLinked, Accounts!userVars
  <1>2. Fits("find", req[h], made) /\ j \in Identities
    BY <1>0, <1>1 DEF HandlersFit, Fits
  <1>3. CASE linked[j] # 0
    <2>1. /\ pc' = [pc EXCEPT ![h] = "link"] /\ req' = [req EXCEPT ![h].user = linked[j]]
          /\ doubled' = doubled
      BY <1>3 DEF Accounts!FindLinked
    <2>2. /\ linked[j] \in exists /\ linked[j] \in 1..made /\ made \in 0..MaxUsers
          /\ EmailOf[j] # NoEmail => email[linked[j]] = EmailOf[j]
      BY <1>0, <1>2, <1>3 DEF LinkInv, Accounts!LinkFollowsEmail, UserTypes
    <2>3. /\ HandlersFit' /\ OthersStay(h) /\ pc'[h] = "link"
          /\ req'[h].user = linked[j] /\ req'[h].identity = j
      BY <1>0, <1>1, <2>1, <2>2, FindsUser
    <2>4. FirstInv'
      <3>1. CASE Excused
        BY <1>1, <2>1, <3>1 DEF Excused, FirstInv
      <3>2. CASE ~Excused
        <4>1. \A i \in Handlers \ {h} :
                SignsInAlone(i) /\ linked[req[i].identity] = 0 => SignsInAlone(i)'
          BY <1>3, <2>3, AloneStays
        <4>2. Accounts!BeingLinked \subseteq Accounts!BeingLinked'
          BY <1>1, <2>3 DEF Accounts!BeingLinked, OthersStay
        <4> HIDE DEF j
        <4>3. \A u \in exists' :
                email'[u] # NoEmail \/ u \in Accounts!BeingLinked' \/ \E i \in Identities : linked'[i] = u
          BY <1>0, <1>1, <3>2, <4>2 DEF FirstInv
        <4>4. \A i \in Handlers : pc'[i] = "create" /\ EmailOf[req'[i].identity] = NoEmail =>
                linked'[req'[i].identity] = 0 /\ SignsInAlone(i)'
          BY <1>0, <1>1, <2>3, <3>2, <4>1 DEF FirstInv, OthersStay
        <4>5. \A i \in Handlers :
                pc'[i] = "link" /\ EmailOf[req'[i].identity] = NoEmail /\ req'[i].user \in exists' =>
                  \/ linked'[req'[i].identity] = req'[i].user
                  \/ linked'[req'[i].identity] = 0 /\ SignsInAlone(i)'
          BY <1>0, <1>1, <2>3, <3>2, <4>1 DEF FirstInv, OthersStay
        <4> QED
          BY <4>3, <4>4, <4>5 DEF FirstInv
      <3> QED
        BY <3>1, <3>2
    <2> QED
      BY <1>0, <1>1, <2>1, <2>2, <2>3, <2>4, LooksUp DEF RowTypes
  <1>4. CASE linked[j] = 0
    <2>1. /\ Accounts!Goto(h, next)
          /\ doubled' = IF Accounts!Overlaps(h) THEN doubled \cup {j} ELSE doubled
      BY <1>4 DEF Accounts!FindLinked
    <2>2. Fits(next, req[h], made') /\ 1..made \subseteq 1..made'
      BY <1>1, <1>2 DEF Fits, Accounts!At
    <2>3. pc' = [pc EXCEPT ![h] = next] /\ req' = [req EXCEPT ![h] = req[h]]
      BY <1>0, <2>1, GotoMoves
    <2> HIDE DEF next
    <2>4. HandlersFit' /\ OthersStay(h) /\ pc'[h] = next /\ req'[h] = req[h]
      BY <1>0, <2>2, <2>3, Moves
    <2>5. doubled \subseteq doubled' /\ doubled' \subseteq Identities
      BY <1>0, <1>2, <2>1 DEF RowTypes
    <2>6. FirstInv'
      <3>1. CASE Excused \/ (Accounts!Overlaps(h) /\ EmailOf[j] = NoEmail)
        BY <1>1, <2>1, <2>5, <3>1 DEF Excused, FirstInv
      <3>2. CASE EmailOf[j] # NoEmail
        <4>1. \A i \in Handlers : pc[i] \in {"create", "link"} \/ pc'[i] \in {"create", "link"} =>
                pc'[i] = pc[i] /\ req'[i] = req[i]
          BY <1>1, <2>4, <3>2 DEF OthersStay, next
        <4>2. faults' \in {faults, faults + 1}
          BY <1>1
        <4> QED
          BY <1>0, <1>1, <2>5, <4>1, <4>2, FirstStays
      <3>3. CASE ~Excused /\ EmailOf[j] = NoEmail /\ ~Accounts!Overlaps(h)
        <4>0. pc'[h] = "create"
          BY <2>4, <3>3 DEF next
        <4>1. \A i \in Handlers \ {h} :
                pc[i] \in {"byemail", "create", "link"} => req[i].identity # j
          BY <3>3 DEF Accounts!Overlaps
        <4>2. SignsInAlone(h)'
          BY <2>4, <4>1 DEF SignsInAlone, OthersStay
        <4>3. \A i \in Handlers \ {h} :
                pc[i] \in {"create", "link"} /\ SignsInAlone(i) => SignsInAlone(i)'
          BY <2>4, <4>1, AloneStays
        <4>4. Accounts!BeingLinked \subseteq Accounts!BeingLinked'
          BY <1>1, <2>4 DEF Accounts!BeingLinked, OthersStay
        <4>5. \A u \in exists' :
                email'[u] # NoEmail \/ u \in Accounts!BeingLinked' \/ \E i \in Identities : linked'[i] = u
          BY <1>0, <1>1, <3>3, <4>4 DEF FirstInv
        <4>6. ASSUME NEW i \in Handlers, pc'[i] = "create", EmailOf[req'[i].identity] = NoEmail
              PROVE  linked'[req'[i].identity] = 0 /\ SignsInAlone(i)'
          <5>1. CASE i = h
            BY <1>1, <1>4, <2>4, <4>2, <5>1
          <5>2. CASE i # h
            BY <1>0, <1>1, <2>4, <3>3, <4>3, <4>6, <5>2 DEF FirstInv, OthersStay
          <5> QED
            BY <5>1, <5>2
        <4>7. \A i \in Handlers :
                pc'[i] = "link" /\ EmailOf[req'[i].identity] = NoEmail /\ req'[i].user \in exists' =>
                  \/ linked'[req'[i].identity] = req'[i].user
                  \/ linked'[req'[i].identity] = 0 /\ SignsInAlone(i)'
          BY <1>0, <1>1, <2>4, <3>3, <4>0, <4>3 DEF FirstInv, OthersStay
        <4> QED
          BY <4>5, <4>6, <4>7 DEF FirstInv
      <3> QED
        BY <3>1, <3>2, <3>3
    <2>7. pc'[h] \in {"byemail", "create"}
      BY <2>4 DEF next
    <2> QED
      BY <1>1, <2>4, <2>5, <2>6, <2>7, LooksUp
  <1> QED
    BY <1>3, <1>4

\* A sign-in looks for an account with the provider's address.
LEMMA FindByEmailStep ==
  ASSUME AccountInv, NEW h \in Handlers, Accounts!FindByEmail(h)
  PROVE  AccountInv'
  <1> DEFINE j == req[h].identity
  <1>0. HandlersFit /\ UserTypes /\ RowTypes /\ LinkInv /\ FirstInv
    BY DEF AccountInv
  <1>1. /\ pc[h] = "byemail"
        /\ UNCHANGED <<exists, email, made, proof, pending, request, linked, states, starts, accepted,
                       mailed, faults, doubled>>
    BY DEF Accounts!FindByEmail, Accounts!userVars, Accounts!oauthVars
  <1>2. Fits("byemail", req[h], made) /\ j \in Identities /\ EmailOf[j] # NoEmail
    BY <1>0, <1>1 DEF HandlersFit, Fits
  <1>3. ASSUME OthersStay(h), req'[h].identity = j, pc'[h] \in {"create", "link"}
        PROVE  FirstInv'
    <2>1. CASE Excused
      BY <1>1, <2>1 DEF Excused, FirstInv
    <2>2. CASE ~Excused
      <3>1. \A i \in Handlers \ {h} :
              EmailOf[req[i].identity] = NoEmail /\ SignsInAlone(i) => SignsInAlone(i)'
        BY <1>2, <1>3, AloneStays
      <3>2. Accounts!BeingLinked \subseteq Accounts!BeingLinked'
        BY <1>1, <1>3 DEF Accounts!BeingLinked, OthersStay
      <3>3. EmailOf[req'[h].identity] # NoEmail
        BY <1>2, <1>3
      <3> HIDE DEF j
      <3>4. \A u \in exists' :
              email'[u] # NoEmail \/ u \in Accounts!BeingLinked' \/ \E i \in Identities : linked'[i] = u
        BY <1>0, <1>1, <2>2, <3>2 DEF FirstInv
      <3>5. \A i \in Handlers : pc'[i] = "create" /\ EmailOf[req'[i].identity] = NoEmail =>
              linked'[req'[i].identity] = 0 /\ SignsInAlone(i)'
        BY <1>0, <1>1, <1>3, <2>2, <3>1, <3>3 DEF FirstInv, OthersStay
      <3>6. \A i \in Handlers :
              pc'[i] = "link" /\ EmailOf[req'[i].identity] = NoEmail /\ req'[i].user \in exists' =>
                \/ linked'[req'[i].identity] = req'[i].user
                \/ linked'[req'[i].identity] = 0 /\ SignsInAlone(i)'
        BY <1>0, <1>1, <1>3, <2>2, <3>1, <3>3 DEF FirstInv, OthersStay
      <3> QED
        BY <3>4, <3>5, <3>6 DEF FirstInv
    <2> QED
      BY <2>1, <2>2
  <1>4. CASE Accounts!Goto(h, "create")
    <2>1. Fits("create", req[h], made') /\ 1..made \subseteq 1..made'
      BY <1>1, <1>2 DEF Fits, Accounts!At
    <2>2. HandlersFit' /\ OthersStay(h) /\ pc'[h] = "create" /\ req'[h] = req[h]
      BY <1>0, <1>4, <2>1, GotoMoves, Moves
    <2>3. FirstInv'
      BY <1>3, <2>2
    <2> QED
      BY <1>0, <1>1, <2>2, <2>3, LooksUp DEF RowTypes
  <1>5. ASSUME NEW u \in Accounts!Owners(EmailOf[j]),
               pc' = [pc EXCEPT ![h] = "link"], req' = [req EXCEPT ![h].user = u]
        PROVE  AccountInv'
    <2>1. u \in exists /\ email[u] = EmailOf[j] /\ u \in 1..made /\ made \in 0..MaxUsers
      BY <1>0 DEF Accounts!Owners, UserTypes
    <2>2. /\ HandlersFit' /\ OthersStay(h) /\ pc'[h] = "link"
          /\ req'[h].user = u /\ req'[h].identity = j
      BY <1>0, <1>1, <1>5, <2>1, FindsUser
    <2>3. FirstInv'
      BY <1>3, <2>2
    <2> QED
      BY <1>0, <1>1, <2>1, <2>2, <2>3, LooksUp DEF RowTypes
  <1> QED
    BY <1>4, <1>5 DEF Accounts!FindByEmail

\* A sign-in moves the link to its account, if that still exists.
LEMMA LinkAccountStep ==
  ASSUME AccountInv, NEW h \in Handlers, Accounts!LinkAccount(h)
  PROVE  AccountInv'
  <1> DEFINE j == req[h].identity
             w == req[h].user
  <1>0. /\ HandlersFit /\ UserTypes /\ RowTypes /\ MailInv
        /\ OwnersInv /\ LinkInv /\ FirstInv /\ StateInv
    BY DEF AccountInv
  <1>1. /\ pc[h] = "link" /\ Accounts!Done(h)
        /\ UNCHANGED <<exists, email, made, proof, pending, request, states, starts, accepted, doubled,
                       mailed>>
    BY DEF Accounts!LinkAccount, Accounts!userVars
  <1>2. \/ w \in exists /\ linked' = [linked EXCEPT ![j] = w] /\ faults' = faults
        \/ w \notin exists /\ linked' = linked /\ faults' = faults
        \/ linked' = linked /\ faults' = faults + 1 /\ faults' \in 0..MaxFaults /\ faults' > 0
    BY <1>0, FaultCounts
    DEF Accounts!LinkAccount, Accounts!NoFault, Accounts!upsert_oauth_account
  <1>3. Fits("link", req[h], made) /\ j \in Identities /\ w \in 1..made /\ w \in 0..MaxUsers
    BY <1>0, <1>1 DEF HandlersFit, Fits, AccountReqs
  <1>4. HandlersFit' /\ pc'[h] = "idle" /\ OthersStay(h)
    BY <1>0, <1>1, DoneMoves
  <1>5. UserTypes'
    BY <1>0, <1>1 DEF UserTypes, Accounts!Users, Accounts!Emails, Accounts!NoRequest
  <1>6. RowTypes'
    <2>1. linked' \in [Identities -> 0..MaxUsers] /\ faults' \in 0..MaxFaults
      BY <1>0, <1>2, <1>3 DEF RowTypes
    <2> QED
      BY <1>0, <1>1, <2>1 DEF RowTypes, Accounts!Codes, Accounts!Emails
  <1>7. MailInv' /\ OwnersInv'
    BY <1>0, <1>1, <1>4, MailStays DEF OwnersInv, OthersStay
  <1>8. StateInv'
    <2>1. faults' \in {faults, faults + 1}
      BY <1>2
    <2>2. \A i \in Handlers : pc'[i] = "take" =>
            req'[i].identity \in states \/ (pc[i] = "take" /\ req'[i] = req[i])
      BY <1>4 DEF OthersStay
    <2> QED
      BY <1>0, <1>1, <2>1, <2>2, StatesStay
  <1>9. LinkInv' /\ FirstInv'
    <2>1. CASE linked' = linked
      <3>1. LinkInv'
        BY <1>0, <1>1, <1>4, <2>1, LinksStay DEF OthersStay
      <3>2. CASE Excused \/ faults' > 0
        <4>1. Excused'
          BY <1>0, <1>1, <1>2, <3>2 DEF Excused, RowTypes
        <4> QED
          BY <3>1, <4>1 DEF FirstInv
      <3>3. CASE ~Excused /\ ~(faults' > 0)
        <4>1. w \notin exists \/ linked' = [linked EXCEPT ![j] = w]
          BY <1>2, <3>3
        <4>2. w \notin exists \/ linked[j] = w
          BY <1>0, <1>3, <2>1, <4>1 DEF RowTypes
        <4>3. \A i \in Handlers \ {h} : SignsInAlone(i) => SignsInAlone(i)'
          BY <1>4, AloneStays
        <4>4. \A u \in exists : u \in Accounts!BeingLinked => u \in Accounts!BeingLinked' \/ u = w
          BY <1>4 DEF Accounts!BeingLinked, OthersStay
        <4>5. \A u \in exists' :
                email'[u] # NoEmail \/ u \in Accounts!BeingLinked' \/ \E i \in Identities : linked'[i] = u
          BY <1>0, <1>1, <1>3, <2>1, <3>3, <4>2, <4>4 DEF FirstInv
        <4> HIDE DEF j, w
        <4> QED
          BY <1>0, <1>1, <1>4, <2>1, <3>1, <3>3, <4>3, <4>5 DEF FirstInv, OthersStay
      <3> QED
        BY <3>2, <3>3
    <2>2. CASE w \in exists /\ linked' = [linked EXCEPT ![j] = w] /\ faults' = faults
      <3>1. linked'[j] = w /\ \A i \in Identities \ {j} : linked'[i] = linked[i]
        BY <1>0, <1>3, <2>2 DEF RowTypes
      <3>2. w # 0 /\ (EmailOf[j] # NoEmail => email[w] = EmailOf[j])
        BY <1>0, <1>1, <1>3, <2>2 DEF LinkInv
      <3>3. Accounts!LinkFollowsEmail'
        BY <1>0, <1>1, <2>2, <3>1, <3>2 DEF LinkInv, Accounts!LinkFollowsEmail
      <3>4. LinkInv'
        BY <1>0, <1>1, <1>4, <3>3 DEF LinkInv, OthersStay
      <3>5. CASE Excused
        BY <1>1, <2>2, <3>4, <3>5 DEF Excused, FirstInv
      <3>6. CASE ~Excused
        <4>1. EmailOf[j] = NoEmail => linked[j] \in {0, w}
          BY <1>0, <1>1, <2>2, <3>6 DEF FirstInv
        <4>2. \A i \in Handlers \ {h} :
                SignsInAlone(i) => SignsInAlone(i)' /\ req[i].identity # j
          BY <1>1, <1>4, AloneStays DEF SignsInAlone
        <4>3. \A u \in exists : u \in Accounts!BeingLinked => u \in Accounts!BeingLinked' \/ u = w
          BY <1>4 DEF Accounts!BeingLinked, OthersStay
        <4>4. ASSUME NEW u \in exists, NEW i \in Identities, linked[i] = u, email[u] = NoEmail
              PROVE  linked'[i] = u
          <5>1. CASE i = j
            <6>1. u # 0
              BY <1>0, AccountConstants DEF UserTypes
            <6>2. EmailOf[j] = NoEmail
              BY <1>0, <4>4, <5>1, <6>1 DEF LinkInv, Accounts!LinkFollowsEmail
            <6> QED
              BY <3>1, <4>1, <4>4, <5>1, <6>1, <6>2
          <5>2. CASE i # j
            BY <3>1, <4>4, <5>2
          <5> QED
            BY <5>1, <5>2
        <4>5. \A u \in exists' :
                email'[u] # NoEmail \/ u \in Accounts!BeingLinked' \/ \E i \in Identities : linked'[i] = u
          BY <1>0, <1>1, <1>3, <3>1, <3>6, <4>3, <4>4 DEF FirstInv
        <4>6. ASSUME NEW i \in Handlers, pc'[i] = "create", EmailOf[req'[i].identity] = NoEmail
              PROVE  linked'[req'[i].identity] = 0 /\ SignsInAlone(i)'
          <5>1. i # h /\ pc[i] = "create" /\ req'[i] = req[i]
            BY <1>4, <4>6 DEF OthersStay
          <5>2. linked[req[i].identity] = 0 /\ SignsInAlone(i) /\ req[i].identity \in Identities
            BY <1>0, <3>6, <4>6, <5>1 DEF FirstInv, HandlersFit, Fits
          <5> QED
            BY <3>1, <4>2, <5>1, <5>2
        <4>7. ASSUME NEW i \in Handlers, pc'[i] = "link", EmailOf[req'[i].identity] = NoEmail,
                     req'[i].user \in exists'
              PROVE  \/ linked'[req'[i].identity] = req'[i].user
                     \/ linked'[req'[i].identity] = 0 /\ SignsInAlone(i)'
          <5>1. i # h /\ pc[i] = "link" /\ req'[i] = req[i]
            BY <1>4, <4>7 DEF OthersStay
          <5>2. /\ \/ linked[req[i].identity] = req[i].user
                   \/ linked[req[i].identity] = 0 /\ SignsInAlone(i)
                /\ req[i].identity \in Identities
            BY <1>0, <1>1, <3>6, <4>7, <5>1 DEF FirstInv, HandlersFit, Fits
          <5>3. CASE req[i].identity # j
            BY <3>1, <4>2, <5>1, <5>2, <5>3
          <5>4. CASE req[i].identity = j
            <6>1. linked[j] = req[i].user /\ req[i].user # 0
              <7>1. req[i].user \in 1..made
                BY <1>0, <5>1 DEF HandlersFit, Fits
              <7>2. req[i].user # 0
                BY <1>0, <7>1 DEF UserTypes
              <7> QED
                BY <4>2, <5>1, <5>2, <5>4, <7>2
            <6>2. linked[j] = w
              BY <4>1, <4>7, <5>1, <5>4, <6>1
            <6> QED
              BY <3>1, <5>1, <5>4, <6>1, <6>2
          <5> QED
            BY <5>3, <5>4
        <4> QED
          BY <3>4, <4>5, <4>6, <4>7 DEF FirstInv
      <3> QED
        BY <3>5, <3>6
    <2> QED
      BY <1>2, <2>1, <2>2
  <1> QED
    BY <1>4, <1>5, <1>6, <1>7, <1>8, <1>9 DEF AccountInv

\* An account is deleted with its links and its request for an address.
LEMMA DeleteUserStep ==
  ASSUME AccountInv, NEW w \in Accounts!Users, Accounts!DeleteUser(w)
  PROVE  AccountInv'
  <1>0. /\ HandlersFit /\ UserTypes /\ RowTypes /\ MailInv
        /\ OwnersInv /\ LinkInv /\ FirstInv /\ StateInv
    BY DEF AccountInv
  <1>1. /\ exists' = exists \ {w}
        /\ email' = [email EXCEPT ![w] = NoEmail] /\ proof' = [proof EXCEPT ![w] = 0]
        /\ request' = [request EXCEPT ![w] = Accounts!NoRequest]
        /\ linked' = [i \in Identities |-> IF linked[i] = w THEN 0 ELSE linked[i]]
        /\ UNCHANGED <<made, pending, states, starts, accepted, doubled, pc, req, mailed, faults>>
    BY DEF Accounts!DeleteUser
  <1>2. /\ Accounts!NoRequest \in [email : Accounts!Emails, code : 0..MaxCodes]
        /\ Accounts!NoRequest.code = 0 /\ NoEmail \in Accounts!Emails /\ 0 \in 0..MaxCodes
    BY AccountConstants DEF Accounts!NoRequest, Accounts!Emails
  <1>3. /\ email' \in [Accounts!Users -> Accounts!Emails] /\ proof' \in [Accounts!Users -> 0..MaxCodes]
        /\ request' \in [Accounts!Users -> [email : Accounts!Emails, code : 0..MaxCodes]]
        /\ email'[w] = NoEmail /\ request'[w] = Accounts!NoRequest
        /\ \A u \in Accounts!Users \ {w} :
             email'[u] = email[u] /\ proof'[u] = proof[u] /\ request'[u] = request[u]
    BY <1>0, <1>1, <1>2 DEF UserTypes
  <1>4. exists \subseteq Accounts!Users
    BY <1>0, AccountConstants DEF UserTypes, Accounts!Users
  <1>5. /\ linked' \in [Identities -> 0..MaxUsers]
        /\ \A i \in Identities : linked'[i] = IF linked[i] = w THEN 0 ELSE linked[i]
    <2>1. 0 \in 0..MaxUsers
      BY AccountConstants
    <2> QED
      BY <1>0, <1>1, <2>1 DEF RowTypes
  <1>6. HandlersFit'
    BY <1>0, <1>1 DEF HandlersFit, Fits, AccountReqs, Accounts!At, Accounts!Users
  <1>7. UserTypes'
    <2>1. \A u \in Accounts!Users \ exists' : email'[u] = NoEmail /\ request'[u] = Accounts!NoRequest
      BY <1>0, <1>1, <1>3 DEF UserTypes
    <2> QED
      BY <1>0, <1>1, <1>3, <2>1 DEF UserTypes, Accounts!Users, Accounts!Emails, Accounts!NoRequest
  <1>8. RowTypes'
    BY <1>0, <1>1, <1>5 DEF RowTypes, Accounts!Codes, Accounts!Emails
  <1>9. MailInv'
    <2>1. \A u \in exists' : u \in exists /\ proof'[u] = proof[u] /\ email'[u] = email[u]
      BY <1>1, <1>3, <1>4
    <2>2. \A u \in Accounts!Users :
            request'[u] = request[u] \/ ProvedBy(request[u].code, request[u].email)'
      BY <1>2, <1>3 DEF ProvedBy
    <2>3. \E n \in 0..MaxCodes : \A c \in Accounts!Codes : mailed'[c] # NoEmail <=> c <= n
      BY <1>0, <1>1 DEF MailInv
    <2> QED
      BY <1>0, <1>1, <2>1, <2>2, <2>3, MailKept
  <1>10. OwnersInv'
    BY <1>0, <1>1, <1>3, <1>4 DEF OwnersInv
  <1>11. LinkInv'
    <2>1. Accounts!LinkFollowsEmail'
      BY <1>0, <1>1, <1>3, <1>4, <1>5 DEF LinkInv, Accounts!LinkFollowsEmail
    <2> QED
      BY <1>0, <1>1, <1>3, <1>4, <2>1 DEF LinkInv
  <1>12. FirstInv'
    <2>1. CASE Excused
      BY <1>1, <2>1 DEF Excused, FirstInv
    <2>2. CASE ~Excused
      <3>1. Accounts!BeingLinked' = Accounts!BeingLinked
        BY <1>1 DEF Accounts!BeingLinked
      <3>2. \A i \in Handlers : SignsInAlone(i) => SignsInAlone(i)'
        BY <1>1 DEF SignsInAlone
      <3>3. \A u \in exists' :
              email'[u] # NoEmail \/ u \in Accounts!BeingLinked' \/ \E i \in Identities : linked'[i] = u
        BY <1>0, <1>1, <1>3, <1>4, <1>5, <2>2, <3>1 DEF FirstInv
      <3>4. \A i \in Handlers : pc[i] \in {"create", "link"} => req[i].identity \in Identities
        BY <1>0 DEF HandlersFit, Fits
      <3>5. \A i \in Handlers : pc'[i] = "create" /\ EmailOf[req'[i].identity] = NoEmail =>
              linked'[req'[i].identity] = 0 /\ SignsInAlone(i)'
        BY <1>0, <1>1, <1>5, <2>2, <3>2, <3>4 DEF FirstInv
      <3>6. \A i \in Handlers :
              pc'[i] = "link" /\ EmailOf[req'[i].identity] = NoEmail /\ req'[i].user \in exists' =>
                \/ linked'[req'[i].identity] = req'[i].user
                \/ linked'[req'[i].identity] = 0 /\ SignsInAlone(i)'
        BY <1>0, <1>1, <1>5, <2>2, <3>2, <3>4 DEF FirstInv
      <3> QED
        BY <3>3, <3>5, <3>6 DEF FirstInv
    <2> QED
      BY <2>1, <2>2
  <1>13. StateInv'
    BY <1>0, <1>1, StatesStay
  <1> QED
    BY <1>6, <1>7, <1>8, <1>9, <1>10, <1>11, <1>12, <1>13 DEF AccountInv

\* A proved address is written to the account it was mailed for.
LEMMA SetEmailStep ==
  ASSUME AccountInv, NEW h \in Handlers, Accounts!SetEmail(h)
  PROVE  AccountInv'
  <1> DEFINE w == req[h].user
             a == req[h].email
             c == req[h].code
  <1>0. /\ HandlersFit /\ UserTypes /\ RowTypes /\ MailInv
        /\ OwnersInv /\ LinkInv /\ FirstInv /\ StateInv
    BY DEF AccountInv
  <1>1. /\ pc[h] = "verify" /\ Accounts!Done(h)
        /\ UNCHANGED <<exists, made, pending, linked, states, starts, accepted, doubled, mailed, faults>>
    BY DEF Accounts!SetEmail, Accounts!oauthVars
  <1>2. CASE UNCHANGED <<email, proof, request>>
    <2>1. RowsStay
      BY <1>1, <1>2 DEF RowsStay
    <2> QED
      BY <1>1, <2>1, TakenStep
  <1>3. CASE /\ request[w] = [email |-> a, code |-> c]
             /\ email[w] = NoEmail /\ ~Accounts!Taken(a)
             /\ email' = [email EXCEPT ![w] = a]
             /\ proof' = [proof EXCEPT ![w] = c]
             /\ request' = [request EXCEPT ![w] = Accounts!NoRequest]
    <2>1. /\ a \in Addresses /\ a \in Accounts!Emails /\ a # NoEmail
          /\ w \in Accounts!Users /\ c \in 0..MaxCodes
      BY <1>0, <1>1, AccountConstants DEF HandlersFit, Fits, AccountReqs, Accounts!Emails
    <2>2. request[w].email = a /\ request[w].code = c /\ ProvedBy(c, a)
      BY <1>0, <1>3, <2>1 DEF MailInv
    <2>3. /\ Accounts!NoRequest \in [email : Accounts!Emails, code : 0..MaxCodes]
          /\ Accounts!NoRequest.code = 0 /\ Accounts!NoRequest.email = NoEmail
      BY AccountConstants DEF Accounts!NoRequest, Accounts!Emails
    <2>4. w \in exists
      BY <1>0, <2>1, <2>2, <2>3 DEF UserTypes
    <2> HIDE DEF a, w, c
    <2>5. HandlersFit' /\ pc'[h] = "idle" /\ OthersStay(h)
      BY <1>0, <1>1, DoneMoves
    <2>6. /\ email' \in [Accounts!Users -> Accounts!Emails] /\ proof' \in [Accounts!Users -> 0..MaxCodes]
          /\ request' \in [Accounts!Users -> [email : Accounts!Emails, code : 0..MaxCodes]]
          /\ email'[w] = a /\ proof'[w] = c /\ request'[w] = Accounts!NoRequest
          /\ \A u \in Accounts!Users \ {w} :
               email'[u] = email[u] /\ proof'[u] = proof[u] /\ request'[u] = request[u]
      BY <1>0, <1>3, <2>1, <2>3 DEF UserTypes
    <2>7. exists \subseteq Accounts!Users
      BY <1>0, AccountConstants DEF UserTypes, Accounts!Users
    <2>8. UserTypes'
      <3>1. \A u \in Accounts!Users \ exists' : email'[u] = NoEmail /\ request'[u] = Accounts!NoRequest
        BY <1>0, <1>1, <2>4, <2>6 DEF UserTypes
      <3> QED
        BY <1>0, <1>1, <2>6, <3>1 DEF UserTypes, Accounts!Users, Accounts!Emails, Accounts!NoRequest
    <2>9. RowTypes'
      BY <1>0, <1>1 DEF RowTypes, Accounts!Codes, Accounts!Emails
    <2>10. MailInv'
      <3>1. \A u \in exists' : \/ u \in exists /\ proof'[u] = proof[u] /\ email'[u] = email[u]
                               \/ ProvedBy(proof[u], email[u])'
        <4> SUFFICES ASSUME NEW u \in exists', u = w PROVE ProvedBy(proof[u], email[u])'
          BY <1>1, <2>6, <2>7
        <4> QED
          BY <1>1, <2>2, <2>6 DEF ProvedBy
      <3>2. \A u \in Accounts!Users :
              request'[u] = request[u] \/ ProvedBy(request[u].code, request[u].email)'
        BY <2>3, <2>6 DEF ProvedBy
      <3>3. \E n \in 0..MaxCodes : \A k \in Accounts!Codes : mailed'[k] # NoEmail <=> k <= n
        BY <1>0, <1>1 DEF MailInv
      <3>4. \A i \in Handlers : pc'[i] = "insert" => pc[i] = "insert" /\ req'[i] = req[i]
        BY <2>5 DEF OthersStay
      <3> QED
        BY <1>0, <1>1, <3>1, <3>2, <3>3, <3>4, MailKept
    <2>11. OwnersInv'
      <3>1. \A u \in exists : email[u] # a
        BY <1>3, <2>1 DEF Accounts!Taken, Accounts!Owners
      <3> QED
        BY <1>0, <1>1, <2>6, <2>7, <3>1 DEF OwnersInv
    <2>12. \A u \in exists : email[u] # NoEmail => email'[u] = email[u]
      BY <1>3, <2>6, <2>7
    <2>13. LinkInv'
      BY <1>0, <1>1, <2>5, <2>12, LinksStay DEF OthersStay
    <2>14. FirstInv'
      <3>1. \A i \in Handlers : pc[i] \in {"create", "link"} \/ pc'[i] \in {"create", "link"} =>
              pc'[i] = pc[i] /\ req'[i] = req[i]
        BY <1>1, <2>5 DEF OthersStay
      <3>2. \A u \in exists' : \/ u \in exists /\ (email[u] # NoEmail => email'[u] # NoEmail)
                               \/ u \notin 1..made /\ email'[u] # NoEmail
        BY <1>1, <2>12
      <3> QED
        BY <1>0, <1>1, <3>1, <3>2, FirstStays
    <2>15. StateInv'
      <3>1. \A i \in Handlers : pc'[i] = "take" =>
              req'[i].identity \in states \/ (pc[i] = "take" /\ req'[i] = req[i])
        BY <2>5 DEF OthersStay
      <3> QED
        BY <1>0, <1>1, <3>1, StatesStay
    <2> QED
      BY <2>5, <2>8, <2>9, <2>10, <2>11, <2>13, <2>14, <2>15 DEF AccountInv
  <1> QED
    BY <1>2, <1>3 DEF Accounts!SetEmail

\* What a state can still let in, and what has been let in.
LEMMA StatesLeft ==
  ASSUME StateInv, RowTypes
  PROVE  /\ IsFiniteSet(states) /\ Cardinality(states) \in Nat
         /\ starts \in Nat /\ faults \in Nat /\ accepted \in Nat
         /\ starts + faults - Cardinality(states) \in Nat
         /\ Stragglers \in SUBSET Handlers /\ Cardinality(Stragglers) \in Nat
         /\ Cardinality(Handlers) \in Nat
         /\ accepted + Cardinality(Stragglers)
              <= (starts + faults - Cardinality(states)) * Cardinality(Handlers)
  <1>1. /\ IsFiniteSet(states) /\ Cardinality(states) \in Nat
        /\ starts \in Nat /\ faults \in Nat /\ accepted \in Nat
        /\ Cardinality(states) <= starts + faults
    BY AccountConstants, FS_CardinalityType DEF StateInv, RowTypes
  <1>2. Stragglers \in SUBSET Handlers
    BY DEF Stragglers
  <1>3. Cardinality(Stragglers) \in Nat /\ Cardinality(Handlers) \in Nat
    BY <1>2, CountRequests
  <1> QED
    BY <1>1, <1>2, <1>3 DEF StateInv

\* A provider sign-in starts: a state is stored.
LEMMA StoreStateStep ==
  ASSUME AccountInv, NEW j \in Identities, Accounts!store_oauth_state(j)
  PROVE  AccountInv'
  <1>0. /\ HandlersFit /\ UserTypes /\ RowTypes /\ MailInv
        /\ OwnersInv /\ LinkInv /\ FirstInv /\ StateInv
    BY DEF AccountInv
  <1>1. /\ starts < MaxStarts /\ starts' = starts + 1 /\ states' = states \cup {j}
        /\ UNCHANGED <<exists, email, made, proof, pending, request, linked, accepted, doubled,
                       pc, req, mailed, faults>>
    BY DEF Accounts!store_oauth_state, Accounts!userVars
  <1>2. HandlersFit'
    BY <1>0, <1>1 DEF HandlersFit, Fits, AccountReqs, Accounts!At, Accounts!Users
  <1>3. UserTypes' /\ RowTypes'
    <2>1. starts' \in 0..MaxStarts
      BY <1>0, <1>1, AccountConstants DEF RowTypes
    <2> QED
      BY <1>0, <1>1, <2>1
      DEF UserTypes, RowTypes, Accounts!Users, Accounts!Codes, Accounts!Emails, Accounts!NoRequest
  <1>4. MailInv' /\ OwnersInv' /\ LinkInv'
    BY <1>0, <1>1, MailStays, LinksStay DEF OwnersInv
  <1>5. FirstInv'
    <2>1. faults' \in {faults, faults + 1} /\ doubled \subseteq doubled'
      BY <1>1
    <2> QED
      BY <1>0, <1>1, <2>1, FirstStays
  <1>6. StateInv'
    <2> DEFINE left == starts + faults - Cardinality(states)
               all == Cardinality(Handlers)
    <2>1. /\ IsFiniteSet(states) /\ Cardinality(states) \in Nat
          /\ starts \in Nat /\ faults \in Nat /\ accepted \in Nat /\ left \in Nat
          /\ Stragglers \in SUBSET Handlers /\ Cardinality(Stragglers) \in Nat /\ all \in Nat
          /\ accepted + Cardinality(Stragglers) <= left * all
      BY <1>0, StatesLeft
    <2>2. /\ IsFiniteSet(states')
          /\ Cardinality(states') = IF j \in states THEN Cardinality(states) ELSE Cardinality(states) + 1
      BY <1>1, <2>1, FS_AddElement
    <2>3. left' \in Nat /\ left <= left' /\ Cardinality(states') <= starts' + faults'
      BY <1>1, <2>1, <2>2
    <2>4. Cardinality(Stragglers') \in Nat /\ Cardinality(Stragglers') <= Cardinality(Stragglers)
      <3>1. Stragglers' \subseteq Stragglers
        BY <1>1 DEF Stragglers
      <3> QED
        BY <2>1, <3>1, CountRequests, FS_Subset
    <2>5. left * all <= left' * all /\ left * all \in Nat /\ left' * all \in Nat
      BY <2>1, <2>3, CountTimes
    <2>6. accepted' + Cardinality(Stragglers') <= left' * all
      <3> HIDE DEF left, all
      <3> QED
        BY <1>1, <2>1, <2>4, <2>5
    <2> QED
      BY <2>2, <2>3, <2>6 DEF StateInv
  <1> QED
    BY <1>2, <1>3, <1>4, <1>5, <1>6 DEF AccountInv

\* Counting what is accepted: a state that is deleted leaves the others that read it.
LEMMA AcceptCount ==
  ASSUME NEW n \in Nat, NEW k \in Nat, NEW k2 \in Nat, NEW left \in Nat, NEW left2 \in Nat,
         NEW all \in Nat, n + k <= left * all,
         \/ left2 = left + 1 /\ k2 + 1 <= k + all
         \/ left2 = left /\ k2 + 1 <= k
  PROVE  n + 1 + k2 <= left2 * all
  <1>1. left * all \in Nat /\ (left + 1) * all = left * all + all
    BY CountTimes
  <1> QED
    BY <1>1

\* A callback deletes its state, finds it gone, or fails to delete it.
LEMMA TakeStateStep ==
  ASSUME AccountInv, NEW h \in Handlers, Accounts!TakeState(h)
  PROVE  AccountInv'
  <1> DEFINE j == req[h].identity
  <1>0. /\ HandlersFit /\ UserTypes /\ RowTypes /\ MailInv
        /\ OwnersInv /\ LinkInv /\ FirstInv /\ StateInv
    BY DEF AccountInv
  <1>1. /\ pc[h] = "take" /\ accepted' = accepted + 1 /\ Accounts!Goto(h, "find")
        /\ UNCHANGED <<exists, email, made, proof, pending, request, linked, starts, doubled, mailed>>
    BY DEF Accounts!TakeState, Accounts!userVars
  <1>2. \/ states' = states \ {j} /\ faults' = faults
        \/ states' = states /\ faults' = faults + 1 /\ faults' \in 0..MaxFaults
    BY <1>0, FaultCounts DEF Accounts!TakeState, Accounts!NoFault
  <1>3. HandlersFit' /\ pc'[h] = "find" /\ OthersStay(h)
    <2>1. Fits("find", req[h], made') /\ 1..made \subseteq 1..made'
      BY <1>0, <1>1 DEF HandlersFit, Fits, Accounts!At
    <2> QED
      BY <1>0, <1>1, <2>1, GotoMoves, Moves
  <1>4. UserTypes' /\ RowTypes'
    <2>1. accepted' \in Nat /\ faults' \in 0..MaxFaults /\ states' \subseteq Identities
      BY <1>0, <1>1, <1>2 DEF RowTypes
    <2> QED
      BY <1>0, <1>1, <2>1
      DEF UserTypes, RowTypes, Accounts!Users, Accounts!Codes, Accounts!Emails, Accounts!NoRequest
  <1>5. MailInv' /\ OwnersInv' /\ LinkInv'
    BY <1>0, <1>1, <1>3, MailStays, LinksStay DEF OwnersInv, OthersStay
  <1>6. FirstInv'
    <2>1. \A i \in Handlers : pc[i] \in {"create", "link"} \/ pc'[i] \in {"create", "link"} =>
            pc'[i] = pc[i] /\ req'[i] = req[i]
      BY <1>1, <1>3 DEF OthersStay
    <2>2. faults' \in {faults, faults + 1} /\ doubled \subseteq doubled'
      BY <1>1, <1>2
    <2> QED
      BY <1>0, <1>1, <2>1, <2>2, FirstStays
  <1>7. StateInv'
    <2> DEFINE left == starts + faults - Cardinality(states)
               all == Cardinality(Handlers)
               waiting == {i \in Handlers : pc[i] = "take" /\ req[i].identity = j}
    <2>1. /\ IsFiniteSet(states) /\ Cardinality(states) \in Nat
          /\ starts \in Nat /\ faults \in Nat /\ accepted \in Nat /\ left \in Nat
          /\ Stragglers \in SUBSET Handlers /\ Cardinality(Stragglers) \in Nat /\ all \in Nat
          /\ accepted + Cardinality(Stragglers) <= left * all
          /\ Cardinality(states) <= starts + faults
      BY <1>0, StatesLeft DEF StateInv
    <2>2. /\ Stragglers' \in SUBSET Handlers /\ IsFiniteSet(Stragglers')
          /\ Cardinality(Stragglers') \in Nat /\ h \notin Stragglers' /\ IsFiniteSet(Stragglers)
      <3>1. Stragglers' \in SUBSET Handlers /\ h \notin Stragglers'
        BY <1>3 DEF Stragglers
      <3> QED
        BY <2>1, <3>1, CountRequests
    <2>3. CASE states' = states /\ faults' = faults + 1
      <3>1. Stragglers' \subseteq Stragglers
        BY <1>3, <2>3 DEF Stragglers, OthersStay
      <3>2. Cardinality(Stragglers') <= Cardinality(Stragglers)
        BY <2>2, <3>1, FS_Subset
      <3>3. all >= 1
        <4>1. {h} \in SUBSET Handlers
          OBVIOUS
        <4> QED
          BY <4>1, CountRequests, FS_Singleton
      <3>4. left' = left + 1 /\ left' \in Nat /\ Cardinality(states') <= starts' + faults'
        BY <1>1, <2>1, <2>3
      <3>5. accepted + 1 + Cardinality(Stragglers') <= left' * all
        <4> HIDE DEF left, all
        <4> QED
          BY <2>1, <2>2, <3>2, <3>3, <3>4, AcceptCount
      <3> QED
        BY <1>1, <2>1, <2>3, <3>4, <3>5 DEF StateInv
    <2>4. CASE states' = states \ {j} /\ faults' = faults /\ j \notin states
      <3>1. states' = states
        BY <2>4
      <3>2. Stragglers' \subseteq Stragglers \ {h} /\ h \in Stragglers
        BY <1>1, <1>3, <2>4, <3>1 DEF Stragglers, OthersStay
      <3>3. /\ IsFiniteSet(Stragglers \ {h})
            /\ Cardinality(Stragglers \ {h}) = Cardinality(Stragglers) - 1
        BY <2>2, <3>2, FS_RemoveElement
      <3>4. Cardinality(Stragglers') + 1 <= Cardinality(Stragglers)
        <4>1. Cardinality(Stragglers') <= Cardinality(Stragglers \ {h})
          BY <3>2, <3>3, FS_Subset
        <4> QED
          BY <2>1, <2>2, <3>3, <4>1
      <3>5. left' = left /\ left' \in Nat /\ Cardinality(states') <= starts' + faults'
        BY <1>1, <2>1, <2>4, <3>1
      <3>6. accepted + 1 + Cardinality(Stragglers') <= left' * all
        <4> HIDE DEF left, all
        <4> QED
          BY <2>1, <2>2, <3>4, <3>5, AcceptCount
      <3> QED
        BY <1>1, <2>1, <3>1, <3>5, <3>6 DEF StateInv
    <2>5. CASE states' = states \ {j} /\ faults' = faults /\ j \in states
      <3>1. /\ IsFiniteSet(states') /\ Cardinality(states') = Cardinality(states) - 1
        <4>1. IsFiniteSet(states)
          BY <2>1
        <4>2. /\ IsFiniteSet(states \ {j})
              /\ Cardinality(states \ {j}) = Cardinality(states) - 1
          <5> HIDE DEF j
          <5> QED
            BY <4>1, <2>5, FS_RemoveElement
        <4> QED
          BY <4>2, <2>5
      <3>2. Cardinality(states') \in Nat
        BY <3>1, FS_CardinalityType
      <3>3. left' = left + 1 /\ left' \in Nat /\ Cardinality(states') <= starts' + faults'
        BY <1>1, <2>1, <2>5, <3>1, <3>2
      <3>4. Stragglers' \subseteq Stragglers \cup (waiting \ {h}) /\ waiting \in SUBSET Handlers /\ h \in waiting
        BY <1>1, <1>3, <2>5 DEF Stragglers, OthersStay
      <3>5. /\ IsFiniteSet(waiting \ {h}) /\ Cardinality(waiting \ {h}) = Cardinality(waiting) - 1
            /\ Cardinality(waiting) <= all /\ Cardinality(waiting) \in Nat
        <4>1. IsFiniteSet(waiting) /\ Cardinality(waiting) \in Nat /\ Cardinality(waiting) <= all
          BY <3>4, CountRequests
        <4> HIDE DEF waiting
        <4> QED
          BY <3>4, <4>1, FS_RemoveElement
      <3> HIDE DEF waiting
      <3>6. /\ IsFiniteSet(Stragglers \cup (waiting \ {h}))
            /\ Cardinality(Stragglers \cup (waiting \ {h})) <= Cardinality(Stragglers) + Cardinality(waiting \ {h})
        <4>1. /\ IsFiniteSet(Stragglers \cup (waiting \ {h}))
              /\ Cardinality(Stragglers \cup (waiting \ {h})) =
                   Cardinality(Stragglers) + Cardinality(waiting \ {h})
                     - Cardinality(Stragglers \cap (waiting \ {h}))
          BY <2>2, <3>5, FS_Union
        <4>2. Cardinality(Stragglers \cap (waiting \ {h})) \in Nat
          <5>1. Stragglers \cap (waiting \ {h}) \in SUBSET Handlers
            BY <2>1
          <5> QED
            BY <5>1, CountRequests
        <4> QED
          BY <2>1, <3>5, <4>1, <4>2
      <3>7. Cardinality(Stragglers') + 1 <= Cardinality(Stragglers) + all
        <4>1. Cardinality(Stragglers') <= Cardinality(Stragglers \cup (waiting \ {h}))
          BY <3>4, <3>6, FS_Subset
        <4>2. Cardinality(Stragglers \cup (waiting \ {h})) \in Nat
          BY <3>6, FS_CardinalityType
        <4> HIDE DEF all
        <4> QED
          BY <2>1, <2>2, <3>5, <3>6, <4>1, <4>2
      <3>8. accepted + 1 + Cardinality(Stragglers') <= left' * all
        <4> HIDE DEF left, all
        <4> QED
          BY <2>1, <2>2, <3>3, <3>7, AcceptCount
      <3> QED
        BY <1>1, <2>5, <3>1, <3>3, <3>8 DEF StateInv
    <2> QED
      BY <1>2, <2>3, <2>4, <2>5
  <1> QED
    BY <1>3, <1>4, <1>5, <1>6, <1>7 DEF AccountInv

\* Every step of the accounts, and every step elsewhere, keeps the invariant.
LEMMA AccountStep ==
  ASSUME AccountInv, Accounts!Next \/ UNCHANGED accountVars
  PROVE  AccountInv'
  <1>1. CASE UNCHANGED accountVars
    <2>1. RowsStay /\ UNCHANGED <<pc, req>>
      BY <1>1 DEF accountVars, RowsStay
    <2>2. HandlersFit' /\ UserTypes' /\ RowTypes'
      BY <2>1 DEF AccountInv, HandlersFit, UserTypes, RowTypes, RowsStay, Fits, AccountReqs,
                  Accounts!At, Accounts!Users, Accounts!Codes, Accounts!Emails, Accounts!NoRequest
    <2>3. MailInv' /\ OwnersInv' /\ LinkInv'
      BY <2>1, MailStays, LinksStay DEF AccountInv, RowsStay, OwnersInv
    <2>4. FirstInv' /\ StateInv'
      <3>1. faults' \in {faults, faults + 1} /\ doubled \subseteq doubled' /\ UNCHANGED <<exists, email>>
        BY <2>1 DEF RowsStay
      <3> QED
        BY <2>1, <3>1, FirstStays, StatesStay DEF AccountInv, RowsStay
    <2> QED
      BY <2>2, <2>3, <2>4 DEF AccountInv
  <1>2. ASSUME NEW h \in Handlers, Accounts!HandlerStep(h) PROVE AccountInv'
    BY <1>2, UpsertPendingStep, InsertRegisteredStep, DeletePendingStep, TakeStateStep,
       FindLinkedStep, FindByEmailStep, CreateOAuthUserStep, LinkAccountStep, InsertNativeStep,
       UpsertRequestStep, SetEmailStep
    DEF Accounts!HandlerStep
  <1>3. ASSUME NEW h \in Handlers, NEW a \in Addresses,
               Accounts!PostRegister(h, a) \/ Accounts!RegisterComplete(h, a)
        PROVE  AccountInv'
    BY <1>3, ChecksStep
  <1>4. ASSUME NEW a \in Addresses, NEW c \in Accounts!Codes, Accounts!RegisterVerify(a, c)
        PROVE  AccountInv'
    BY <1>4, RegisterVerifyStep
  <1>5. ASSUME NEW a \in Addresses, Accounts!PostUser(a) PROVE AccountInv'
    BY <1>5, PostUserStep
  <1>6. ASSUME NEW u \in Accounts!Users, Accounts!DeleteUser(u) PROVE AccountInv'
    BY <1>6, DeleteUserStep
  <1>7. ASSUME NEW i \in Identities,
               Accounts!OAuthGoogle(i) \/ Accounts!OAuthYandex(i) \/ Accounts!OAuthVk(i)
        PROVE  AccountInv'
    BY <1>7, StoreStateStep DEF Accounts!OAuthGoogle, Accounts!OAuthYandex, Accounts!OAuthVk
  <1>8. ASSUME NEW h \in Handlers, NEW i \in Identities,
               \/ Accounts!OAuthGoogleCallback(h, i) \/ Accounts!OAuthYandexCallback(h, i)
               \/ Accounts!OAuthVkCallback(h, i) \/ Accounts!OAuthGoogleExchange(h, i)
        PROVE  AccountInv'
    BY <1>8, ChecksStep
    DEF Accounts!OAuthGoogleCallback, Accounts!OAuthYandexCallback, Accounts!OAuthVkCallback
  <1>9. ASSUME NEW h \in Handlers, NEW u \in Accounts!Users, NEW a \in Addresses,
               \/ Accounts!RequestEmail(h, u, a)
               \/ \E c \in Accounts!Codes : Accounts!VerifyEmail(h, u, a, c)
        PROVE  AccountInv'
    <2>1. CASE Accounts!RequestEmail(h, u, a)
      BY <2>1, ChecksStep
    <2>2. CASE \E c \in Accounts!Codes : Accounts!VerifyEmail(h, u, a, c)
      BY <2>2, ChecksStep
    <2> QED
      BY <1>9, <2>1, <2>2
  <1> QED
    BY <1>1, <1>2, <1>3, <1>4, <1>5, <1>6, <1>7, <1>8, <1>9 DEF Accounts!Next

\* However registration, provider sign-ins, added addresses and deletions overlap:
\* no address is in two accounts or proved by a code mailed elsewhere, a linked
\* identity leads to the account with its address, no account without an address is
\* cut off, and a state is accepted no more often than requests can share it.
THEOREM AccountsAreSafe == Spec => []AccountsSafe
  <1>1. AccountInv /\ [Next]_<<part, userVars, boardVars, accountVars>> => AccountInv'
    BY ServiceStep, AccountStep
  <1>2. AccountInv => AccountsSafe
    <2> SUFFICES ASSUME AccountInv PROVE AccountsSafe
      OBVIOUS
    <2>0. /\ HandlersFit /\ UserTypes /\ RowTypes /\ MailInv
          /\ OwnersInv /\ LinkInv /\ FirstInv /\ StateInv
      BY DEF AccountInv
    <2>1. Accounts!TypeOK
      BY <2>0, AccountTypeCorrect
    <2>2. Accounts!OneAccountPerEmail
      <3> SUFFICES ASSUME NEW a \in Addresses
                   PROVE  Cardinality(Accounts!Owners(a)) <= 1
        BY SameCardinality DEF Accounts!OneAccountPerEmail
      <3>1. CASE Accounts!Owners(a) = {}
        BY <3>1, FS_EmptySet
      <3>2. CASE Accounts!Owners(a) # {}
        <4>1. PICK u \in Accounts!Owners(a) : TRUE
          BY <3>2
        <4>2. Accounts!Owners(a) = {u}
          BY <2>0, <4>1 DEF OwnersInv, Accounts!Owners
        <4> QED
          BY <4>2, FS_Singleton
      <3> QED
        BY <3>1, <3>2
    <2>3. Accounts!ProvedByItsMail
      BY <2>0 DEF MailInv, ProvedBy, Accounts!ProvedByItsMail
    <2>4. Accounts!LinkFollowsEmail
      BY <2>0 DEF LinkInv
    <2>5. Accounts!NoAccountLost
      BY <2>0 DEF FirstInv, Excused, Accounts!NoAccountLost
    <2>6. Accounts!StatesTakenOnce
      <3> DEFINE left == starts + faults - Cardinality(states)
                 all == Cardinality(Handlers)
      <3>1. /\ Cardinality(states) \in Nat /\ starts \in Nat /\ faults \in Nat /\ accepted \in Nat
            /\ left \in Nat /\ Cardinality(Stragglers) \in Nat /\ all \in Nat
            /\ accepted + Cardinality(Stragglers) <= left * all
        BY <2>0, StatesLeft
      <3>2. left <= starts + faults /\ starts + faults \in Nat
        BY <3>1
      <3>3. /\ left * all <= (starts + faults) * all
            /\ left * all \in Nat /\ (starts + faults) * all \in Nat
        BY <3>1, <3>2, CountTimes
      <3>4. accepted <= (starts + faults) * all
        <4> HIDE DEF left, all
        <4> QED
          BY <3>1, <3>3
      <3> QED
        BY <3>4, SameCardinality DEF Accounts!StatesTakenOnce
    <2> QED
      BY <2>1, <2>2, <2>3, <2>4, <2>5, <2>6 DEF AccountsSafe
  <1> QED
    BY AccountInit, <1>1, <1>2, PTL DEF Spec
=============================================================================
