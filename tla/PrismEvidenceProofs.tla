-------------------------- MODULE PrismEvidenceProofs --------------------------
(***************************************************************************)
(* Proofs about PrismEvidence, for every set of keys, loans, vaults and    *)
(* messages: records keep their types, every status rests on a message of  *)
(* the key in its record, and a verified record moves by newer ones only.  *)
(* And for an allowlist of any length: a removal takes out one key and no  *)
(* other, no change makes a key occur twice, and the list stays short.     *)
(***************************************************************************)
EXTENDS PrismEvidence, WellFoundedInduction, TLAPS

\* The inductive invariant: a message is never unsigned, a record keeps the
\* key, the nonce and the commitment of the message it rests on, and what is
\* replaced rests on none.
Inv == RecordsTyped /\ StatusIsEvidenced

LEMMA InitInv == Init => Inv
  BY EvidenceAssumption DEF Init, Inv, RecordsTyped, StatusIsEvidenced,
     CollateralEvidenced, DefaultEvidenced, PayoutEvidenced, NoRecord, NoScore, Attested,
     CollateralRecords, HealthRecords

-----------------------------------------------------------------------------
\* What leaves the records alone and takes no message back keeps the invariant.
LEMMA Untouched ==
  ASSUME Inv, UNCHANGED records, takes' \subseteq takes,
         col_atts \subseteq col_atts', col_atts' \subseteq CollateralMessages,
         enc_atts \subseteq enc_atts', enc_atts' \subseteq DefaultMessages,
         clk_atts \subseteq clk_atts', clk_atts' \subseteq PayoutMessages
  PROVE  Inv'
  BY DEF Inv, RecordsTyped, StatusIsEvidenced, CollateralEvidenced,
     DefaultEvidenced, PayoutEvidenced, records, CollateralMessages,
     DefaultMessages, PayoutMessages

LEMMA SignInv == Inv /\ Sign => Inv'
<1> SUFFICES ASSUME Inv, Sign PROVE Inv'
  OBVIOUS
<1>0. /\ col_atts \subseteq CollateralMessages
      /\ enc_atts \subseteq DefaultMessages
      /\ clk_atts \subseteq PayoutMessages
  BY DEF Inv, RecordsTyped
<1>1. ASSUME NEW m \in CollateralMessages, SignCollateral(m) PROVE Inv'
  BY <1>0, <1>1, Untouched DEF SignCollateral
<1>2. ASSUME NEW m \in DefaultMessages, SignDefault(m) PROVE Inv'
  BY <1>0, <1>2, Untouched DEF SignDefault
<1>3. ASSUME NEW m \in PayoutMessages, SignPayout(m) PROVE Inv'
  BY <1>0, <1>3, Untouched DEF SignPayout
<1> QED
  BY <1>1, <1>2, <1>3 DEF Sign

LEMMA ManageInv == Inv /\ Manage => Inv'
<1> SUFFICES ASSUME Inv, Manage PROVE Inv'
  OBVIOUS
<1>1. UNCHANGED <<takes, records, messages>>
  BY DEF Manage, AddOracle, RemoveOracle, RotateOracle
<1>2. /\ col_atts \subseteq CollateralMessages
      /\ enc_atts \subseteq DefaultMessages
      /\ clk_atts \subseteq PayoutMessages
  BY DEF Inv, RecordsTyped
<1> QED
  BY <1>1, <1>2, Untouched DEF messages

LEMMA LoanMovesOnInv == \A l \in Loans : Inv /\ LoanMovesOn(l) => Inv'
<1> SUFFICES ASSUME NEW l \in Loans, Inv, LoanMovesOn(l) PROVE Inv'
  OBVIOUS
<1>1. /\ col_atts \subseteq CollateralMessages
      /\ enc_atts \subseteq DefaultMessages
      /\ clk_atts \subseteq PayoutMessages
  BY DEF Inv, RecordsTyped
<1> QED
  BY <1>1, Untouched DEF LoanMovesOn, messages

-----------------------------------------------------------------------------
\* A record that is attached again rests on no message, so none is needed.
LEMMA AttachInv ==
  ASSUME NEW l \in Loans, NEW k \in Keys, Inv, AttachCollateral(l, k)
  PROVE  Inv'
<1>1. [status |-> "Pending", key |-> k, nonce |-> 0] \in CollateralRecords
  BY EvidenceAssumption DEF CollateralRecords
<1>2. collateral' \in [Loans -> CollateralRecords]
  BY <1>1 DEF Inv, RecordsTyped, AttachCollateral
<1>3. RecordsTyped'
  BY <1>2 DEF Inv, RecordsTyped, AttachCollateral, messages
<1>4. CollateralEvidenced'
  BY DEF Inv, RecordsTyped, StatusIsEvidenced, CollateralEvidenced,
     AttachCollateral, messages, Attested
<1>5. DefaultEvidenced' /\ PayoutEvidenced'
  BY DEF Inv, StatusIsEvidenced, DefaultEvidenced, PayoutEvidenced,
     AttachCollateral, messages
<1> QED
  BY <1>3, <1>4, <1>5 DEF Inv, StatusIsEvidenced

LEMMA SubmitInv ==
  ASSUME NEW l \in Loans, NEW m \in col_atts, Inv, SubmitCollateral(l, m)
  PROVE  Inv'
<1>1. m \in CollateralMessages
  BY DEF Inv, RecordsTyped
<1>2. PICK rec : rec = [collateral[l] EXCEPT !.status = m.status, !.nonce = m.nonce]
  OBVIOUS
<1>3. collateral' = [collateral EXCEPT ![l] = rec]
  BY <1>2 DEF SubmitCollateral
<1>a. collateral[l] \in CollateralRecords
  BY DEF Inv, RecordsTyped
<1>b. rec \in CollateralRecords
  BY <1>1, <1>2, <1>a DEF CollateralMessages, CollateralRecords
<1>4. /\ rec.status = m.status /\ rec.nonce = m.nonce /\ rec.key = m.by /\ m.loan = l
      /\ rec \in CollateralRecords
  BY <1>2, <1>a, <1>b DEF SubmitCollateral, Binds, CollateralRecords
<1>5. RecordsTyped'
  BY <1>3, <1>4 DEF Inv, RecordsTyped, SubmitCollateral, messages
<1>6. [loan |-> l, nonce |-> rec.nonce, status |-> rec.status, by |-> rec.key] = m
  BY <1>1, <1>4 DEF CollateralMessages
<1>7. CollateralEvidenced'
  <2> SUFFICES ASSUME NEW x \in Loans, collateral'[x].status \in Attested
               PROVE  [loan |-> x, nonce |-> collateral'[x].nonce,
                       status |-> collateral'[x].status,
                       by |-> collateral'[x].key] \in col_atts
    BY DEF CollateralEvidenced, SubmitCollateral, messages
  <2>1. CASE x = l
    BY <1>3, <1>6, <2>1 DEF Inv, RecordsTyped
  <2>2. CASE x # l
    <3>1. collateral'[x] = collateral[x]
      BY <1>3, <2>2 DEF Inv, RecordsTyped
    <3> QED
      BY <3>1 DEF Inv, StatusIsEvidenced, CollateralEvidenced
  <2> QED
    BY <2>1, <2>2
<1>8. DefaultEvidenced' /\ PayoutEvidenced'
  BY DEF Inv, StatusIsEvidenced, DefaultEvidenced, PayoutEvidenced,
     SubmitCollateral, messages
<1> QED
  BY <1>5, <1>7, <1>8 DEF Inv, StatusIsEvidenced

LEMMA AttachScoreInv ==
  ASSUME NEW l \in Loans, NEW c \in Commitments, NEW k \in Keys,
         Inv, AttachEncryptScore(l, c, k)
  PROVE  Inv'
<1>0. [status |-> "Pending", key |-> k, commitment |-> c] \in HealthRecords
  BY DEF HealthRecords
<1>1. RecordsTyped'
  BY <1>0 DEF Inv, RecordsTyped, AttachEncryptScore, messages
<1>2. DefaultEvidenced'
  BY DEF Inv, RecordsTyped, StatusIsEvidenced, DefaultEvidenced,
     AttachEncryptScore, messages
<1>3. CollateralEvidenced' /\ PayoutEvidenced'
  BY DEF Inv, StatusIsEvidenced, CollateralEvidenced, PayoutEvidenced,
     AttachEncryptScore, messages
<1> QED
  BY <1>1, <1>2, <1>3 DEF Inv, StatusIsEvidenced

LEMMA VerifyDefaultInv ==
  ASSUME NEW l \in Loans, NEW m \in enc_atts, Inv, VerifyEncryptDefault(l, m)
  PROVE  Inv'
<1>1. m \in DefaultMessages
  BY DEF Inv, RecordsTyped
<1>2. PICK rec : rec = [health[l] EXCEPT !.status = "DefaultProven"]
  OBVIOUS
<1>3. health' = [health EXCEPT ![l] = rec]
  BY <1>2 DEF VerifyEncryptDefault
<1>4. /\ rec.status = "DefaultProven" /\ rec.commitment = m.commitment
      /\ rec.key = m.by /\ m.loan = l /\ m.proven = TRUE
      /\ rec \in HealthRecords
  BY <1>1, <1>2 DEF Inv, RecordsTyped, VerifyEncryptDefault, DefaultMessages, HealthRecords
<1>5. RecordsTyped'
  BY <1>3, <1>4 DEF Inv, RecordsTyped, VerifyEncryptDefault, messages
<1>6. [loan |-> l, commitment |-> rec.commitment, proven |-> TRUE, by |-> rec.key] = m
  BY <1>1, <1>4 DEF DefaultMessages
<1>7. DefaultEvidenced'
  <2> SUFFICES ASSUME NEW x \in Loans, health'[x].status = "DefaultProven"
               PROVE  [loan |-> x, commitment |-> health'[x].commitment,
                       proven |-> TRUE, by |-> health'[x].key] \in enc_atts
    BY DEF DefaultEvidenced, VerifyEncryptDefault, messages
  <2>1. CASE x = l
    BY <1>3, <1>6, <2>1 DEF Inv, RecordsTyped
  <2>2. CASE x # l
    <3>1. health'[x] = health[x]
      BY <1>3, <2>2 DEF Inv, RecordsTyped
    <3> QED
      BY <3>1 DEF Inv, StatusIsEvidenced, DefaultEvidenced
  <2> QED
    BY <2>1, <2>2
<1>8. CollateralEvidenced' /\ PayoutEvidenced'
  BY DEF Inv, StatusIsEvidenced, CollateralEvidenced, PayoutEvidenced,
     VerifyEncryptDefault, messages
<1> QED
  BY <1>5, <1>7, <1>8 DEF Inv, StatusIsEvidenced

LEMMA PayoutInv ==
  ASSUME NEW v \in Vaults, NEW m \in clk_atts, Inv, RecordCloakPayout(v, m)
  PROVE  Inv'
<1>1. m \in PayoutMessages
  BY DEF Inv, RecordsTyped
<1>2. PICK rec : rec = [key |-> m.by, batch |-> m.batch]
  OBVIOUS
<1>3. rec \in PayoutRecords /\ rec.key = m.by /\ rec.batch = m.batch
  BY <1>1, <1>2 DEF PayoutMessages, PayoutRecords
<1>4. PICK log : log = Append(payouts[v], rec)
  OBVIOUS
<1>5. payouts' = [payouts EXCEPT ![v] = log]
  BY <1>2, <1>4 DEF RecordCloakPayout
<1>6. payouts[v] \in Seq(PayoutRecords)
  BY DEF Inv, RecordsTyped
<1>7. log \in Seq(PayoutRecords)
  BY <1>3, <1>4, <1>6
<1>8. RecordsTyped'
  BY <1>5, <1>7 DEF Inv, RecordsTyped, RecordCloakPayout, messages
<1>9. [vault |-> v, batch |-> rec.batch, confirmed |-> TRUE, by |-> rec.key] = m
  BY <1>1, <1>3 DEF PayoutMessages, RecordCloakPayout
<1>10. PayoutEvidenced'
  <2> SUFFICES ASSUME NEW x \in Vaults, NEW i \in DOMAIN payouts'[x]
               PROVE  [vault |-> x, batch |-> payouts'[x][i].batch, confirmed |-> TRUE,
                       by |-> payouts'[x][i].key] \in clk_atts
    BY DEF PayoutEvidenced, RecordCloakPayout, messages
  <2>1. CASE x = v
    <3>1. payouts'[v] = log
      BY <1>5 DEF Inv, RecordsTyped
    <3>2. \/ i \in DOMAIN payouts[v] /\ log[i] = payouts[v][i]
          \/ log[i] = rec
      BY <1>3, <1>4, <1>6, <2>1, <3>1
    <3> QED
      BY <1>9, <2>1, <3>1, <3>2 DEF Inv, StatusIsEvidenced, PayoutEvidenced
  <2>2. CASE x # v
    <3>1. payouts'[x] = payouts[x]
      BY <1>5, <2>2 DEF Inv, RecordsTyped
    <3> QED
      BY <3>1 DEF Inv, StatusIsEvidenced, PayoutEvidenced
  <2> QED
    BY <2>1, <2>2
<1>11. CollateralEvidenced' /\ DefaultEvidenced'
  BY DEF Inv, StatusIsEvidenced, CollateralEvidenced, DefaultEvidenced,
     RecordCloakPayout, messages
<1> QED
  BY <1>8, <1>10, <1>11 DEF Inv, StatusIsEvidenced

-----------------------------------------------------------------------------
LEMMA StutterInv == Inv /\ UNCHANGED vars => Inv'
<1> SUFFICES ASSUME Inv, UNCHANGED vars PROVE Inv'
  OBVIOUS
<1>1. /\ col_atts \subseteq CollateralMessages
      /\ enc_atts \subseteq DefaultMessages
      /\ clk_atts \subseteq PayoutMessages
  BY DEF Inv, RecordsTyped
<1> QED
  BY <1>1, Untouched DEF vars, messages

LEMMA NextInv == Inv /\ [Next]_vars => Inv'
<1> SUFFICES ASSUME Inv, [Next]_vars PROVE Inv'
  OBVIOUS
<1>1. CASE Sign
  BY <1>1, SignInv
<1>2. CASE Manage
  BY <1>2, ManageInv
<1>3. CASE Submit
  BY <1>3, AttachInv, SubmitInv, AttachScoreInv, VerifyDefaultInv, PayoutInv DEF Submit
<1>4. CASE \E l \in Loans : LoanMovesOn(l)
  BY <1>4, LoanMovesOnInv
<1>5. CASE UNCHANGED vars
  BY <1>5, StutterInv
<1> QED
  BY <1>1, <1>2, <1>3, <1>4, <1>5 DEF Next

LEMMA EvidenceInvariant == Spec => []Inv
  BY InitInv, NextInv, PTL DEF Spec

\* Every status rests on a message of the key in its record, for any number of
\* keys, loans and messages, signed, delayed and replayed in any order.
THEOREM EvidenceCorrect == Spec => []StatusIsEvidenced
<1>1. Inv => StatusIsEvidenced
  BY DEF Inv
<1> QED
  BY <1>1, EvidenceInvariant, PTL

-----------------------------------------------------------------------------
\* Of all steps only a submission changes a verified record.
LEMMA StepAdvances == Inv /\ Next => NonceAdvances
<1> SUFFICES ASSUME Inv, Next, NEW x \in Loans,
                    collateral[x].status \in Attested, collateral'[x] # collateral[x]
             PROVE  /\ collateral'[x].nonce > collateral[x].nonce
                    /\ collateral'[x].key = collateral[x].key
  BY DEF NonceAdvances
<1>1. ASSUME NEW l \in Loans, NEW k \in Keys, AttachCollateral(l, k) PROVE FALSE
  BY <1>1 DEF AttachCollateral, Attachable, Attested, Inv, RecordsTyped
<1>2. ASSUME NEW l \in Loans, NEW m \in col_atts, SubmitCollateral(l, m)
      PROVE  /\ collateral'[x].nonce > collateral[x].nonce
             /\ collateral'[x].key = collateral[x].key
  BY <1>2 DEF SubmitCollateral, Binds, Inv, RecordsTyped
<1>3. ~ UNCHANGED collateral
  OBVIOUS
<1> QED
  BY <1>1, <1>2, <1>3 DEF Next, Sign, SignCollateral, SignDefault, SignPayout, Manage,
     AddOracle, RemoveOracle, RotateOracle, Submit, AttachEncryptScore,
     VerifyEncryptDefault, RecordCloakPayout, LoanMovesOn, records

\* docs/contract-reference.md:101, for every order in which messages arrive.
THEOREM NonceCorrect == Spec => NonceGrows
<1>1. Inv /\ [Next]_vars => [NonceAdvances]_vars
  BY StepAdvances
<1> QED
  BY <1>1, EvidenceInvariant, PTL DEF Spec, NonceGrows
-----------------------------------------------------------------------------
(* The oracle allowlist.  remove_oracle_from_allowlist builds the new list in *)
(* a loop.  What the loop has built after n keys is proved for every n, by    *)
(* the smallest n for which it would not hold.                                *)

\* Every set of naturals has a smallest element.  A statement about all naturals
\* follows from it: a smallest one that refutes the statement cannot exist.
LEMMA Smallest ==
    ASSUME NEW T, T \subseteq Nat, T # {}
    PROVE  \E m \in T : \A k \in T : m <= k
<1> DEFINE R == OpToRel(<, Nat)
<1>1. IsWellFoundedOn(R, Nat)
  BY NatLessThanWellFounded
<1>2. \A x, y \in Nat : x < y => <<x, y>> \in R
  BY DEF OpToRel
<1> HIDE DEF R
<1>3. PICK m \in T : \A y \in T : <<y, m>> \notin R
  BY <1>1, WFMin
<1>4. \A k \in T : ~(k < m)
  BY <1>2, <1>3, Zenon
<1> QED BY <1>4

\* What the loop of remove_oracle_from_allowlist does with the next key.
Keep(list, key, i, kept) == IF list[i] # key THEN Append(kept, list[i]) ELSE kept

\* The lists that the loop goes through, up to the n-th key.
Passes(list, key, n, next) ==
    next = [i \in 0 .. n |-> IF i = 0 THEN << >> ELSE Keep(list, key, i, next[i - 1])]

LEMMA LoopPasses ==
    ASSUME NEW list, NEW key, NEW n \in Nat
    PROVE  \E next : Passes(list, key, n, next)
<1> DEFINE T == {m \in Nat : ~ \E next : Passes(list, key, m, next)}
<1> SUFFICES ASSUME T # {} PROVE FALSE
  OBVIOUS
<1>1. PICK m \in T : \A k \in T : m <= k
  <2>1. T \subseteq Nat
    OBVIOUS
  <2> HIDE DEF T
  <2> QED BY <2>1, Smallest
<1>2. CASE m = 0
  <2> DEFINE f == [i \in 0 .. 0 |-> << >>]
  <2>1. f = [i \in 0 .. 0 |-> IF i = 0 THEN << >> ELSE Keep(list, key, i, f[i - 1])]
    OBVIOUS
  <2> QED BY <1>1, <1>2, <2>1 DEF Passes
<1>3. CASE m # 0
  <2>1. m - 1 \in Nat /\ m - 1 \notin T /\ m \in Nat
    BY <1>1, <1>3
  <2>2. PICK f : Passes(list, key, m - 1, f)
    BY <2>1
  <2> DEFINE g == [i \in 0 .. m |-> IF i = m THEN Keep(list, key, m, f[m - 1]) ELSE f[i]]
  <2>3. \A i \in 0 .. (m - 1) : f[i] = IF i = 0 THEN << >> ELSE Keep(list, key, i, f[i - 1])
    BY <2>2, Zenon DEF Passes
  <2>4. \A i \in 0 .. m : g[i] = IF i = 0 THEN << >> ELSE Keep(list, key, i, g[i - 1])
    <3> SUFFICES ASSUME NEW i \in 0 .. m
                 PROVE  g[i] = IF i = 0 THEN << >> ELSE Keep(list, key, i, g[i - 1])
      OBVIOUS
    <3>1. i = 0 \/ i - 1 \in 0 .. (m - 1)
      BY <2>1
    <3>2. CASE i = m
      BY <1>3, <2>1, <3>1, <3>2
    <3>3. CASE i # m
      <4>1. i \in 0 .. (m - 1) /\ (i # 0 => i - 1 # m)
        BY <2>1, <3>3
      <4>2. g[i] = f[i] /\ (i # 0 => g[i - 1] = f[i - 1])
        BY <2>1, <3>1, <4>1
      <4> QED BY <2>3, <4>1, <4>2
    <3> QED BY <3>2, <3>3
  <2>5. Passes(list, key, m, g)
    <3> DEFINE h == [i \in 0 .. m |-> IF i = 0 THEN << >> ELSE Keep(list, key, i, g[i - 1])]
    <3>1. \A i \in 0 .. m : g[i] = h[i]
      BY <2>4
    <3>2. g = h
      BY <3>1
    <3> QED BY <3>2 DEF Passes
  <2> QED BY <1>1, <2>5
<1> QED BY <1>2, <1>3

LEMMA WithoutPasses ==
    ASSUME NEW list, NEW key, Len(list) \in Nat
    PROVE  \E next : Passes(list, key, Len(list), next) /\ Without(list, key) = next[Len(list)]
<1> DEFINE next[i \in 0 .. Len(list)] ==
               IF i = 0 THEN << >>
               ELSE IF list[i] # key THEN Append(next[i - 1], list[i])
               ELSE next[i - 1]
<1>1. Without(list, key) = next[Len(list)]
  BY DEF Without
<1>2. \E f : f = [i \in 0 .. Len(list) |->
            IF i = 0 THEN << >>
            ELSE IF list[i] # key THEN Append(f[i - 1], list[i])
            ELSE f[i - 1]]
  <2> DEFINE body(f, i) == IF i = 0 THEN << >>
                           ELSE IF list[i] # key THEN Append(f[i - 1], list[i])
                           ELSE f[i - 1]
  <2>0. PICK f : Passes(list, key, Len(list), f)
    BY LoopPasses
  <2>1. f = [i \in 0 .. Len(list) |->
                        IF i = 0 THEN << >> ELSE Keep(list, key, i, f[i - 1])]
    BY <2>0 DEF Passes
  <2>2. \A i : body(f, i) = IF i = 0 THEN << >> ELSE Keep(list, key, i, f[i - 1])
    BY DEF Keep
  <2> HIDE DEF body
  <2>3. f = [i \in 0 .. Len(list) |-> body(f, i)]
    BY <2>1, <2>2
  <2> QED BY <2>3, Zenon DEF body
<1>3. next = [i \in 0 .. Len(list) |->
            IF i = 0 THEN << >>
            ELSE IF list[i] # key THEN Append(next[i - 1], list[i])
            ELSE next[i - 1]]
  BY <1>2, Zenon
<1> HIDE DEF next
<1>4. Passes(list, key, Len(list), next)
  BY <1>3 DEF Passes, Keep
<1> QED BY <1>1, <1>4

\* What is kept of the first n keys: all but the one removed, each as often as
\* before or less.
Kept(K, list, key, n, kept) ==
    /\ kept \in Seq(K) /\ Len(kept) <= n
    /\ \A p \in 1 .. Len(kept) : \E q \in 1 .. n : kept[p] = list[q] /\ list[q] # key
    /\ \A q \in 1 .. n : list[q] # key => \E p \in 1 .. Len(kept) : kept[p] = list[q]
    /\ Sound(list) => Sound(kept)

LEMMA KeepKeeps ==
    ASSUME NEW K, NEW list \in Seq(K), NEW key, NEW n \in 1 .. Len(list),
           NEW kept, Kept(K, list, key, n - 1, kept)
    PROVE  Kept(K, list, key, n, Keep(list, key, n, kept))
<1>1. /\ kept \in Seq(K) /\ Len(kept) <= n - 1 /\ Len(kept) \in Nat /\ n \in Nat
      /\ list[n] \in K
  BY DEF Kept
<1>2. CASE list[n] = key
  <2>1. Keep(list, key, n, kept) = kept
    BY <1>2 DEF Keep
  <2>2. \A p \in 1 .. Len(kept) : \E q \in 1 .. n : kept[p] = list[q] /\ list[q] # key
    <3> TAKE p \in 1 .. Len(kept)
    <3>1. PICK q \in 1 .. (n - 1) : kept[p] = list[q] /\ list[q] # key
      BY DEF Kept
    <3>2. q \in 1 .. n
      BY <1>1
    <3> QED BY <3>1, <3>2
  <2>3. ASSUME NEW q \in 1 .. n, list[q] # key
        PROVE  \E p \in 1 .. Len(kept) : kept[p] = list[q]
    <3>1. q \in 1 .. (n - 1)
      BY <1>1, <1>2, <2>3
    <3> QED BY <2>3, <3>1 DEF Kept
  <2>4. Sound(list) => Sound(kept)
    BY DEF Kept
  <2>5. Len(kept) <= n
    BY <1>1
  <2> QED BY <1>1, <2>1, <2>2, <2>3, <2>4, <2>5 DEF Kept
<1>3. CASE list[n] # key
  <2> DEFINE more == Append(kept, list[n])
  <2>1. Keep(list, key, n, kept) = more
    BY <1>3 DEF Keep
  <2>2. /\ more \in Seq(K) /\ Len(more) = Len(kept) + 1 /\ more[Len(kept) + 1] = list[n]
        /\ \A p \in 1 .. Len(kept) : more[p] = kept[p]
    BY <1>1
  <2> HIDE DEF more
  <2>3. \A p \in 1 .. Len(more) : \E q \in 1 .. n : more[p] = list[q] /\ list[q] # key
    <3> SUFFICES ASSUME NEW p \in 1 .. Len(more)
                 PROVE  \E q \in 1 .. n : more[p] = list[q] /\ list[q] # key
      OBVIOUS
    <3>1. CASE p = Len(kept) + 1
      <4>1. n \in 1 .. n
        BY <1>1
      <4> QED BY <1>3, <2>2, <3>1, <4>1
    <3>2. CASE p # Len(kept) + 1
      <4>1. p \in 1 .. Len(kept)
        BY <1>1, <2>2, <3>2
      <4>2. PICK q \in 1 .. (n - 1) : kept[p] = list[q] /\ list[q] # key
        BY <4>1 DEF Kept
      <4>3. q \in 1 .. n
        BY <1>1
      <4> QED BY <2>2, <4>1, <4>2, <4>3
    <3> QED BY <3>1, <3>2
  <2>4. ASSUME NEW q \in 1 .. n, list[q] # key
        PROVE  \E p \in 1 .. Len(more) : more[p] = list[q]
    <3>1. CASE q = n
      <4>1. Len(kept) + 1 \in 1 .. Len(more)
        BY <1>1, <2>2
      <4> QED BY <2>2, <3>1, <4>1
    <3>2. CASE q # n
      <4>1. q \in 1 .. (n - 1)
        BY <1>1, <3>2
      <4>2. PICK p \in 1 .. Len(kept) : kept[p] = list[q]
        BY <2>4, <4>1 DEF Kept
      <4>3. p \in 1 .. Len(more)
        BY <1>1, <2>2
      <4> QED BY <2>2, <4>2, <4>3
    <3> QED BY <3>1, <3>2
  <2>5. ASSUME Sound(list) PROVE Sound(more)
    <3> SUFFICES ASSUME NEW i \in 1 .. Len(more), NEW j \in 1 .. Len(more),
                        more[i] = more[j]
                 PROVE  i = j
      BY <2>2 DEF Sound
    <3>1. \A p \in 1 .. Len(kept) : kept[p] # list[n]
      <4> SUFFICES ASSUME NEW p \in 1 .. Len(kept), kept[p] = list[n] PROVE FALSE
        OBVIOUS
      <4>1. PICK q \in 1 .. (n - 1) : kept[p] = list[q]
        BY DEF Kept
      <4>2. q \in DOMAIN list /\ n \in DOMAIN list /\ q # n
        BY <1>1
      <4> QED BY <2>5, <4>1, <4>2 DEF Sound
    <3>2. \A p \in 1 .. Len(more) : p \in 1 .. Len(kept) \/ p = Len(kept) + 1
      BY <1>1, <2>2
    <3>3. ASSUME i \in 1 .. Len(kept), j \in 1 .. Len(kept) PROVE i = j
      <4>1. Sound(kept) /\ kept[i] = kept[j]
        BY <2>2, <2>5, <3>3 DEF Kept
      <4> QED BY <1>1, <3>3, <4>1 DEF Sound
    <3> QED BY <2>2, <3>1, <3>2, <3>3
  <2>6. Len(more) <= n
    BY <1>1, <2>2
  <2> QED BY <2>1, <2>2, <2>3, <2>4, <2>5, <2>6 DEF Kept
<1> QED BY <1>2, <1>3

LEMMA WithoutKeeps ==
    ASSUME NEW K, NEW list \in Seq(K), NEW key
    PROVE  Kept(K, list, key, Len(list), Without(list, key))
<1>1. Len(list) \in Nat
  OBVIOUS
<1>2. PICK next : /\ Passes(list, key, Len(list), next)
                  /\ Without(list, key) = next[Len(list)]
  BY <1>1, WithoutPasses
<1>3. next[0] = << >> /\ \A i \in 1 .. Len(list) : next[i] = Keep(list, key, i, next[i - 1])
  <2>1. \A i \in 0 .. Len(list) :
            next[i] = IF i = 0 THEN << >> ELSE Keep(list, key, i, next[i - 1])
    BY <1>2, Zenon DEF Passes
  <2>2. 0 \in 0 .. Len(list) /\ \A i \in 1 .. Len(list) : i \in 0 .. Len(list) /\ i # 0
    BY <1>1
  <2> QED BY <2>1, <2>2
<1> DEFINE T == {n \in 0 .. Len(list) : ~ Kept(K, list, key, n, next[n])}
<1>4. T = {}
  <2> SUFFICES ASSUME T # {} PROVE FALSE
    OBVIOUS
  <2>1. PICK n \in T : \A k \in T : n <= k
    <3>1. T \subseteq Nat
      BY <1>1
    <3> HIDE DEF T
    <3> QED BY <3>1, Smallest
  <2>2. CASE n = 0
    <3>1. Kept(K, list, key, 0, << >>)
      BY DEF Kept, Sound
    <3> QED BY <1>3, <2>1, <2>2, <3>1
  <2>3. CASE n # 0
    <3>1. n \in 1 .. Len(list) /\ n - 1 \in 0 .. Len(list) /\ ~(n <= n - 1)
      BY <1>1, <2>1, <2>3
    <3>2. Kept(K, list, key, n - 1, next[n - 1])
      BY <2>1, <3>1
    <3>3. Kept(K, list, key, n, next[n])
      BY <1>3, <3>1, <3>2, KeepKeeps
    <3> QED BY <2>1, <3>3
  <2> QED BY <2>2, <2>3
<1>5. Len(list) \in 0 .. Len(list)
  BY <1>1
<1> QED BY <1>2, <1>4, <1>5

\* remove_oracle_from_allowlist drops every occurrence of the key, keeps every
\* other key, and adds none.
THEOREM RemoveExact ==
    ASSUME allowlist \in Seq(Keys), NEW k \in Keys, RemoveOracle(k)
    PROVE  \A other \in Keys : Listed(other)' <=> Listed(other) /\ other # k
<1> DEFINE new == Without(allowlist, k)
<1>1. Kept(Keys, allowlist, k, Len(allowlist), new) /\ allowlist' = new
  BY WithoutKeeps DEF RemoveOracle
<1> HIDE DEF new
<1>2. DOMAIN new = 1 .. Len(new) /\ DOMAIN allowlist = 1 .. Len(allowlist)
  BY <1>1 DEF Kept
<1> SUFFICES ASSUME NEW other \in Keys
             PROVE  Listed(other)' <=> Listed(other) /\ other # k
  OBVIOUS
<1>3. ASSUME Listed(other)' PROVE Listed(other) /\ other # k
  <2>1. PICK i \in 1 .. Len(new) : new[i] = other
    BY <1>1, <1>2, <1>3 DEF Listed
  <2>2. PICK q \in 1 .. Len(allowlist) : new[i] = allowlist[q] /\ allowlist[q] # k
    BY <1>1 DEF Kept
  <2> QED BY <1>2, <2>1, <2>2 DEF Listed
<1>4. ASSUME Listed(other), other # k PROVE Listed(other)'
  BY <1>1, <1>2, <1>4 DEF Listed, Kept
<1> QED BY <1>3, <1>4

ListTyped == allowlist \in Seq(Keys) /\ Len(allowlist) <= MaxKeys

LEMMA InitList ==
    ASSUME Init
    PROVE  ListTyped
<1>1. PICK n \in 0 .. MaxKeys : allowlist \in [1 .. n -> Keys]
  BY DEF Init
<1>2. n \in Nat /\ n <= MaxKeys
  BY EvidenceAssumption
<1> QED BY <1>1, <1>2 DEF ListTyped

\* The three calls that change the list, and what each makes of it.
LEMMA AddKeeps ==
    ASSUME ListTyped, NEW k \in Keys, AddOracle(k)
    PROVE  ListTyped' /\ (Sound(allowlist) => Sound(allowlist'))
<1>1. /\ allowlist' = Append(allowlist, k) /\ Len(allowlist) < MaxKeys /\ ~Listed(k)
      /\ allowlist \in Seq(Keys) /\ Len(allowlist) \in Nat /\ MaxKeys \in Nat
  BY EvidenceAssumption DEF AddOracle, HasRoom, ListTyped
<1>2. /\ allowlist' \in Seq(Keys) /\ Len(allowlist') = Len(allowlist) + 1
      /\ allowlist'[Len(allowlist) + 1] = k
      /\ \A i \in 1 .. Len(allowlist) : allowlist'[i] = allowlist[i]
  BY <1>1
<1>3. ListTyped'
  BY <1>1, <1>2 DEF ListTyped
<1>4. ASSUME Sound(allowlist) PROVE Sound(allowlist')
  <2> SUFFICES ASSUME NEW i \in 1 .. Len(allowlist'), NEW j \in 1 .. Len(allowlist'),
                      allowlist'[i] = allowlist'[j]
               PROVE  i = j
    BY <1>2 DEF Sound
  <2>1. \A p \in 1 .. Len(allowlist) : allowlist[p] # k
    BY <1>1 DEF Listed
  <2>2. \A p \in 1 .. Len(allowlist') : p \in 1 .. Len(allowlist) \/ p = Len(allowlist) + 1
    BY <1>1, <1>2
  <2>3. ASSUME i \in 1 .. Len(allowlist), j \in 1 .. Len(allowlist) PROVE i = j
    BY <1>1, <1>2, <1>4, <2>3 DEF Sound
  <2> QED BY <1>2, <2>1, <2>2, <2>3
<1> QED BY <1>3, <1>4

LEMMA RemoveKeeps ==
    ASSUME ListTyped, NEW k \in Keys, RemoveOracle(k)
    PROVE  ListTyped' /\ (Sound(allowlist) => Sound(allowlist'))
<1> DEFINE new == Without(allowlist, k)
<1>1. Kept(Keys, allowlist, k, Len(allowlist), new) /\ allowlist' = new
  BY WithoutKeeps DEF RemoveOracle, ListTyped
<1> HIDE DEF new
<1>2. new \in Seq(Keys) /\ Len(new) <= Len(allowlist) /\ (Sound(allowlist) => Sound(new))
  BY <1>1 DEF Kept
<1>3. Len(new) \in Nat /\ Len(allowlist) \in Nat /\ MaxKeys \in Nat
  BY <1>2, EvidenceAssumption DEF ListTyped
<1> QED BY <1>1, <1>2, <1>3 DEF ListTyped

LEMMA RotateKeeps ==
    ASSUME ListTyped, NEW old \in Keys, NEW new \in Keys, RotateOracle(old, new)
    PROVE  ListTyped' /\ (Sound(allowlist) => Sound(allowlist'))
<1>1. /\ allowlist' = [i \in DOMAIN allowlist |->
                          IF allowlist[i] = old THEN new ELSE allowlist[i]]
      /\ old # new => ~Listed(new)
      /\ allowlist \in Seq(Keys) /\ Len(allowlist) \in Nat
      /\ DOMAIN allowlist = 1 .. Len(allowlist)
  BY DEF RotateOracle, MayReplace, ListTyped
<1>2. allowlist' \in [1 .. Len(allowlist) -> Keys]
  BY <1>1
<1>3. allowlist' \in Seq(Keys) /\ Len(allowlist') = Len(allowlist)
  BY <1>1, <1>2
<1>4. ASSUME Sound(allowlist) PROVE Sound(allowlist')
  <2> SUFFICES ASSUME NEW i \in DOMAIN allowlist, NEW j \in DOMAIN allowlist,
                      allowlist'[i] = allowlist'[j]
               PROVE  i = j
    BY <1>1 DEF Sound
  <2>1. allowlist[i] = allowlist[j]
    BY <1>1 DEF Listed
  <2> QED BY <1>4, <2>1 DEF Sound
<1> QED BY <1>3, <1>4 DEF ListTyped

LEMMA ListKeeps ==
    ASSUME ListTyped, [Next]_vars
    PROVE  ListTyped' /\ (Sound(allowlist) => Sound(allowlist'))
<1>1. CASE Manage
  BY <1>1, AddKeeps, RemoveKeeps, RotateKeeps DEF Manage
<1>2. CASE UNCHANGED allowlist
  BY <1>2 DEF ListTyped
<1>3. Sign \/ Submit \/ (\E l \in Loans : LoanMovesOn(l)) => UNCHANGED allowlist
  BY DEF Sign, SignCollateral, SignDefault, SignPayout, Submit, AttachCollateral,
     SubmitCollateral, AttachEncryptScore, VerifyEncryptDefault, RecordCloakPayout, LoanMovesOn
<1> QED BY <1>1, <1>2, <1>3 DEF Next, vars

LEMMA ListInvariant == Spec => []ListTyped
  BY InitList, ListKeeps, PTL DEF Spec

\* The allowlist never outgrows MAX_ORACLE_ALLOWLIST_KEYS, and the records, the
\* nonces and the messages have their types.
THEOREM EvidenceTypes == Spec => []TypeOK
<1>1. Inv /\ ListTyped => TypeOK
  BY DEF Inv, ListTyped, TypeOK
<1> QED BY <1>1, EvidenceInvariant, ListInvariant, PTL

\* No call makes a key occur twice in a list without duplicates, however long
\* the list and in whatever order keys are added, removed and rotated.
THEOREM ListCorrect == Spec => ListStaysSound
<1>1. ListTyped /\ [Next]_vars => [Sound(allowlist) => Sound(allowlist')]_vars
  BY ListKeeps
<1> QED BY <1>1, ListInvariant, PTL DEF Spec, ListStaysSound
=============================================================================
