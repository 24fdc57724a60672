----------------------------- MODULE PrismEvidence -----------------------------
(***************************************************************************)
(* Whose word prism-core takes: the allowlist of oracle keys, the messages *)
(* the oracle routes sign, and the collateral records, credit scores and   *)
(* Cloak payouts they move.  A message once signed may be submitted late,  *)
(* twice, out of order or for the wrong loan.  The keys a route holds come *)
(* from its environment and change with a redeployment, and it signs for   *)
(* whoever asks: any key may sign anything at any time.  What a liquidation*)
(* or a proven default does to the vault is in PrismCore; here it may only *)
(* keep the call from succeeding.                                          *)
(***************************************************************************)
EXTENDS Naturals, Sequences, FiniteSets

CONSTANTS
    Keys,        \* oracle public keys
    Loans,
    Commitments, \* score commitments
    Vaults,
    Batches,     \* batch ids of Cloak payouts
    MaxKeys,     \* MAX_ORACLE_ALLOWLIST_KEYS
    MaxNonce,    \* bound: nonces that are signed
    MaxMessages, \* bound: messages signed
    MaxPayouts   \* bound: payouts recorded of a vault

ASSUME EvidenceAssumption ==
    /\ MaxKeys \in Nat /\ MaxNonce \in Nat
    /\ MaxMessages \in Nat /\ MaxPayouts \in Nat

VARIABLES
    allowlist,   \* config.oracle_allowlist
    takes,       \* the loans Originated or Active: evidence may be attached
    collateral,  \* the CollateralRecord of each loan
    health,      \* the EncryptLoanHealth of each loan
    payouts,     \* the CloakPayoutRecords of each vault
    col_atts,    \* collateral attestations signed so far
    enc_atts,    \* default attestations signed so far
    clk_atts     \* payout attestations signed so far

records  == <<collateral, health, payouts>>
messages == <<col_atts, enc_atts, clk_atts>>
vars     == <<allowlist, takes, records, messages>>

\* Marks the key and the commitment of a record that does not exist.
Nothing == "nothing"

NoRecord == [status |-> "None", key |-> Nothing, nonce |-> 0]
NoScore  == [status |-> "None", key |-> Nothing, commitment |-> Nothing]

\* Statuses that only an oracle's word gives a record.
Attested == {"Attached", "Released", "Liquidated"}

Listed(k) == \E i \in DOMAIN allowlist : allowlist[i] = k

\* init_config takes its first list unseen; deployments give at most one key.
Init ==
    /\ allowlist \in UNION {[1 .. n -> Keys] : n \in 0 .. MaxKeys}
    /\ takes = Loans
    /\ collateral = [l \in Loans |-> NoRecord]
    /\ health = [l \in Loans |-> NoScore]
    /\ payouts = [v \in Vaults |-> << >>]
    /\ col_atts = {} /\ enc_atts = {} /\ clk_atts = {}

-----------------------------------------------------------------------------
(* The allowlist *)

\* Mutant: room is looked for after the key was added.
HasRoomForOne == Len(allowlist) <= MaxKeys

HasRoom == Len(allowlist) < MaxKeys

AddOracle(k) ==
    /\ ~Listed(k)
    /\ HasRoom
    /\ allowlist' = Append(allowlist, k)
    /\ UNCHANGED <<takes, records, messages>>

\* next[i] is the new list after the first i keys were looked at.
Without(list, key) ==
    LET next[i \in 0 .. Len(list)] ==
            IF i = 0 THEN << >>
            ELSE IF list[i] # key THEN Append(next[i - 1], list[i])
            ELSE next[i - 1]
    IN  next[Len(list)]

RemoveOracle(k) ==
    /\ Listed(k)
    /\ allowlist' = Without(allowlist, k)
    /\ UNCHANGED <<takes, records, messages>>

\* Mutant: the new key may be listed already.
MayReplaceAny(old, new) == Listed(old)

MayReplace(old, new) == Listed(old) /\ (old # new => ~Listed(new))

RotateOracle(old, new) ==
    /\ MayReplace(old, new)
    /\ allowlist' = [i \in DOMAIN allowlist |->
                        IF allowlist[i] = old THEN new ELSE allowlist[i]]
    /\ UNCHANGED <<takes, records, messages>>

-----------------------------------------------------------------------------
(* The oracle routes *)

CollateralMessages ==
    [loan : Loans, nonce : 0 .. MaxNonce, status : Attested, by : Keys]

DefaultMessages ==
    [loan : Loans, commitment : Commitments, proven : BOOLEAN, by : Keys]

PayoutMessages ==
    [vault : Vaults, batch : Batches, confirmed : BOOLEAN, by : Keys]

SignCollateral(m) ==
    /\ col_atts' = col_atts \cup {m}
    /\ UNCHANGED <<allowlist, takes, records, enc_atts, clk_atts>>

SignDefault(m) ==
    /\ enc_atts' = enc_atts \cup {m}
    /\ UNCHANGED <<allowlist, takes, records, col_atts, clk_atts>>

SignPayout(m) ==
    /\ clk_atts' = clk_atts \cup {m}
    /\ UNCHANGED <<allowlist, takes, records, col_atts, enc_atts>>

-----------------------------------------------------------------------------
(* Collateral *)

\* A record whose oracle has not spoken yet may be attached again.
Attachable(rec) == rec.status \in {"None", "Pending"}

AttachCollateral(l, k) ==
    /\ Listed(k)
    /\ l \in takes
    /\ Attachable(collateral[l])
    /\ collateral' = [collateral EXCEPT
                         ![l] = [status |-> "Pending", key |-> k, nonce |-> 0]]
    /\ UNCHANGED <<allowlist, takes, health, payouts, messages>>

\* Mutant: the loan a message names is not compared.
BindsAnyLoan(l, rec, m) == m.nonce > rec.nonce /\ m.by = rec.key

\* Mutant: a nonce may come again.
BindsOldNonce(l, rec, m) == m.loan = l /\ m.by = rec.key

\* parse_and_verify_collateral_message; the status byte is left to the caller.
Binds(l, rec, m) == m.loan = l /\ m.nonce > rec.nonce /\ m.by = rec.key

\* The status a record must have before a message gives it a new one.
Before(status) == IF status = "Attached" THEN "Pending" ELSE "Attached"

\* verify_collateral, release_collateral and liquidate_collateral.
SubmitCollateral(l, m) ==
    /\ collateral[l].status = Before(m.status)
    /\ Binds(l, collateral[l], m)
    /\ collateral' = [collateral EXCEPT
                         ![l] = [@ EXCEPT !.status = m.status, !.nonce = m.nonce]]
    /\ UNCHANGED <<allowlist, takes, health, payouts, messages>>

-----------------------------------------------------------------------------
(* Credit scores and Cloak payouts *)

\* A score may be replaced, its oracle and commitment too, until it is proven.
AttachEncryptScore(l, c, k) ==
    /\ Listed(k)
    /\ l \in takes
    /\ health[l].status # "DefaultProven"
    /\ health' = [health EXCEPT
                     ![l] = [status |-> "Pending", key |-> k, commitment |-> c]]
    /\ UNCHANGED <<allowlist, takes, collateral, payouts, messages>>

VerifyEncryptDefault(l, m) ==
    /\ health[l].status = "Pending"
    /\ m.loan = l /\ m.commitment = health[l].commitment /\ m.proven
    /\ m.by = health[l].key
    /\ health' = [health EXCEPT ![l] = [@ EXCEPT !.status = "DefaultProven"]]
    /\ UNCHANGED <<allowlist, takes, collateral, payouts, messages>>

\* Nothing keeps the same batch from being recorded again.
RecordCloakPayout(v, m) ==
    /\ Listed(m.by)
    /\ m.vault = v /\ m.confirmed
    /\ payouts' = [payouts EXCEPT ![v] = Append(@, [key |-> m.by, batch |-> m.batch])]
    /\ UNCHANGED <<allowlist, takes, collateral, health, messages>>

\* repay_loan and the like: a loan leaves Originated and Active for good.
LoanMovesOn(l) ==
    /\ l \in takes
    /\ takes' = takes \ {l}
    /\ UNCHANGED <<allowlist, records, messages>>

-----------------------------------------------------------------------------
Signed == Cardinality(col_atts) + Cardinality(enc_atts) + Cardinality(clk_atts)

Sign ==
    \/ \E m \in CollateralMessages : SignCollateral(m)
    \/ \E m \in DefaultMessages : SignDefault(m)
    \/ \E m \in PayoutMessages : SignPayout(m)

Manage ==
    \/ \E k \in Keys : AddOracle(k) \/ RemoveOracle(k)
    \/ \E old, new \in Keys : RotateOracle(old, new)

Submit ==
    \/ \E l \in Loans, k \in Keys : AttachCollateral(l, k)
    \/ \E l \in Loans, m \in col_atts : SubmitCollateral(l, m)
    \/ \E l \in Loans, c \in Commitments, k \in Keys : AttachEncryptScore(l, c, k)
    \/ \E l \in Loans, m \in enc_atts : VerifyEncryptDefault(l, m)
    \/ \E v \in Vaults, m \in clk_atts :
          Len(payouts[v]) < MaxPayouts /\ RecordCloakPayout(v, m)

Next ==
    \/ Signed < MaxMessages /\ Sign
    \/ Manage \/ Submit
    \/ \E l \in Loans : LoanMovesOn(l)

Spec == Init /\ [][Next]_vars

-----------------------------------------------------------------------------
CollateralRecords ==
    [status : {"None", "Pending"} \cup Attested,
     key : Keys \cup {Nothing}, nonce : 0 .. MaxNonce]

HealthRecords ==
    [status : {"None", "Pending", "DefaultProven"},
     key : Keys \cup {Nothing}, commitment : Commitments \cup {Nothing}]

PayoutRecords == [key : Keys, batch : Batches]

RecordsTyped ==
    /\ takes \subseteq Loans
    /\ collateral \in [Loans -> CollateralRecords]
    /\ health \in [Loans -> HealthRecords]
    /\ payouts \in [Vaults -> Seq(PayoutRecords)]
    /\ col_atts \subseteq CollateralMessages
    /\ enc_atts \subseteq DefaultMessages
    /\ clk_atts \subseteq PayoutMessages

TypeOK ==
    /\ allowlist \in Seq(Keys) /\ Len(allowlist) <= MaxKeys
    /\ RecordsTyped

CollateralEvidenced ==
    \A l \in Loans : collateral[l].status \in Attested =>
        [loan |-> l, nonce |-> collateral[l].nonce,
         status |-> collateral[l].status, by |-> collateral[l].key] \in col_atts

DefaultEvidenced ==
    \A l \in Loans : health[l].status = "DefaultProven" =>
        [loan |-> l, commitment |-> health[l].commitment,
         proven |-> TRUE, by |-> health[l].key] \in enc_atts

PayoutEvidenced ==
    \A v \in Vaults : \A i \in DOMAIN payouts[v] :
        [vault |-> v, batch |-> payouts[v][i].batch,
         confirmed |-> TRUE, by |-> payouts[v][i].key] \in clk_atts

\* Every status that is to rest on an oracle's word does: the key in the
\* record signed it, for this loan and this status, whatever was replaced,
\* rotated, replayed or submitted for another loan in between.
StatusIsEvidenced == CollateralEvidenced /\ DefaultEvidenced /\ PayoutEvidenced

NonceAdvances ==
    \A l \in Loans :
        collateral[l].status \in Attested /\ collateral'[l] # collateral[l] =>
            /\ collateral'[l].nonce > collateral[l].nonce
            /\ collateral'[l].key = collateral[l].key

\* docs/contract-reference.md:101: what moves a verified record was issued
\* after what moved it before, by the same oracle.
NonceGrows == [][NonceAdvances]_vars

\* A list without duplicates.
Sound(list) == \A i, j \in DOMAIN list : list[i] = list[j] => i = j

\* No change of the list makes a key occur twice: a removal or a rotation
\* could otherwise leave a key behind.
ListStaysSound == [][Sound(allowlist) => Sound(allowlist')]_vars
=============================================================================
