------------------------------- MODULE Wallet -------------------------------
(***************************************************************************)
(* wallet/ledger.py, wallet/service.py and the OpenPix payout adapter: one *)
(* wallet.  Every move is one UPDATE ... RETURNING of the balance plus a   *)
(* ledger line, in one transaction; the balance row's lock makes that      *)
(* transaction one step, taken when it commits.  What is NOT one step:     *)
(*                                                                         *)
(*  - debit_available reads the clock, and on PostgreSQL (READ COMMITTED)  *)
(*    takes the statement's snapshot, before it gets the row lock.  After  *)
(*    the wait the WHERE is evaluated again on the new balance, but the    *)
(*    sum of held credits is a sub-select on another table and keeps its   *)
(*    value of the snapshot.  SQLite runs one writer at a time and         *)
(*    evaluates the whole statement then;                                  *)
(*  - settle (claim_once and credit in one block) waits for the order's    *)
(*    row and may roll back;                                               *)
(*  - withdraw debits, commits, calls the provider and perhaps gives back, *)
(*    and may die between any two of these.                                *)
(*                                                                         *)
(* withdraw without an amount takes the available balance it read earlier: *)
(* a stale number like any other, so it is one of the amounts asked for.   *)
(***************************************************************************)
EXTENDS Integers, Sequences, FiniteSetsExt

CONSTANTS
    Orders,             \* rows guarded by claim_once
    Settlers,           \* concurrent calls of settle (webhook, manual)
    Withdrawers,        \* concurrent calls of withdraw
    Correlations,       \* correlation ids the calls use
    Price,              \* Price[o]: cents credited when o is settled
    Hold,               \* Hold[o]: hold of that credit
    Amounts,            \* amounts asked for
    Engines,            \* databases of the instance
    NoOne, NoRef,
    MaxEntries,         \* bound: ledger lines
    MaxTime             \* bound: clock

ASSUME WalletAssumption ==
    /\ Price \in [Orders -> Nat \ {0}] /\ Hold \in [Orders -> Nat]
    /\ Amounts \subseteq Nat \ {0}
    /\ Engines \subseteq {"sqlite", "postgres"}
    /\ MaxEntries \in Nat /\ MaxTime \in Nat /\ IsFiniteSet(Withdrawers)
    /\ NoOne \notin Settlers /\ Orders \cap Correlations = {}

VARIABLES
    engine,     \* the database, fixed
    now,        \* utcnow()
    balance,    \* the balance column
    entries,    \* the ledger lines, in commit order
    credited,   \* orders whose claim column is stamped and committed
    claimant,   \* claimant[o]: settler holding o's row, its claim uncommitted
    call,       \* call[w]: where the withdrawal is, and what it read
    paid        \* paid[c]: cents the provider sent for c (external)

walletVars == <<balance, entries>>
orderVars  == <<credited, claimant>>
vars       == <<engine, now, walletVars, orderVars, call, paid>>

Kinds == {"SALE", "WITHDRAW", "WITHDRAW_REFUND", "REVERSAL"}
Idle  == [at |-> "idle", amount |-> 0, corr |-> NoRef, asOf |-> 0, held |-> 0]

(* Total amount of the ledger lines of a set of positions.                 *)
SumOf(lines) == MapThenSumSet(LAMBDA i : entries[i].amount, lines)

(* _held_cents_query: the credits not yet released at t.                   *)
HeldAt(t) == SumOf({i \in DOMAIN entries :
                        entries[i].amount > 0 /\ entries[i].available > t})

(* _apply and _write_entry: the new balance is the database's own          *)
(* arithmetic, and the line carries it.                                    *)
ApplyRead(delta, kind, available, ref) ==   \* mutant
    /\ Len(entries) < MaxEntries
    /\ balance' = balance + delta
    /\ entries' = Append(entries, [kind |-> kind, amount |-> delta,
                                   after |-> balance, available |-> available,
                                   ref |-> ref])
Apply(delta, kind, available, ref) ==
    /\ Len(entries) < MaxEntries
    /\ balance' = balance + delta
    /\ entries' = Append(entries, [kind |-> kind, amount |-> delta,
                                   after |-> balance + delta,
                                   available |-> available, ref |-> ref])

Init ==
    /\ engine \in Engines
    /\ now = 0 /\ balance = 0 /\ entries = <<>>
    /\ credited = {} /\ claimant = [o \in Orders |-> NoOne]
    /\ call = [w \in Withdrawers |-> Idle]
    /\ paid = [c \in Correlations |-> 0]

Tick == /\ now < MaxTime /\ now' = now + 1
        /\ UNCHANGED <<engine, walletVars, orderVars, call, paid>>

-----------------------------------------------------------------------------
(* Settling an order                                                       *)

(* claim_once: UPDATE ... WHERE the column IS NULL.  A second caller waits *)
(* for the row; when the first commits it matches nothing and returns      *)
(* False, when the first rolls back it claims.                             *)
ClaimAgain(s, o) ==   \* mutant
    /\ claimant[o] = NoOne
    /\ claimant' = [claimant EXCEPT ![o] = s]
    /\ UNCHANGED <<engine, now, walletVars, credited, call, paid>>
Claim(s, o) ==
    /\ claimant[o] = NoOne /\ o \notin credited
    /\ claimant' = [claimant EXCEPT ![o] = s]
    /\ UNCHANGED <<engine, now, walletVars, credited, call, paid>>

(* credit, and the commit of the block it joined.                          *)
Settle(s, o) ==
    /\ claimant[o] = s
    /\ Apply(Price[o], "SALE", now + Hold[o], o)
    /\ credited' = credited \cup {o}
    /\ claimant' = [claimant EXCEPT ![o] = NoOne]
    /\ UNCHANGED <<engine, now, call, paid>>

(* The block raises or its process dies: both writes are rolled back.      *)
RollBack(s, o) ==
    /\ claimant[o] = s
    /\ claimant' = [claimant EXCEPT ![o] = NoOne]
    /\ UNCHANGED <<engine, now, walletVars, credited, call, paid>>

-----------------------------------------------------------------------------
(* reverse: floor 0, held money counts; None when it is not covered.       *)
ReverseUncovered(a) ==   \* mutant
    /\ Apply(-a, "REVERSAL", now, NoRef)
    /\ UNCHANGED <<engine, now, orderVars, call, paid>>
Reverse(a) ==
    /\ balance - a >= 0
    /\ Apply(-a, "REVERSAL", now, NoRef)
    /\ UNCHANGED <<engine, now, orderVars, call, paid>>

-----------------------------------------------------------------------------
(* Withdrawing                                                             *)

(* withdraw reaches debit_available, which reads the clock and sends its   *)
(* UPDATE.  On PostgreSQL a balance too small in the snapshot matches      *)
(* nothing at once, InsufficientBalanceException.                          *)
Withdraw(w, a, c) ==
    /\ call[w].at = "idle"
    /\ engine = "postgres" => balance - a >= HeldAt(now)
    /\ call' = [call EXCEPT ![w] = [at |-> "debit", amount |-> a, corr |-> c,
                                    asOf |-> now, held |-> HeldAt(now)]]
    /\ UNCHANGED <<engine, now, walletVars, orderVars, paid>>

(* The floor the UPDATE compares with when it has the row.                 *)
FloorZero(w) == 0   \* mutant
Floor(w) == IF engine = "sqlite" THEN HeldAt(call[w].asOf) ELSE call[w].held

Debit(w) ==
    /\ call[w].at = "debit"
    /\ balance - call[w].amount >= Floor(w)
    /\ Apply(-call[w].amount, "WITHDRAW", call[w].asOf, call[w].corr)
    /\ call' = [call EXCEPT ![w].at = "pay"]
    /\ UNCHANGED <<engine, now, orderVars, paid>>

InsufficientBalance(w) ==
    /\ call[w].at = "debit"
    /\ balance - call[w].amount < Floor(w)
    /\ call' = [call EXCEPT ![w] = Idle]
    /\ UNCHANGED <<engine, now, walletVars, orderVars, paid>>

(* The provider sends the Pix, once per correlation id, and says so, or    *)
(* its answer is lost (timeout, 5xx): PayoutUncertainException.  The debit *)
(* stands in both cases.  The transport never sends a payout twice, the    *)
(* adapter refuses one that would; a second POST would be answered 4xx.    *)
TransferRetried(w) ==   \* mutant
    /\ call[w].at = "pay" /\ paid[call[w].corr] = 0
    /\ paid' = [paid EXCEPT ![call[w].corr] = call[w].amount]
    /\ \/ call' = [call EXCEPT ![w] = Idle]
       \/ UNCHANGED call
    /\ UNCHANGED <<engine, now, walletVars, orderVars>>
Transfer(w) ==
    /\ call[w].at = "pay" /\ paid[call[w].corr] = 0
    /\ paid' = [paid EXCEPT ![call[w].corr] = call[w].amount]
    /\ call' = [call EXCEPT ![w] = Idle]
    /\ UNCHANGED <<engine, now, walletVars, orderVars>>

(* A definitive refusal: 4xx (a correlation id already used is one),       *)
(* DENIED or FAILED.                                                       *)
Refused(w) ==
    /\ call[w].at = "pay"
    /\ call' = [call EXCEPT ![w].at = "refund"]
    /\ UNCHANGED <<engine, now, walletVars, orderVars, paid>>

(* PayoutRejectedException: the debit is credited back, without a hold.    *)
GiveBack(w) ==
    /\ call[w].at = "refund"
    /\ Apply(call[w].amount, "WITHDRAW_REFUND", now, call[w].corr)
    /\ call' = [call EXCEPT ![w] = Idle]
    /\ UNCHANGED <<engine, now, orderVars, paid>>

(* No answer and nothing sent, the caller cancelled, the refund failed or  *)
(* the process died: what is committed stays.                              *)
GiveUp(w) ==
    /\ call[w].at # "idle"
    /\ call' = [call EXCEPT ![w] = Idle]
    /\ UNCHANGED <<engine, now, walletVars, orderVars, paid>>

Next ==
    \/ Tick
    \/ \E s \in Settlers, o \in Orders : Claim(s, o) \/ Settle(s, o) \/ RollBack(s, o)
    \/ \E a \in Amounts : Reverse(a)
    \/ \E w \in Withdrawers :
          \/ \E a \in Amounts, c \in Correlations : Withdraw(w, a, c)
          \/ Debit(w) \/ InsufficientBalance(w)
          \/ Transfer(w) \/ Refused(w) \/ GiveBack(w) \/ GiveUp(w)

Spec == Init /\ [][Next]_vars

-----------------------------------------------------------------------------
(* Properties                                                              *)

(* Every variable stays in its domain; in particular no interleaving of    *)
(* moves takes the balance below zero, on either database.                 *)
TypeOK ==
    /\ engine \in Engines /\ now \in 0..MaxTime /\ balance \in Nat
    /\ entries \in Seq([kind : Kinds, amount : Int, after : Nat, available : Nat,
                        ref : Orders \cup Correlations \cup {NoRef}])
    /\ credited \subseteq Orders /\ claimant \in [Orders -> Settlers \cup {NoOne}]
    /\ call \in [Withdrawers ->
           [at : {"idle", "debit", "pay", "refund"}, amount : Nat,
            corr : Correlations \cup {NoRef}, asOf : Nat, held : Nat]]
    /\ paid \in [Correlations -> Nat]

Previous(i) == IF i = 1 THEN 0 ELSE entries[i - 1].after

(* The statement adds up: each line's balance_after_cents is the previous  *)
(* one's plus its amount, and the last is the balance, so no concurrent    *)
(* move was lost (ledger.py:362, one UPDATE per move).                     *)
StatementAddsUp ==
    /\ \A i \in DOMAIN entries : entries[i].after = Previous(i) + entries[i].amount
    /\ balance = Previous(Len(entries) + 1)

(* An order is credited once, exactly when its claim column is stamped,    *)
(* however many callers settle it and wherever one fails (claim_once).     *)
SettledOnce ==
    \A o \in Orders :
        LET sales == {i \in DOMAIN entries : /\ entries[i].kind = "SALE"
                                             /\ entries[i].ref = o}
        IN  /\ o \in credited <=> sales # {}
            /\ \A i, j \in sales : i = j

(* The balance, reversals apart, covers the credits on hold.               *)
HoldKept ==
    balance - SumOf({i \in DOMAIN entries : entries[i].kind = "REVERSAL"}) >= HeldAt(now)

(* With one writer at a time no debit reaches money on hold: only a        *)
(* reversal, meant to, takes the balance below the held credits            *)
(* (ledger.py:178).                                                        *)
HoldKeptBySerialWriters == engine = "sqlite" => HoldKept

(* What debit_available's docstring says on every database: concurrent     *)
(* withdrawals never drain held money (ledger.py:178).                     *)
HoldNeverDrained == HoldKept

(* Whatever was sent for a correlation id is still debited for it: a       *)
(* payout is never given back nor sent before its debit stands             *)
(* (service.py:290, "could pay it twice").                                 *)
PaidIsDebited ==
    \A c \in Correlations :
        paid[c] <= -SumOf({i \in DOMAIN entries : entries[i].ref = c})
=============================================================================
