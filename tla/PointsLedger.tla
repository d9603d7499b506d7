------------------------------ MODULE PointsLedger ------------------------------
(***************************************************************************)
(* The merchants' points: recharge cards, activation codes, deductions and *)
(* billing events, as requests that overlap.  A method marked              *)
(* @Transactional reads from the snapshot of its first read (InnoDB's      *)
(* REPEATABLE READ), waits for locked rows, writes the rows as they are,   *)
(* and commits or rolls back as a whole; a controller without the mark     *)
(* commits call by call.  Every card, code and charge is worth one point.  *)
(***************************************************************************)
EXTENDS Integers, FiniteSets

CONSTANTS
  Merchant, Request,
  Card,      \* recharge cards of one batch
  Code,      \* activation codes for points
  Event,     \* billing events, by idempotent key
  Key,       \* idempotent keys of plain deductions: task ids
  Home,      \* the merchant of the codes, events and keys
  Repeats    \* bound: a code is not tried again once it has paid this often

ASSUME LedgerAssumption ==
  /\ Home \in Merchant /\ Repeats \in Nat \ {0}
  /\ Card \cap (Code \cup Event \cup Key) = {} /\ Code \cap (Event \cup Key) = {} /\ Event \cap Key = {}

Ref == Card \cup Code \cup Event \cup Key

VARIABLES
  account,    \* merchant_balance: balance and version
  entries,    \* point_transaction: how many rows a merchant has for a reference
  used,       \* cards and codes with status used
  recorded,   \* automation_billing_event
  req         \* the requests being served

ledgerVars == <<account, entries, used, recorded, req>>

\* A request: what it is about, how far it is, and the snapshot it reads from.
Served(kind, m, r, at) == [kind |-> kind, merchant |-> m, ref |-> r, at |-> at,
                           seen |-> account[m]]
Free == [at |-> "free"]

Account == [balance : Nat, version : Nat]
Serving == [kind : {"card", "code", "deduct", "event"}, merchant : Merchant, ref : Ref,
            at : {"write", "read", "add", "mark", "insert", "deduct"}, seen : Account]

LedgerTypeOK ==
  /\ account \in [Merchant -> Account] /\ entries \in [Merchant \X Ref -> Nat]
  /\ used \subseteq Card \cup Code /\ recorded \subseteq Event
  /\ req \in [Request -> {Free} \cup Serving]

LedgerInit ==
  /\ account = [m \in Merchant |-> [balance |-> 0, version |-> 0]]
  /\ entries = [x \in Merchant \X Ref |-> 0]
  /\ used = {} /\ recorded = {}
  /\ req = [q \in Request |-> Free]

Goes(q, at) == req' = [req EXCEPT ![q].at = at]
Finish(q) == req' = [req EXCEPT ![q] = Free]
DataUnchanged == UNCHANGED <<account, entries, used, recorded>>

\* The update with its version test, and the transaction row.
Fresh(q) == account[req[q].merchant].version = req[q].seen.version
Books(q, points) ==
  /\ account' = [account EXCEPT ![req[q].merchant] =
       [balance |-> req[q].seen.balance + points, version |-> req[q].seen.version + 1]]
  /\ entries' = [entries EXCEPT ![<<req[q].merchant, req[q].ref>>] = @ + 1]

-----------------------------------------------------------------------------
(* RechargeCardServiceImpl.useCard: one transaction. *)

UseCard(q, m, c) ==
  /\ req[q].at = "free" /\ c \notin used
  /\ req' = [req EXCEPT ![q] = Served("card", m, c, "write")]
  /\ DataUnchanged

\* The card's row is locked until the end of the transaction that has written it.
Locked(c) == \E q \in Request : req[q].at = "add" /\ req[q].ref = c
ReadsAfterwards(q) ==
  /\ req[q].at = "write" /\ ~Locked(req[q].ref)
  /\ req' = [req EXCEPT ![q].at = "add", ![q].seen = account[req[q].merchant]]
  /\ DataUnchanged

\* getByMerchantId then reads from the snapshot the card was read from.
MarkCard(q) ==
  /\ req[q].at = "write" /\ ~Locked(req[q].ref)
  /\ Goes(q, "add") /\ DataUnchanged

\* addPoints for a card.  The batch's counter of used cards is left out.
PayCard(q) ==
  /\ req[q].at = "add" /\ req[q].kind = "card"
  /\ IF Fresh(q)
     THEN Books(q, 1) /\ used' = used \cup {req[q].ref}
     ELSE UNCHANGED <<account, entries, used>>
  /\ Finish(q) /\ UNCHANGED recorded

-----------------------------------------------------------------------------
(* activate(): the controllers' own, no transaction around its calls. *)

Activate(q, k) ==
  /\ req[q].at = "free" /\ k \notin used
  /\ entries[<<Home, k>>] < Repeats
  /\ req' = [req EXCEPT ![q] = Served("code", Home, k, "read")]
  /\ DataUnchanged

\* addPoints, deductPoints: a transaction that begins with the balance.
ReadBalance(q) ==
  /\ req[q].at = "read"
  /\ LET m == req[q].merchant IN
     req' = [req EXCEPT ![q] =
       IF req[q].kind = "code" THEN Served("code", m, req[q].ref, "add")
       ELSE IF account[m].balance >= 1 THEN Served(req[q].kind, m, req[q].ref, "deduct")
       ELSE Free]
  /\ DataUnchanged

PayCode(q) ==
  /\ req[q].at = "add" /\ req[q].kind = "code"
  /\ IF Fresh(q) THEN Books(q, 1) /\ Goes(q, "mark")
     ELSE Finish(q) /\ UNCHANGED <<account, entries>>
  /\ UNCHANGED <<used, recorded>>

MarkCode(q) ==
  /\ req[q].at = "mark" /\ used' = used \cup {req[q].ref}
  /\ Finish(q) /\ UNCHANGED <<account, entries, recorded>>

-----------------------------------------------------------------------------
(* The master's billing endpoints. *)

\* billing/deduct, automation/usage: the key is stored and never asked for.
DeductFor(q, k) ==
  /\ req[q].at = "free"
  /\ req' = [req EXCEPT ![q] = Served("deduct", Home, k, "read")]
  /\ DataUnchanged

\* automation/billing-event: a recorded event is answered as a duplicate ...
BillEvent(q, e) ==
  /\ req[q].at = "free" /\ e \notin recorded
  /\ req' = [req EXCEPT ![q] = Served("event", Home, e, "insert")]
  /\ DataUnchanged

\* ... and so does the unique key, as an exception.
InsertEvent(q) ==
  /\ req[q].at = "insert"
  /\ IF req[q].ref \in recorded THEN Finish(q) /\ UNCHANGED recorded
     ELSE recorded' = recorded \cup {req[q].ref} /\ Goes(q, "read")
  /\ UNCHANGED <<account, entries, used>>

DeductPoints(q) ==
  /\ req[q].at = "deduct"
  /\ IF Fresh(q) THEN Books(q, -1) ELSE UNCHANGED <<account, entries>>
  /\ Finish(q) /\ UNCHANGED <<used, recorded>>

\* The platform stops: what is not committed is rolled back.
LedgerCrash ==
  /\ \E q \in Request : req[q].at # "free"
  /\ req' = [q \in Request |-> Free] /\ DataUnchanged

-----------------------------------------------------------------------------
LedgerNext ==
  \/ \E q \in Request :
       \/ \E m \in Merchant, c \in Card : UseCard(q, m, c)
       \/ \E k \in Code : Activate(q, k)
       \/ \E k \in Key : DeductFor(q, k)
       \/ \E e \in Event : BillEvent(q, e)
       \/ MarkCard(q) \/ PayCard(q) \/ ReadBalance(q) \/ PayCode(q) \/ MarkCode(q)
       \/ InsertEvent(q) \/ DeductPoints(q)
  \/ LedgerCrash

LedgerSpec == LedgerInit /\ [][LedgerNext]_ledgerVars

-----------------------------------------------------------------------------
(* Properties. *)

\* The rows a merchant has for references of a kind: the nth of each.
Transactions(m, kind) == UNION {{<<r, n>> : n \in 1..entries[<<m, r>>]} : r \in kind}

\* The balance is what the transactions add up to, whatever overlaps.
AddsUp ==
  \A m \in Merchant :
    account[m].balance = Cardinality(Transactions(m, Card \cup Code))
                       - Cardinality(Transactions(m, Event \cup Key))

\* A merchant is paid once for a card, though useCard neither locks the card when it
\* reads it nor tests its version: the balance of the old snapshot gives the loser away.
CardPaysAMerchantOnce == \A m \in Merchant, c \in Card : entries[<<m, c>>] <= 1

\* An event is charged at most once, however often it is reported.
EventChargedOnce == \A m \in Merchant, e \in Event : entries[<<m, e>>] <= 1

LedgerIsSound == AddsUp /\ CardPaysAMerchantOnce /\ EventChargedOnce

\* A card is worth its points once ("充值卡已被使用"). Does not hold: two merchants use one
\* card at once.
CardPaysOnce ==
  \A c \in Card, m, l \in Merchant :
    entries[<<m, c>>] + (IF l = m THEN 0 ELSE entries[<<l, c>>]) <= 1

\* So is a code ("激活码已被使用"). Does not hold: nothing ties the test, the points and the
\* mark of a code together.
CodePaysOnce == \A k \in Code : entries[<<Home, k>>] <= 1

\* A deduction repeated under its key is not made again ("带幂等键，防重复扣"). Does not hold:
\* keys are stored and looked up by nobody.
KeyChargesOnce == \A k \in Key : entries[<<Home, k>>] <= 1

\* A recorded event is charged, or is being charged ("避免“记账成功但未扣费”"). Does not hold: the
\* event stays when its deduction fails.
RecordedIsCharged ==
  \A e \in recorded : entries[<<Home, e>>] = 1 \/ \E q \in Request : req[q].at # "free" /\ req[q].ref = e
=============================================================================
