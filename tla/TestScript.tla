----------------------------- MODULE TestScript -----------------------------
(***************************************************************************)
(* How the repository's tests are written down.  A test is the objects it  *)
(* makes and a sequence of steps: the start of a transaction, a call with  *)
(* the result the test asserts (AnyValue if it asserts nothing), try_commit()   *)
(* with its result, a look at an object outside any transaction.           *)
(***************************************************************************)
EXTENDS TObjects

Seqs == INSTANCE SequencesExt

Main == 4     \* the thread of a TransactionGuard; TestTransactions are 1 to 3

Test(objects, steps) == [objects |-> objects, steps |-> steps]

(* Calls.  Most tests have one object, f; Of(o, ...) is a call of another. *)
Does(op, a, r) == [do |-> "call", t |-> 0, o |-> "f", op |-> op, a |-> a, r |-> r]

Of(o, c) == [c EXCEPT !.o = o]

Aborts(c) == [c EXCEPT !.r = Abort]

Throws(c) == [c EXCEPT !.r = OutOfRange]

Peek(op, a, r) == <<[do |-> "peek", o |-> "f", op |-> op, a |-> a, r |-> r]>>

Poke(a, v) == <<[do |-> "poke", o |-> "f", a |-> a, v |-> v]>>

(* Calls in thread t, in its running transaction (use()) or a new one.     *)
Use(t, calls) == [i \in DOMAIN calls |-> [calls[i] EXCEPT !.t = t]]

Starts(t) == <<[do |-> "start", t |-> t]>>

T(t, calls) == Starts(t) \o Use(t, calls)

Commit(t, ok) == <<[do |-> "commit", t |-> t, r |-> ok]>>

Commits(t) == Commit(t, TRUE)

Fails(t) == Commit(t, FALSE)

(* TransactionGuard: an abort would end the test program.                  *)
Guard(calls) == T(Main, calls) \o Commits(Main)

(* TRANSACTION ... RETRY(false): a commit that fails goes unnoticed.  Where *)
(* the test goes on to use the effects this is written as a Guard.         *)
Once(calls) == T(Main, calls) \o Commit(Main, AnyValue)

(* One call for each i from a to b - 1.                                    *)
For(a, b, Call1(_)) == [j \in 1 .. b - a |-> Call1(a + j - 1)]

(* The calls Body(i) for each i from a to b - 1, b >= a.                   *)
Each(a, b, Body(_)) == Seqs!FlattenSeq([j \in 1 .. b - a |-> Body(a + j - 1)])

-----------------------------------------------------------------------------
Get(i, v) == Does("get", <<i>>, v)
Put1(i, v) == Does("put", <<i, v>>, Nothing)

(* A box written only so that the transaction is not read-only.            *)
NotReadOnly == Of("box", Put1(0, 9))

=============================================================================
