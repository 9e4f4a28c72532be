----------------------------- MODULE TestRBTree -----------------------------
(***************************************************************************)
(* The tests of rbtree.cc, but for two in which a transaction that only    *)
(* reads is expected to abort at commit (lines 59 and 210): try_commit()   *)
(* commits it without a check.                                             *)
(***************************************************************************)
EXTENDS TestScript

Sets(k, v) == Does("put", <<k, v>>, Nothing)
Yields(k, v) == Does("get", <<k>>, v)
Counts(k, n) == Does("count", <<k>>, n)
Erases(k, n) == Does("erase", <<k>>, n)
Size(n) == Does("size", <<>>, n)

NoTree == [f |-> R!EmptyTree]

(* reset_tree: a transaction that puts 1, 2, 3 in an empty tree.           *)
TreeTest(steps) ==
  Test(NoTree, Guard(<<Sets(1, 1), Sets(2, 2), Sets(3, 3)>>) \o steps)

(* The keys 0 to NumKeys - 1, which are 100 in the test.                   *)
NumKeys == 100

single_threaded ==
  LET Inserts(i) == <<Sets(i, i), Yields(i, i), Sets(i, NumKeys - i), Yields(i, NumKeys - i)>>
      CountsAll(i) == <<Counts(i, 1)>>
      Deletes(i) == <<Erases(i, 1), Counts(i, 0)>>
      Again(i) == <<Erases(i, 0), Counts(i, 0)>>
      InsertsDeleted(i) == <<Sets(i, 1), Counts(i, 1)>>
  IN Test(NoTree,
       T(1, <<Size(0)>> \o Each(0, NumKeys, Inserts) \o <<Size(NumKeys)>>
            \o Each(0, NumKeys, CountsAll) \o <<Size(NumKeys)>>
            \o Each(0, NumKeys, Deletes) \o <<Size(0)>>
            \o Each(0, NumKeys, Again) \o <<Size(0)>>
            \o Each(0, NumKeys, InsertsDeleted) \o <<Size(NumKeys)>>
            \o <<Yields(NumKeys + 2, 0), Counts(NumKeys + 2, 1), Size(NumKeys + 1)>>)
       \o Commits(1))

update_conflict_tests ==
  <<Test(NoTree, T(1, <<Sets(55, 56), Sets(57, 58)>>) \o T(2, <<Yields(58, 0)>>)
                 \o Commits(2) \o Commits(1)),
    Test(NoTree, T(1, <<Sets(10, 10)>>) \o T(2, <<Yields(58, 0)>>) \o Commits(2) \o Commits(1))>>

Gone(t) == T(t, <<Counts(1, 0)>>) \o Commits(t)

erase_conflict_tests ==
  LET CountErase == <<Counts(1, 1), Erases(1, 1)>> IN
  <<TreeTest(T(1, CountErase) \o T(2, <<Counts(1, 1)>>) \o Commits(2) \o Commits(1) \o Gone(3)),
    TreeTest(T(1, CountErase \o <<Counts(1, 0)>>) \o T(2, <<Erases(1, 1)>>)
             \o Commits(2) \o Fails(1) \o Gone(3)),
    TreeTest(T(1, CountErase \o <<Counts(1, 0)>>) \o T(2, <<Erases(1, 1)>>)
             \o Commits(1) \o Fails(2) \o Gone(3))>>

insert_then_delete_tests ==
  LET Same(i) == Yields(i, i) IN
  <<TreeTest(
      T(1, <<Sets(5, 5), Sets(4, 4), Counts(4, 1), Erases(4, 1), Counts(4, 0), Erases(4, 0),
             Sets(4, 44), Yields(4, 44), Counts(4, 1)>>)
      \o Commits(1)
      \o T(2, <<Counts(4, 1), Yields(4, 44), Yields(1, 1), Yields(2, 2), Yields(3, 3), Yields(5, 5)>>) \o Commits(2)),
    TreeTest(
      T(1, <<Counts(4, 0), Sets(5, 5), Counts(4, 0), Sets(4, 4), Counts(4, 1)>>) \o Commits(1)
      \o T(2, For(0, 6, Same)) \o Commits(2)),
    TreeTest(
      T(1, <<Sets(3, 13)>>) \o T(2, <<Erases(3, 1)>>) \o Commits(2)
      \o T(3, <<Counts(3, 0), Sets(3, 33)>>) \o Commits(3) \o Fails(1)
      \o T(Main, <<Yields(3, 33)>>) \o Commits(Main))>>

mem_tests ==
  <<TreeTest(T(1, <<Erases(1, 1), Erases(2, 1), Erases(3, 1)>>) \o Commits(1))>>

-----------------------------------------------------------------------------
(* Not in rbtree.cc: every sequence of four inserts and removals, outside  *)
(* transactions, on a tree that begins with the keys 1 to 6.  A key that   *)
(* is there is removed, one that is not is inserted.                       *)
MaxKey == 8
NumToggles == 4

SixKeys == R!NewRBTree([k \in 1 .. 6 |-> <<k, k>>])

Toggles(ks) ==
  LET There(j) == (ks[j] <= 6) # (Cardinality({i \in 1 .. j - 1 : ks[i] = ks[j]}) % 2 = 1)
      Toggle(j) == Peek("find", <<ks[j]>>, IF There(j) THEN ks[j] ELSE 0)
                   \o Poke(<<ks[j]>>, IF There(j) THEN Nothing ELSE ks[j])
  IN Test([f |-> SixKeys], Seqs!FlattenSeq([j \in 1 .. NumToggles |-> Toggle(j)]))

toggle_tests ==
  [i \in 1 .. MaxKey ^ NumToggles |->
     Toggles([j \in 1 .. NumToggles |-> (((i - 1) \div MaxKey ^ (j - 1)) % MaxKey) + 1])]

RBTreeTests ==
  <<single_threaded>> \o erase_conflict_tests \o update_conflict_tests
  \o insert_then_delete_tests \o mem_tests \o toggle_tests
=============================================================================
