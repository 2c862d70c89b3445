------------------------------ MODULE Queries ------------------------------
(***************************************************************************)
(* The queries of gql that go over a list: its pages, read one by one by a *)
(* client that gives each page's nextAfter to the next query, and the      *)
(* histograms of its times.  The ledger grows between the queries; a query *)
(* itself runs in the thread that adds blocks, so the list does not change *)
(* under it.  Positions count from 0, as in the code.                      *)
(***************************************************************************)
EXTENDS Integers, Sequences, SequencesExt, FiniteSetsExt

CONSTANTS
  Requests,       \* the arguments a client may give, but for after
  Times,          \* the times of items
  None,           \* an argument that is not given
  MaxItems,       \* bound: number of items
  MaxSteps        \* bound: length and number of a histogram's buckets

Lists == {"blocks", "transactions", "accounts"}

ASSUME ConstantsAssumption ==
  /\ Times \subseteq Nat /\ None \notin Int
  /\ MaxItems \in Nat /\ MaxSteps \in Nat
  /\ Requests \subseteq [list : Lists, count : Int, reverse : BOOLEAN,
                         time_after : Times \cup {None},
                         time_before : Times \cup {None}]
  /\ \A r \in Requests :
       /\ r.reverse => r.list = "blocks"
       /\ r.list = "accounts" => r.time_after = None /\ r.time_before = None

VARIABLES
  times,    \* the time of each item, in the order of the ledger
  request,  \* what the client asks for
  after,    \* the nextAfter of the last page, None before the first
  seen,     \* the items of the pages so far
  total     \* the number of items at the first page

vars == <<times, request, after, seen, total>>

Size == Len(times)
TimeOf(i) == times[i + 1]

Init ==
  /\ times = <<>>
  /\ request \in Requests
  /\ after = None
  /\ seen = <<>>
  /\ total = 0
-----------------------------------------------------------------------------
(* std::lower_bound over the positions from lo to hi: halving, whatever    *)
(* the order of the times.                                                 *)
LowerBound(lo, hi, t) ==
  LET search[range \in Nat \X Nat] ==
        LET first == range[1]
            len   == range[2]
            half  == len \div 2
        IN IF len = 0 THEN first
           ELSE IF TimeOf(first + half) < t
                THEN search[<<first + half + 1, len - half - 1>>]
                ELSE search[<<first, half>>]
  IN search[<<lo, IF hi > lo THEN hi - lo ELSE 0>>]

StartForwardAgain(r, a) ==
  LET i == IF a = None THEN 0 ELSE a + 1
  IN IF r.time_after = None THEN i ELSE LowerBound(0, Size, r.time_after)

(* Where a page starts that goes forward. *)
StartForward(r, a) ==
  LET i == IF a = None THEN 0 ELSE a + 1
  IN IF r.time_after = None THEN i
     ELSE Max({i, LowerBound(i, Size, r.time_after)})

(* Where a page starts that goes back: the search leaves out position i.   *)
StartReverse(r, a) ==
  LET i == (IF a = None THEN Size ELSE a) - 1
  IN IF r.time_before = None THEN i
     ELSE Min({i, LowerBound(0, i, r.time_before) - 1})

PassesInclusive(r, i) ==
  IF r.reverse
  THEN r.time_after # None => TimeOf(i) >= r.time_after
  ELSE r.time_before # None => TimeOf(i) <= r.time_before

(* What ends a page early: an item before time_after, on the way back, or  *)
(* not before time_before.                                                 *)
Passes(r, i) ==
  IF r.reverse
  THEN r.time_after # None => TimeOf(i) >= r.time_after
  ELSE r.time_before # None => TimeOf(i) < r.time_before

FitsOneMore(n, count) == count >= 0 => n <= count + 1

(* iv.size() < count compares unsigned numbers: a negative count is no     *)
(* limit.                                                                  *)
Fits(n, count) == count >= 0 => n <= count

(* blockList and transactionList: the items from i on, up to the first     *)
(* that is out of range or does not pass.                                  *)
ItemsFrom(r, i) ==
  LET step  == IF r.reverse THEN -1 ELSE 1
      At(k) == i + (k - 1) * step
      n     == Max({m \in 0 .. Size :
                      /\ Fits(m, r.count)
                      /\ \A k \in 1 .. m :
                           At(k) \in 0 .. Size - 1 /\ Passes(r, At(k))})
  IN [k \in 1 .. n |-> At(k)]

(* accountList, peerList, roleList and domainList. *)
PlainItems(r, a) ==
  LET i == IF a = None THEN 0 ELSE a + 1
      n == Max({m \in 0 .. Size : Fits(m, r.count) /\ i + m <= Size} \cup {0})
  IN [k \in 1 .. n |-> i + k - 1]

Items(r, a) ==
  CASE r.list = "accounts" -> PlainItems(r, a)
    [] r.list # "accounts" /\ r.reverse -> ItemsFrom(r, StartReverse(r, a))
    [] OTHER -> ItemsFrom(r, StartForward(r, a))

NextAfterPastLast(r, a, items) ==
  IF items # <<>> THEN Last(items) + 1 ELSE IF a = None THEN -1 ELSE a

(* List::make: nextAfter is the last item, or what was given, or what is   *)
(* taken for it.                                                           *)
NextAfter(r, a, items) ==
  CASE items # <<>> -> Last(items)
    [] items = <<>> /\ a # None -> a
    [] OTHER -> IF r.reverse THEN Size ELSE -1
-----------------------------------------------------------------------------
(* truncNow: the beginning of the current minute or hour, step. *)
TruncNow(now, step) == now - (now % step)

CountPerTimeAsc(now, step, steps) ==
  LET count[at \in (0 .. Size) \X (0 .. steps)] ==
        LET done   == at[1]
            bucket == at[2]
        IN IF done = Size \/ bucket = steps
           THEN [k \in 1 .. steps |-> 0]
           ELSE IF times[Size - done] >= TruncNow(now, step) - bucket * step
                THEN [count[<<done + 1, bucket>>] EXCEPT ![bucket + 1] = @ + 1]
                ELSE count[<<done, bucket + 1>>]
  IN count[<<0, 0>>]

(* countPerTime goes through the times from the last back, and through the *)
(* buckets, of which the last one is the current minute or hour.           *)
CountPerTime(now, step, steps) ==
  LET count[at \in (0 .. Size) \X (0 .. steps)] ==
        LET done   == at[1]
            bucket == at[2]
        IN IF done = Size \/ bucket = steps
           THEN [k \in 1 .. steps |-> 0]
           ELSE IF times[Size - done] >= TruncNow(now, step) - bucket * step
                THEN [count[<<done + 1, bucket>>] EXCEPT ![steps - bucket] = @ + 1]
                ELSE count[<<done, bucket + 1>>]
  IN count[<<0, 0>>]
-----------------------------------------------------------------------------
(* addBlock adds an item to a list.  Blocks come in the order of their     *)
(* times; the time of a transaction is what its client put in.             *)
Grow ==
  /\ Size < MaxItems
  /\ \E t \in Times :
       /\ request.list # "transactions" /\ times # <<>> => t >= Last(times)
       /\ times' = Append(times, t)
  /\ UNCHANGED <<request, after, seen, total>>

(* The client queries the next page. *)
NextPage ==
  LET items == Items(request, after)
  IN /\ after' = NextAfter(request, after, items)
     /\ seen' = seen \o items
     /\ total' = IF after = None THEN Size ELSE total
     /\ UNCHANGED <<times, request>>

Next == Grow \/ NextPage

Spec == Init /\ [][Next]_vars
-----------------------------------------------------------------------------
FromTime(i)  == request.time_after # None => TimeOf(i) >= request.time_after
UntilTime(i) == request.time_before # None => TimeOf(i) < request.time_before
Matches(i)   == FromTime(i) /\ UntilTime(i)

(* A later item of the pages, in the direction they go. *)
Beyond(i, j) == IF request.reverse THEN i < j ELSE i > j

(* What one page without a limit would still give. *)
Rest == Items([request EXCEPT !.count = -1], after)

(* The pages seen and the rest of the list are together everything that    *)
(* was asked for, in order: no item is skipped or seen twice between two   *)
(* pages, although the list grows between them.  On the way back nothing   *)
(* is asked for that came after the first page.                            *)
EveryPageTiles ==
  LET pages == seen \o Rest
      n == IF request.reverse /\ after # None THEN total ELSE Size
  IN /\ Range(pages) = {i \in 0 .. n - 1 : Matches(i)}
     /\ \A k \in 2 .. Len(pages) : Beyond(pages[k], pages[k - 1])

(* The times, if they are asked for, are in order. *)
InOrder ==
  \/ request.time_after = None /\ request.time_before = None
  \/ \A i, j \in DOMAIN times : i <= j => times[i] <= times[j]

(* As above, but for pages back that start before a time. *)
PagesTile ==
  InOrder /\ ~(request.reverse /\ request.time_before # None) => EveryPageTiles

(* The next page is the beginning of the rest: full unless the rest is     *)
(* shorter, so that a client may stop at a page that is not full.          *)
ShortPageIsLast ==
  LET page == Items(request, after)
  IN /\ IsPrefix(page, Rest)
     /\ Len(page) = IF Fits(Len(Rest), request.count)
                    THEN Len(Rest) ELSE request.count

(* Whatever the order of the times, each page goes on beyond the ones      *)
(* before it, stays within the list, and shows nothing that is beyond the  *)
(* time where it ends.  Only if the times are in order it also shows       *)
(* nothing from before the time where it begins, which the code looks for  *)
(* once, by binary search, to find its first item.                         *)
NothingForeign ==
  /\ \A k \in DOMAIN seen :
       /\ seen[k] \in 0 .. Size - 1
       /\ IF request.reverse THEN FromTime(seen[k]) ELSE UntilTime(seen[k])
       /\ InOrder => Matches(seen[k])
  /\ \A k \in 2 .. Len(seen) : Beyond(seen[k], seen[k - 1])

(* A histogram, for which the times are in order, has in each bucket the   *)
(* number of items of that minute or hour.  The newest bucket has no end,  *)
(* so that items from a clock that is ahead are in it.                     *)
HistogramRight ==
  (\A i, j \in DOMAIN times : i <= j => times[i] <= times[j]) =>
    \A now \in Times, step \in 1 .. MaxSteps, steps \in 0 .. MaxSteps :
      CountPerTime(now, step, steps) =
        [k \in 1 .. steps |->
           LET from == now - (now % step) - (steps - k) * step
           IN Quantify(DOMAIN times,
                       LAMBDA i : /\ times[i] >= from
                                  /\ k < steps => times[i] < from + step)]
=============================================================================
