------------------------------ MODULE Pagination ------------------------------
(****************************************************************************)
(* Pages of a list: pkg/pagination/pagination.go, over Go's int, which is 64  *)
(* bits wide in the builds of this program.                                   *)
(****************************************************************************)
EXTENDS Integers, Sequences

CONSTANTS
  DefaultLimit, \* 10
  MaxLimit,     \* 100
  MaxInt,       \* the largest int
  NotANumber    \* a parameter that is absent or that strconv.Atoi refuses

ASSUME PaginationAssumption ==
  /\ MaxLimit \in Nat \ {0} /\ DefaultLimit \in 1..MaxLimit
  /\ MaxInt \in Nat /\ MaxInt > MaxLimit
  /\ NotANumber \notin Int

DefaultPage == 1

parseInt(raw, fallback) == IF raw = NotANumber THEN fallback ELSE raw

ParsePage(raw) ==
  LET n == parseInt(raw, DefaultPage) IN IF n < 1 THEN DefaultPage ELSE n

ParseLimit(raw) ==
  LET n == parseInt(raw, DefaultLimit)
  IN  IF n < 1 THEN DefaultLimit ELSE IF n > MaxLimit THEN MaxLimit ELSE n

\* What a product leaves in an int, in two's complement.
Wrap(n) == ((n + MaxInt + 1) % (2 * (MaxInt + 1))) - MaxInt - 1

\* Mutant: pages counted from 0.
OffsetFromZero(page, limit) == Wrap(page * limit)
Offset(page, limit) == Wrap((page - 1) * limit)

Parse(rawPage, rawLimit) ==
  LET page == ParsePage(rawPage)
      limit == ParseLimit(rawLimit)
  IN  [page |-> page, limit |-> limit, offset |-> Offset(page, limit)]

\* NewMeta: ceil(total / limit), at least 1.  The floating point quotient is
\* exact enough for every total below 2^53.
TotalPages(limit, total) ==
  LET n == (total + limit - 1) \div limit IN IF n < 1 THEN 1 ELSE n
HasNext(params, total) == params.page < TotalPages(params.limit, total)

\* LIMIT limit OFFSET offset: the page shows the rank-th row of the ordered
\* result, from 0.
Shows(params, rank) == params.offset <= rank /\ rank < params.offset + params.limit
PageOf(list, params) ==
  LET upTo == params.offset + params.limit
  IN  SubSeq(list, params.offset + 1, IF upTo < Len(list) THEN upTo ELSE Len(list))
=============================================================================
