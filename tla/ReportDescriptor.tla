---------------------------- MODULE ReportDescriptor ----------------------------
(***************************************************************************)
(* The ranges a report descriptor declares for the axes (axis_ranges of      *)
(* src/src/hid.rs).  A descriptor is a sequence of items, up to the first    *)
(* that is not whole; an item is a tag, a size in bytes and a number, read   *)
(* without a sign.  Of the usages only those of one page are axes.           *)
(***************************************************************************)
EXTENDS HidDecoder

CONSTANT BYTE  \* numbers of a byte

\* A usage of two bytes holds every axis.
ASSUME DescriptorAssumption == BYTE \in Nat /\ BYTE >= 8

WORD == BYTE * BYTE

\* The generic desktop page, and the usages of the axes on it, x first.
USAGE_PAGE == 1
FirstAxis == 48
AxisUsages == FirstAxis .. FirstAxis + 5

\* The numbers there are of so many bytes.
NumbersOf(size) ==
  CASE size = 0 -> 1 [] size = 1 -> BYTE [] size = 2 -> WORD [] size = 4 -> WORD * WORD

Signed(item) ==
  IF item.size = 0 \/ item.value < NumbersOf(item.size) \div 2 THEN item.value
  ELSE item.value - NumbersOf(item.size)

Nothing == [page |-> 0, min |-> 0, max |-> 0, usages |-> {}, span |-> <<>>,
            ranges |-> [u \in AxisUsages |-> <<>>]]

\* A number of the span laid over the page of now (page << 16 | u) has the page
\* of the axes: the bit of that page is in one of them or in both, and no other is.
InSpan(p, u) ==
  /\ p.span # <<>>
  /\ \E n \in p.span[1] .. p.span[2] :
       n % WORD = u /\ {p.page, n \div WORD} \in {{0, USAGE_PAGE}, {USAGE_PAGE}}

\* An input takes the range for every axis it is for, if that is one: by itself
\* under the page of the time, or in a span.
Ranged(p) ==
  [u \in AxisUsages |-> IF p.min < p.max /\ (<<USAGE_PAGE, u>> \in p.usages \/ InSpan(p, u))
                        THEN <<p.min, p.max>> ELSE p.ranges[u]]

\* The main items, each of which the usages before it are for.
Main == {"Input", "Output", "Feature", "Collection", "End"}

\* (Mutated: a maximum has a sign, as a minimum has.)
MaximumSigned(p, item) == Signed(item)

\* A maximum has one only if the minimum is below 0, or if it fills the number.
Maximum(p, item) ==
  IF p.min < 0 \/ item.size = 4 THEN Signed(item) ELSE item.value

\* A usage of 4 bytes has its page in it.
Usage(p, item) ==
  IF item.size = 4 THEN <<item.value \div WORD, item.value % WORD>>
  ELSE <<p.page, item.value>>

\* One more item; of a page, what a usage has room for.
Parsed(p, item) ==
  CASE item.tag = "Page" -> [p EXCEPT !.page = item.value % WORD]
    [] item.tag = "Minimum" -> [p EXCEPT !.min = Signed(item)]
    [] item.tag = "Maximum" -> [p EXCEPT !.max = Maximum(p, item)]
    [] item.tag = "Usage" -> [p EXCEPT !.usages = @ \cup {Usage(p, item)}]
    [] item.tag = "From" ->
         [p EXCEPT !.span = <<item.value, IF @ = <<>> THEN item.value ELSE @[2]>>]
    [] item.tag = "To" ->
         [p EXCEPT !.span = <<IF @ = <<>> THEN item.value ELSE @[1], item.value>>]
    [] item.tag = "Input" ->
         [p EXCEPT !.usages = {}, !.span = <<>>, !.ranges = Ranged(p)]
    [] item.tag \in Main \ {"Input"} -> [p EXCEPT !.usages = {}, !.span = <<>>]
    [] OTHER -> p

\* What the items up to the n-th come to.
AsRead(items) ==
  LET After[n \in 0 .. Len(items)] ==
        IF n = 0 THEN Nothing ELSE Parsed(After[n - 1], items[n])
  IN  After

axis_ranges(items) == AsRead(items)[Len(items)].ranges

\* with_ranges: the range an axis is read with.
RangeUsed(ranges, u) == IF ranges[u] = <<>> THEN RANGE ELSE ranges[u]
================================================================================
