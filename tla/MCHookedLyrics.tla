--------------------------- MODULE MCHookedLyrics ---------------------------
(***************************************************************************)
(* Instances of HookedLyrics for TLC: images of twelve cells in pages of   *)
(* two, .text (1-2), .rdata (3-8) and .data (9-12), with parts of the real *)
(* offsets between them.                                                   *)
(***************************************************************************)
EXTENDS HookedLyrics

\* A duration may be negative: valid_time bounds its absolute value only.
MCDurations == {-1, 0, 2}

Header(first, length, readable, executable) ==
  [first |-> first, length |-> length, readable |-> readable, executable |-> executable]

Headers == <<Header(1, 2, TRUE, TRUE), Header(3, 6, TRUE, FALSE), Header(9, 4, TRUE, FALSE)>>

\* Two functions, each with the prologue or another.
Texts == {<<f, g>> : f, g \in {UPDATE_PROLOGUE[1], 0}}

\* The type descriptor at 10, or at 9, where a page ends within the name.
Datas == {<<0, 0>> \o ClassName, <<0>> \o ClassName \o <<0>>}

Descriptor(data) == IF data[3] = ClassName[1] THEN 10 ELSE 9

\* Where 10 stands for the type descriptor.
Resolve(rdata, data) ==
  [i \in DOMAIN rdata |-> IF rdata[i] = 10 THEN Descriptor(data) ELSE rdata[i]]

Default == <<"rx", "r", "r", "r", "rw", "rw">>

Image(text, rdata, data, page, headers) ==
  [memory |-> text \o rdata \o data, page |-> page, headers |-> headers]

\* A locator, its halves exchanged, a copy of the name, or nothing; then
\* locators, vtables and pieces of them.
AnyContents ==
  {Image(text, Resolve(first \o <<a, b, c, d>>, data), data, Default, Headers) :
     text \in Texts, data \in Datas, first \in {<<0, 10>>, <<10, 0>>, ClassName, <<0, 0>>},
     a, b, c \in {0, 1, 2, 3, 5, 10}, d \in {0, 1, 2, 3}}

\* A locator and two vtables, the second one perhaps of another locator.
AnyPages ==
  {Image(text, Resolve(<<0, 10, 3, 1, second, 2>>, data), data, <<p, q, r, s, t, u>>, Headers) :
     text \in Texts \ {<<0, 0>>}, data \in Datas, second \in {0, 3}, p \in {"rx", "none"},
     q, r, s \in {"r", "none"}, t, u \in {"rw", "wc", "none"}}

AnyHeaders ==
  {Image(<<UPDATE_PROLOGUE[1], 0>>, <<0, 10, 3, 1, 3, 2>>, <<0, 0>> \o ClassName, Default,
         <<h, i, j>>) :
     h \in {Headers[1], Header(1, 2, TRUE, FALSE), Header(1, 0, TRUE, TRUE)},
     i \in {Headers[2], Header(3, 6, FALSE, FALSE), Header(3, 11, TRUE, FALSE),
            Header(3, 8, TRUE, FALSE)},
     j \in {Headers[3], Header(9, 5, TRUE, FALSE), Header(9, 4, FALSE, FALSE)}}

MCImages == AnyContents \cup (AnyHeaders \cup AnyPages)

=============================================================================
