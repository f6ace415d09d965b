------------------------------ MODULE MCOrders ------------------------------
(* Small instances of Orders, and baskets, for TLC. *)
EXTENDS Orders, TLC

\* Processes and keys are interchangeable.
Symmetry == Permutations(Posts) \cup Permutations(Keys)

HostNames == {"a.ir", "b.ir"}

\* Two valid names, one of them also spelled in another way, and one that is not.
Written ==
  {[name |-> n, spelling |-> "clean"] : n \in HostNames \cup {"not a host"}} \cup
  {[name |-> "a.ir", spelling |-> "other"]}

NoName == [name |-> Blank, spelling |-> "clean"]

\* Two texts, one of two characters of which one takes two bytes; keyed texts with
\* none, one or two of them, with two keys for one number, and with a key that is
\* not made of digits.
Wide == [chars |-> 2, bytes |-> 3]
Plain == [chars |-> 2, bytes |-> 2]
Entry(id, text) == [digits |-> TRUE, id |-> id, text |-> text]

Options ==
  {<<>>, <<Entry(1, Wide)>>, <<Entry(2, Plain), Entry(1, Wide)>>,
   <<Entry(1, Plain), Entry(1, Wide)>>, <<[Entry(1, Plain) EXCEPT !.digits = FALSE]>>}

Product == [type |-> "product", product_id |-> 7, billing_cycle |-> "monthly"]

Products ==
  {Product, Product @@ [quantity |-> 3]} \cup
  {Product @@ [domain |-> d] : d \in Written \cup {NoName}} \cup
  {Product @@ [config_options |-> o] : o \in Options} \cup
  {Product @@ [custom_fields |-> o] : o \in Options} \cup
  {Product @@ [hostname |-> h, addons |-> a] : h \in {Blank, "host"}, a \in {<<>>, <<4, 5>>}}

Domains ==
  [type : {"domain"}, domain : Written, action : {"register", "transfer"}] \cup
  [type : {"domain"}, domain : Written, action : {"register", "transfer"},
   epp_code : {Blank, "code"}, years : {2}, id_protection : {TRUE},
   dns_management : {FALSE, TRUE}]

\* A domain with a field that only products have, and lines that lack one.
Odd ==
  {[type |-> "domain", domain |-> d, action |-> "register", config_options |-> o] :
     d \in Written, o \in {<<>>, <<Entry(1, Wide)>>}} \cup
  {[type |-> "product", product_id |-> 7], [type |-> "certificate"], [years |-> 1]}

Lines == Products \cup Domains \cup Odd

\* Up to one line more than a basket may have.
AllBaskets == UNION {[1 .. n -> Lines] : n \in 0 .. 3}

AllRoutes ==
  [client : {"customer"},
   proxies : {<<>>, <<"edge">>, <<"edge", "inner">>},
   prepended : {<<>>, <<"made up">>, <<"made up", Blank, "customer">>}]
=============================================================================
