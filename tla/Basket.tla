------------------------------- MODULE Basket -------------------------------
(***************************************************************************)
(* From the basket of POST /orders/ to the parameters of AddOrder: the     *)
(* validation in apps/orders/serializers.py, the parallel arrays that      *)
(* OrderService.create_order builds, and the address it passes on          *)
(* (apps/core/http.py).  No state: what WHMCS reads is compared with what  *)
(* was asked, line by line.                                                *)
(*                                                                         *)
(* A basket line is a record with the fields that the customer has sent.   *)
(* A domain is written [name |-> the name it stands for, spelling |-> how  *)
(* it is written]; the name Blank is one, and one that is not in Names     *)
(* does not match HOSTNAME_RE.  The keyed texts of a line, config_options  *)
(* and custom_fields, are sent as a sequence of entries [digits, id, text]:*)
(* whether the key is made of digits, the number it stands for ("7" and    *)
(* "07" are two keys of one number), and a text [chars, bytes], its length *)
(* and that of its UTF-8 encoding.                                         *)
(***************************************************************************)
EXTENDS Naturals, Sequences, FiniteSets

CONSTANTS
  Names,      \* the names that are valid host names
  MAX_ITEMS,  \* the longest basket (20 in the code)
  Baskets,    \* the baskets to look at: sequences of lines
  Routes      \* the ways a request may have come: see client_ip

\* What is left of a part of blanks only.
Blank == ""

\* A proxy appends the address of a connection, which is never blank; what came
\* before it may be anything.
ASSUME RoutesAssumption ==
  \A route \in Routes :
    /\ route.client \in STRING \ {Blank}
    /\ route.proxies \in Seq(STRING \ {Blank})
    /\ route.prepended \in Seq(STRING)

-----------------------------------------------------------------------------
(* serializers.py *)

Keyed == {"config_options", "custom_fields"}

\* attrs.get(field), as a condition: blank texts, empty lists and dicts are not.
Given(item, field) ==
  /\ field \in DOMAIN item
  /\ field = "domain" => item.domain.name # Blank
  /\ field \in {"hostname", "epp_code"} => item[field] # Blank
  /\ field \in {"addons"} \cup Keyed => DOMAIN item[field] # {}

\* Stripped, in small letters, without the last dot.
_clean_domain(domain) == domain.name

IsHostname(domain) == _clean_domain(domain) \in Names

\* The fields of ProductItemSerializer, or of DomainItemSerializer.
Declared(item) ==
  {"type", "domain"} \cup
  IF item.type = "product"
    THEN {"product_id", "billing_cycle", "quantity", "hostname", "addons",
          "config_options", "custom_fields"}
    ELSE {"action", "years", "epp_code", "id_protection", "dns_management",
          "email_forwarding"}

ValidProduct(item) ==
  /\ {"product_id", "billing_cycle"} \subseteq DOMAIN item
  /\ Given(item, "domain") => IsHostname(item.domain)
  /\ \A field \in Keyed \cap DOMAIN item :
       \A i \in DOMAIN item[field] : item[field][i].digits

\* A transfer needs its code.
ValidDomain(item) ==
  /\ {"domain", "action"} \subseteq DOMAIN item
  /\ IsHostname(item.domain)
  /\ item.action = "transfer" => Given(item, "epp_code")

\* Keys are numbers from here on: of two keys for one number, the later stands.
_numeric_keys(entries) ==
  [id \in {entries[i].id : i \in DOMAIN entries} |->
     LET last == CHOOSE i \in DOMAIN entries :
                   /\ entries[i].id = id
                   /\ \A j \in DOMAIN entries \ {i} : entries[j].id = id => j < i
     IN  entries[last].text]

Default(field) == CASE field \in {"quantity", "years"} -> 1
                    [] OTHER                           -> FALSE

Defaults(item) ==
  IF item.type = "product" THEN {"quantity"}
  ELSE {"years", "id_protection", "dns_management", "email_forwarding"}

\* A code that was sent along with a registration is dropped.
Dropped(item) ==
  IF item.type = "domain" /\ item.action = "register" /\ Given(item, "epp_code")
    THEN {"epp_code"} ELSE {}

\* validated_data of a line: fields that the serializer does not declare are left
\* out.
Cleaned(item) ==
  [field \in ((DOMAIN item \cap Declared(item)) \cup Defaults(item)) \ Dropped(item) |->
     IF field \notin DOMAIN item THEN Default(field)
     ELSE IF field = "domain"
       THEN [name |-> _clean_domain(item.domain), spelling |-> "clean"]
     ELSE IF field \in Keyed THEN _numeric_keys(item[field])
     ELSE item[field]]

DomainLines(items) == {i \in DOMAIN items : items[i].type = "domain"}

\* Fault: the names are compared as they were written.
NoDomainTwice_AsWritten(items) ==
  \A i, j \in DomainLines(items) : i # j => items[i].domain # items[j].domain

NoDomainTwice(items) ==
  \A i, j \in DomainLines(items) : i # j => Cleaned(items[i]).domain # Cleaned(items[j]).domain

\* OrderCreateSerializer.is_valid: the lines, then the basket as a whole.
validate_items(items) ==
  /\ Len(items) \in 1 .. MAX_ITEMS
  /\ \A i \in DOMAIN items : "type" \in DOMAIN items[i]
  /\ \A i \in DOMAIN items :
       \/ items[i].type = "product" /\ ValidProduct(items[i])
       \/ items[i].type = "domain" /\ ValidDomain(items[i])
  /\ NoDomainTwice(items)

-----------------------------------------------------------------------------
(* create_order *)

\* Fault: characters instead of bytes.
base64_serialize_Characters(texts) ==
  [key \in DOMAIN texts |-> [length |-> texts[key].chars, item |-> texts[key]]]

\* PHP's serialization gives the length of every text in bytes.
base64_serialize(texts) ==
  [key \in DOMAIN texts |-> [length |-> texts[key].bytes, item |-> texts[key]]]

\* The fields that create_order puts for a line, and their values.
ProductFields(item) ==
  {"pid", "billingcycle", "qty"} \cup
  {field \in {"domain", "hostname", "addons"} : Given(item, field)} \cup
  {field \in {"configoptions"} : Given(item, "config_options")} \cup
  {field \in {"customfields"} : Given(item, "custom_fields")}

DomainFields(item) ==
  {"domain", "domaintype", "regperiod", "idprotection", "dnsmanagement",
   "emailforwarding"} \cup
  {field \in {"eppcode"} : item.action = "transfer" /\ Given(item, "epp_code")}

Fields(item) == IF item.type = "product" THEN ProductFields(item) ELSE DomainFields(item)

Value(item, field) ==
  CASE field = "pid"             -> item.product_id
    [] field = "billingcycle"    -> item.billing_cycle
    [] field = "qty"             -> item.quantity
    [] field = "domain"          -> item.domain.name
    [] field = "configoptions"   -> base64_serialize(item.config_options)
    [] field = "customfields"    -> base64_serialize(item.custom_fields)
    [] field = "domaintype"      -> item.action
    [] field = "regperiod"       -> item.years
    [] field = "idprotection"    -> item.id_protection
    [] field = "dnsmanagement"   -> item.dns_management
    [] field = "emailforwarding" -> item.email_forwarding
    [] field = "eppcode"         -> item.epp_code
    [] OTHER                     -> item[field]

AllFields(items) == UNION {Fields(items[i]) : i \in DOMAIN items}

\* Fault: put appends to the field's array.
indexed_Appended(items) ==
  [field \in AllFields(items) |->
     LET having == SelectSeq(items, LAMBDA item : field \in Fields(item)) IN
       [i \in DOMAIN having |-> Value(having[i], field)]]

\* put(field, index, value): one array per field, with holes.
indexed(items) ==
  [field \in AllFields(items) |->
     [i \in {j \in DOMAIN items : field \in Fields(items[j])} |-> Value(items[i], field)]]

\* Hops are separated by commas, and a blank between two is no hop.
Hops(forwarded) == {i \in DOMAIN forwarded : forwarded[i] # Blank}

\* The n-th hop from the right, if there are n trusted proxies.
client_ip(NUM_PROXIES, remote_addr, forwarded) ==
  LET hops == Hops(forwarded)
      Right(i) == {j \in hops : j >= i}
  IN  IF NUM_PROXIES = 0 \/ Cardinality(hops) < NUM_PROXIES
        THEN remote_addr
        ELSE forwarded[CHOOSE i \in hops : Cardinality(Right(i)) = NUM_PROXIES]

-----------------------------------------------------------------------------
(* What WHMCS makes of it, and what was asked *)

\* One line of the parallel arrays: the fields that have this index.
LineOf(arrays, i) ==
  [field \in {f \in DOMAIN arrays : i \in DOMAIN arrays[f]} |-> arrays[field][i]]

\* A field of a line, if it is there.
Field(line, field) == {line[f] : f \in {field} \cap DOMAIN line}

\* PHP reads a text as long as it is said to be.
Unserialized(parts) ==
  {<<key, parts[key].item>> :
     key \in {k \in DOMAIN parts : parts[k].length = parts[k].item.bytes}}

\* WHMCS prices pid[i] with billingcycle[i] and qty[i], and registers domain[i]
\* if there is a domaintype[i]; otherwise the domain is that of the hosting.
Sold(line) ==
  [product |-> Field(line, "pid") \X Field(line, "billingcycle") \X Field(line, "qty"),
   action  |-> Field(line, "domaintype") \X Field(line, "domain") \X Field(line, "regperiod"),
   code    |-> Field(line, "eppcode"),
   hosted  |-> IF "domaintype" \in DOMAIN line THEN {} ELSE Field(line, "domain"),
   host    |-> Field(line, "hostname"),
   addons  |-> Field(line, "addons"),
   flags   |-> Field(line, "idprotection") \X Field(line, "dnsmanagement")
                 \X Field(line, "emailforwarding"),
   options |-> UNION {Unserialized(parts) : parts \in Field(line, "configoptions")},
   custom  |-> UNION {Unserialized(parts) : parts \in Field(line, "customfields")}]

ActedOn(line) == {action[2] : action \in Sold(line).action}

\* The same for a line of the basket as the customer sent it.
Or(item, field, default) == IF field \in DOMAIN item THEN item[field] ELSE default

\* A field that is left out when it is empty.
IfGiven(item, field) == IF Given(item, field) THEN {item[field]} ELSE {}

Entries(item, field) ==
  IF field \notin DOMAIN item THEN {}
  ELSE {<<item[field][i].id, item[field][i].text>> : i \in DOMAIN item[field]}

Asked(item) ==
  [product |-> IF item.type = "domain" THEN {}
               ELSE {<<item.product_id, item.billing_cycle, Or(item, "quantity", 1)>>},
   action  |-> IF item.type = "product" THEN {}
               ELSE {<<item.action, item.domain.name, Or(item, "years", 1)>>},
   code    |-> IF item.type = "domain" /\ item.action = "transfer" THEN {item.epp_code} ELSE {},
   hosted  |-> IF item.type = "product" /\ Given(item, "domain") THEN {item.domain.name} ELSE {},
   host    |-> IF item.type = "product" THEN IfGiven(item, "hostname") ELSE {},
   addons  |-> IF item.type = "product" THEN IfGiven(item, "addons") ELSE {},
   flags   |-> IF item.type = "product" THEN {}
               ELSE {<<Or(item, "id_protection", FALSE), Or(item, "dns_management", FALSE),
                       Or(item, "email_forwarding", FALSE)>>},
   options |-> IF item.type = "product" THEN Entries(item, "config_options") ELSE {},
   custom  |-> IF item.type = "product" THEN Entries(item, "custom_fields") ELSE {}]

\* No number is written as two keys: of such two, one is lost.
KeysAreDistinct(item) ==
  \A field \in Keyed \cap DOMAIN item :
    \A i, j \in DOMAIN item[field] : item[field][i].id = item[field][j].id => i = j

AddOrderParams(items) == indexed([i \in DOMAIN items |-> Cleaned(items[i])])

\* "Indices are emitted explicitly so a product-only line followed by a domain-only
\* line cannot slide into each other": line by line, WHMCS sells what the customer
\* asked for, nothing is on other lines, and no domain is acted on twice, however
\* it is written (create_order, validate_items), if no line has two keys for one
\* number.
BasketsAreKept ==
  \A items \in Baskets :
    validate_items(items) =>
      LET order == AddOrderParams(items) IN
        /\ \A i \in DOMAIN items :
             KeysAreDistinct(items[i]) => Sold(LineOf(order, i)) = Asked(items[i])
        /\ \A field \in DOMAIN order : DOMAIN order[field] \subseteq DOMAIN items
        /\ \A i, j \in DOMAIN items :
             i # j => ActedOn(LineOf(order, i)) \cap ActedOn(LineOf(order, j)) = {}

\* "Anything a client prepends is ignored": with n trusted proxies in front, each
\* of which appends the address it saw, WHMCS is given the address that the
\* outermost of them saw, and without any the address of the connection.
AddressesAreObserved ==
  \A route \in Routes :
    LET n    == Len(route.proxies)
        seen == <<route.client>> \o route.proxies
    IN  client_ip(n, seen[n + 1], route.prepended \o SubSeq(seen, 1, n)) = route.client
=============================================================================
