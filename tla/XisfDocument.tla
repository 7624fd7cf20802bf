---------------------------- MODULE XisfDocument ----------------------------
(***************************************************************************)
(* The XML header of an XISF file: the visitor that turns the events of    *)
(* quick-xml into XISF events (visit_xml of xisf/structural.rs), and its   *)
(* three consumers: the tree of the validator, the image the loader looks  *)
(* for, and the records of the metadata reader.                            *)
(*                                                                         *)
(* In the program each consumer makes a visit of its own; the visits read  *)
(* the same bytes, so that here the three listen to one.  A consumer that  *)
(* fails ends its visit, which does not end those of the others.  Events   *)
(* that the visitor skips (comments, declarations) are left out.  Text is  *)
(* a sequence of pieces, each a "word" or a "blank".  A tag's fault is an  *)
(* attribute that is malformed or twice there, or a descriptor that does   *)
(* not parse.                                                              *)
(***************************************************************************)
EXTENDS ByteTotals, FiniteSetsExt, SequencesExt

CONSTANTS
  Tags,        \* start tags, as the code tells them apart
  Limits,      \* values of limits.structures to choose from
  Room,        \* working memory, in units of 1 KiB
  MaxElements, \* bound: elements of a document
  MaxParts     \* bound: elements and texts of a document

ASSUME DocumentAssumption ==
  /\ Limits \subseteq Nat /\ Room \in Nat
  /\ \A tag \in Tags :
       /\ DOMAIN tag = {"name", "space", "attrs", "fault"}
       /\ tag.space \in {"unbound", "core", "foreign", "unknown"}
       /\ IsFiniteSet(tag.attrs)
       /\ tag.fault \in {"none", "attribute", "descriptor", "version"}

VARIABLES
  events,  \* what the reader produced
  stack,   \* names and namespaces of the open elements
  roots,   \* elements seen at depth 0
  visit,   \* "open", "ok" or how the visit failed
  tree,    \* state of the validator's consumer
  loader,  \* of the loader's
  records  \* of the metadata reader's

vars == <<events, stack, roots, visit, tree, loader, records>>

None == 0
Init ==
  /\ events = <<>> /\ stack = <<>> /\ roots = 0 /\ visit = "open"
  /\ \E limit \in Limits :
       tree = [verdict |-> "open", nodes |-> <<>>, stack |-> <<>>,
               limit |-> limit, structures |-> 0, memory |-> 0]
  /\ loader = [verdict |-> "open", image |-> None]
  /\ records = [verdict |-> "open", pending |-> <<>>, properties |-> <<>>,
                keywords |-> 0, images |-> <<>>]

IsCore(space) == space \in {"unbound", "core"}
Significant(text) == "word" \in ToSet(text)
-----------------------------------------------------------------------------
(* The validator's consumer (parse of validation/xisf.rs).                 *)

(* Mutant: extensions are free. *)
AdmitElements(t, attributes) ==
  IF attributes = 0 THEN t
  ELSE IF t.structures + 1 > t.limit \/ t.memory + 1 + attributes > Room
       THEN [t EXCEPT !.verdict = "limit"]
       ELSE [t EXCEPT !.structures = @ + 1, !.memory = @ + 1 + attributes]

(* One structure, one unit of memory for it and one for each attribute.    *)
Admit(t, attributes) ==
  LET structures == t.structures + 1
      memory == t.memory + 1 + attributes
  IN  IF structures > t.limit \/ memory > Room
      THEN [t EXCEPT !.verdict = "limit"]
      ELSE [t EXCEPT !.structures = structures, !.memory = memory]

(* Mutant: an empty element stays open. *)
GrowOpen(t, e) ==
  LET idx == Len(t.nodes) + 1
      parent == IF t.stack = <<>> THEN None ELSE Last(t.stack)
  IN  [t EXCEPT !.nodes = Append(@, [name |-> e.tag.name, tag |-> e.tag,
                 text |-> <<>>, children |-> <<>>, parent |-> parent]),
                !.stack = Append(@, idx)]

Grow(t, e) ==
  LET idx == Len(t.nodes) + 1
      parent == IF t.stack = <<>> THEN None ELSE Last(t.stack)
      node == [name |-> e.tag.name, tag |-> e.tag, text |-> <<>>,
               children |-> <<>>, parent |-> parent]
      linked == [i \in 1..(idx - 1) |->
                   IF i = parent
                   THEN [t.nodes[i] EXCEPT !.children = Append(@, idx)]
                   ELSE t.nodes[i]]
  IN  IF e.tag.fault = "descriptor" \/ e.depth # Len(t.stack)
      THEN [t EXCEPT !.verdict = "invalid"]
      ELSE [t EXCEPT !.nodes = Append(linked, node),
                     !.stack = IF e.empty THEN @ ELSE Append(@, idx)]

Parse(t, e) ==
  IF t.verdict # "open" THEN t
  ELSE CASE e.kind = "element" ->
              LET admitted == Admit(t, Cardinality(e.tag.attrs))
              IN  IF admitted.verdict # "open" THEN admitted ELSE Grow(admitted, e)
         [] e.kind = "end" ->
              IF \/ t.stack = <<>> \/ t.nodes[Last(t.stack)].name # e.name
                 \/ Len(t.stack) - 1 # e.depth
              THEN [t EXCEPT !.verdict = "invalid"]
              ELSE [t EXCEPT !.stack = Front(@)]
         [] e.kind = "text" ->
              IF e.depth # Len(t.stack) THEN [t EXCEPT !.verdict = "invalid"]
              ELSE [t EXCEPT !.nodes[Last(t.stack)].text = Append(@, e.text)]
         [] e.kind = "ignored" ->
              IF e.attributes < 0 THEN t ELSE Admit(t, e.attributes)

Parsed(t) ==
  LET root == t.nodes[1].tag
  IN  IF t.verdict # "open" THEN t
      ELSE [t EXCEPT !.verdict = IF "version" \notin root.attrs THEN "invalid"
                                 ELSE IF root.fault = "version" THEN "unsupported"
                                 ELSE "ok"]
-----------------------------------------------------------------------------
(* The loader's consumer: the first Image, numbered by its event.          *)
FindImage(l, e) ==
  IF l.verdict = "open" /\ e.kind = "element" /\ l.image = None
       /\ e.tag.name = "Image"
  THEN IF e.tag.fault = "descriptor" THEN [l EXCEPT !.verdict = "error"]
       ELSE [l EXCEPT !.image = e.at]
  ELSE l
Found(l) ==
  IF l.verdict = "open"
  THEN [l EXCEPT !.verdict = IF l.image = None THEN "error" ELSE "ok"] ELSE l

(* The metadata reader's consumer (collect_metadata_records).              *)
Required(name) ==
  CASE name = "FITSKeyword" -> {"name", "value"}
    [] name = "Property" -> {"id", "type"}
    [] OTHER -> {}
Record(e) == [at |-> e.at, depth |-> e.depth, text |-> <<>>, child |-> FALSE,
              value |-> IF "value" \in e.tag.attrs THEN <<"attr">> ELSE <<>>]

CollectElement(m, e) ==
  LET pending == [i \in DOMAIN m.pending |->
                    [m.pending[i] EXCEPT !.child = @ \/ e.depth > m.pending[i].depth]]
  IN  IF \/ ~(Required(e.tag.name) \subseteq e.tag.attrs)
         \/ e.tag.name = "Property" /\ m.pending # <<>>
      THEN [m EXCEPT !.verdict = "error"]
      ELSE CASE e.tag.name = "Property" ->
                  IF e.empty THEN [m EXCEPT !.properties = Append(@, Record(e))]
                  ELSE [m EXCEPT !.pending = <<Record(e)>>]
             [] e.tag.name = "FITSKeyword" ->
                  [m EXCEPT !.keywords = @ + 1, !.pending = pending]
             [] e.tag.name = "Image" ->
                  [m EXCEPT !.images = Append(@, e.at), !.pending = pending]
             [] OTHER -> [m EXCEPT !.pending = pending]

(* Mutant: the text of the elements inside counts, too. *)
CollectAllText(m, e) ==
  IF m.pending # <<>> THEN [m EXCEPT !.pending[1].text = Append(@, e.text)] ELSE m

CollectText(m, e) ==
  IF m.pending # <<>> /\ e.depth = m.pending[1].depth + 1
  THEN [m EXCEPT !.pending[1].text = Append(@, e.text)] ELSE m

CollectEnd(m, e) ==
  IF e.name # "Property" \/ m.pending = <<>> \/ m.pending[1].depth # e.depth
  THEN m
  ELSE LET p == m.pending[1]
           value == IF /\ p.value = <<>> /\ p.text # <<>>
                       /\ ~p.child \/ Significant(p.text)
                    THEN p.text ELSE p.value
       IN  IF p.value # <<>> /\ Significant(p.text)
           THEN [m EXCEPT !.verdict = "error"]
           ELSE [m EXCEPT !.pending = <<>>,
                          !.properties = Append(@, [p EXCEPT !.value = value])]

Collect(m, e) ==
  IF m.verdict # "open" THEN m
  ELSE CASE e.kind = "element" -> CollectElement(m, e)
         [] e.kind = "text" -> CollectText(m, e)
         [] e.kind = "end" -> CollectEnd(m, e)
         [] e.kind = "ignored" -> m
Collected(m) ==
  IF m.verdict = "open"
  THEN [m EXCEPT !.verdict = IF m.pending # <<>> THEN "error" ELSE "ok"] ELSE m
-----------------------------------------------------------------------------
(* The visitor.                                                            *)

Read(event) == visit = "open" /\ events' = Append(events, event)
Refuse(kind) ==
  visit' = kind /\ UNCHANGED <<stack, roots, tree, loader, records>>
Tell(e) ==
  /\ tree' = Parse(tree, e)
  /\ loader' = FindImage(loader, e)
  /\ records' = Collect(records, e)
  /\ UNCHANGED visit

InExtension == Len(stack) >= 2 /\ ~IsCore(stack[2].space)

(* Mutant: any element of the core namespace may be the root. *)
RefusedButRoot(tag) ==
  \/ tag.space = "unknown" \/ tag.fault = "attribute"
  \/ ~InExtension /\ Len(stack) # 1 /\ ~IsCore(tag.space)

Refused(tag) ==
  \/ tag.space = "unknown" \/ tag.fault = "attribute"
  \/ stack = <<>> /\ (roots > 0 \/ tag.name # "xisf" \/ ~IsCore(tag.space))
  \/ ~InExtension /\ Len(stack) # 1 /\ ~IsCore(tag.space)

Element(tag, empty) ==
  LET foreign == InExtension \/ ~IsCore(tag.space)
      depth == Len(stack)
  IN  /\ Read([kind |-> IF empty THEN "empty" ELSE "start", tag |-> tag])
      /\ \/ Refused(tag) /\ Refuse("invalid")
         \/ /\ ~Refused(tag)
            /\ roots' = IF depth = 0 THEN roots + 1 ELSE roots
            /\ Tell(IF foreign
                    THEN [kind |-> "ignored", attributes |-> Cardinality(tag.attrs)]
                    ELSE [kind |-> "element", tag |-> tag, depth |-> depth,
                          empty |-> empty, at |-> Len(events) + 1])
            /\ stack' = IF empty THEN stack
                        ELSE Append(stack, [name |-> tag.name, space |-> tag.space])

End(name, space) ==
  /\ Read([kind |-> "close", name |-> name, space |-> space])
  /\ LET matches == stack # <<>> /\ Last(stack) = [name |-> name, space |-> space]
     IN  \/ ~matches /\ Refuse("invalid")
         \/ /\ matches
            /\ stack' = Front(stack)
            /\ Tell(IF InExtension THEN [kind |-> "ignored", attributes |-> -1]
                    ELSE [kind |-> "end", name |-> name, depth |-> Len(stack) - 1])
            /\ UNCHANGED roots

(* Text and CDATA: only blank text, and no CDATA, is outside the root.     *)
Text(text, cdata) ==
  /\ Read([kind |-> IF cdata THEN "cdata" ELSE "text", text |-> text])
  /\ \/ stack = <<>> /\ (cdata \/ text = "word") /\ Refuse("invalid")
     \/ /\ stack = <<>> /\ ~cdata /\ text # "word"
        /\ UNCHANGED <<stack, roots, visit, tree, loader, records>>
     \/ /\ stack # <<>>
        /\ Tell(IF InExtension THEN [kind |-> "ignored", attributes |-> -1]
                ELSE [kind |-> "text", text |-> text, depth |-> Len(stack)])
        /\ UNCHANGED <<stack, roots>>

DocType == Read([kind |-> "doctype"]) /\ Refuse("unsupported")
ReadFails == Read([kind |-> "malformed"]) /\ Refuse("invalid")

Eof ==
  /\ Read([kind |-> "eof"])
  /\ \/ (roots # 1 \/ stack # <<>>) /\ Refuse("invalid")
     \/ /\ roots = 1 /\ stack = <<>>
        /\ visit' = "ok"
        /\ tree' = Parsed(tree)
        /\ loader' = Found(loader)
        /\ records' = Collected(records)
        /\ UNCHANGED <<stack, roots>>
-----------------------------------------------------------------------------
Count(kinds) == Cardinality({i \in DOMAIN events : events[i].kind \in kinds})
Small == Count({"start", "empty", "text", "cdata"}) < MaxParts
(* CDATA differs from text outside the root only. *)
Forms == IF stack = <<>> THEN BOOLEAN ELSE {FALSE}
Next ==
  \/ \E tag \in Tags, empty \in BOOLEAN :
       Small /\ Count({"start", "empty"}) < MaxElements /\ Element(tag, empty)
  \/ \E pair \in {<<tag.name, tag.space>> : tag \in Tags} : End(pair[1], pair[2])
  \/ \E text \in {"word", "blank"}, cdata \in Forms : Small /\ Text(text, cdata)
  \/ DocType
  \/ ReadFails
  \/ Eof
Spec == Init /\ [][Next]_vars
-----------------------------------------------------------------------------
(* What a document says, read off its events as a whole.                   *)

Opens(i) == events[i].kind \in {"start", "empty"}
Nests(i) == events[i].kind = "start"
Closes(i) == events[i].kind = "close"
Says(i) == events[i].kind \in {"text", "cdata"}
Opened == {i \in DOMAIN events : Opens(i)}
Depth(i) == Cardinality({j \in 1..(i - 1) : Nests(j)})
            - Cardinality({j \in 1..(i - 1) : Closes(j)})
(* The elements that are open before event i.                              *)
Around(i) == {j \in 1..(i - 1) : Nests(j) /\ \A k \in (j + 1)..i : Depth(k) > Depth(j)}
Parent(i) == IF Around(i) = {} THEN None ELSE Max(Around(i))
Foreign(i) == \E j \in Around(i) \cup {i} : Opens(j) /\ ~IsCore(events[j].tag.space)
Inner == {i \in DOMAIN events : ~Foreign(i)}
CoreElements == {i \in Inner : Opens(i)}
Number(i) == Cardinality({j \in CoreElements : j <= i})

(* The numbers of a set, from the least to the greatest.                   *)
Ordered(s) == \A k, l \in DOMAIN s : k < l => s[k] < s[l]
Listing(S) == CHOOSE s \in [1..Cardinality(S) -> S] : Ordered(s)

Children(i) == {j \in CoreElements : Parent(j) = i}
Kids(i) == [k \in 1..Cardinality(Children(i)) |-> Number(Listing(Children(i))[k])]
Texts(i) == {j \in Inner : Says(j) /\ Parent(j) = i}
TextOf(i) == [k \in 1..Cardinality(Texts(i)) |-> events[Listing(Texts(i))[k]].text]

InPlace(i) ==
  LET e == events[i]
  IN  \/ /\ Opens(i) /\ e.tag.space # "unknown" /\ e.tag.fault # "attribute"
         /\ Depth(i) = 0 =>
              /\ e.tag.name = "xisf" /\ IsCore(e.tag.space)
              /\ \A j \in 1..(i - 1) : ~Opens(j)
         /\ IsCore(e.tag.space) \/ Depth(i) = 1 \/ Foreign(Parent(i))
      \/ /\ e.kind = "close" /\ Parent(i) # None
         /\ events[Parent(i)].tag.name = e.name
         /\ events[Parent(i)].tag.space = e.space
      \/ Says(i) /\ Depth(i) > 0
      \/ e.kind = "text" /\ e.text = "blank"
      \/ e.kind = "eof" /\ Depth(i) = 0 /\ \E j \in 1..(i - 1) : Opens(j)

Standing == visit \in {"open", "ok"}

(* A visit goes on as long as the next event is in its place, and succeeds *)
(* exactly for a document that is balanced, with one core root and         *)
(* extensions only below it (structural.rs:295-313).                       *)
VisitIsRight == events # <<>> => (Standing <=> InPlace(Len(events)))

(* The tree of the validator is the document's: each core element once and *)
(* in order, below the element that encloses it, with the text directly in *)
(* it, and nothing of an extension (parse of validation/xisf.rs).          *)
TreeIsTheDocument ==
  Standing /\ tree.verdict \in {"open", "ok"} =>
    /\ Len(tree.nodes) = Cardinality(CoreElements)
    /\ \A i \in CoreElements :
         LET node == tree.nodes[Number(i)]
         IN  /\ node.tag = events[i].tag
             /\ node.parent = Number(Parent(i))
             /\ node.children = Kids(i)
             /\ node.text = TextOf(i)

(* Every element has been paid for before it is kept, those of extensions  *)
(* included, and a document is refused only when it does not fit.          *)
BudgetCoversTheDocument ==
  LET opened == Cardinality(Opened)
      cost == opened + Total([i \in Opened |-> Cardinality(events[i].tag.attrs)])
  IN  Standing =>
        /\ tree.verdict \in {"open", "ok"} =>
             /\ tree.structures = opened /\ tree.memory = cost
             /\ tree.structures <= tree.limit /\ tree.memory <= Room
        /\ tree.verdict = "limit" => opened > tree.limit \/ cost > Room

(* What the value of a Property is: its attribute, or the text directly in *)
(* it unless that is blank and only separates the elements inside.         *)
Value(i) ==
  IF "value" \in events[i].tag.attrs THEN <<"attr">>
  ELSE IF ~Significant(TextOf(i)) /\ Children(i) # {} THEN <<>>
  ELSE TextOf(i)
Closed(i) == events[i].kind = "empty" \/ i \notin Around(Len(events) + 1)

(* The three consumers agree on one document: each closed Property has the *)
(* value the tree gives it, the images are those of the tree, and the      *)
(* loader's is the first of them (xisf.rs:603-748).                        *)
ConsumersAgree ==
  LET images == {i \in CoreElements : events[i].tag.name = "Image"}
      properties == {i \in CoreElements : events[i].tag.name = "Property"}
  IN  Standing =>
        /\ records.verdict \in {"open", "ok"} =>
             /\ ToSet(records.images) = images
             /\ {records.properties[k].at : k \in DOMAIN records.properties}
                  = {i \in properties : Closed(i)}
             /\ \A k \in DOMAIN records.properties :
                  LET p == records.properties[k] IN p.value = Value(p.at)
        /\ loader.verdict \in {"open", "ok"} =>
             loader.image = IF images = {} THEN None ELSE Min(images)
        /\ loader.verdict = "ok" /\ tree.verdict = "ok" =>
             tree.nodes[Number(loader.image)].name = "Image"
        /\ visit = "ok" /\ images # {} /\ tree.verdict = "ok" => loader.verdict = "ok"
=============================================================================
