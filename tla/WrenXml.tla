------------------------------- MODULE WrenXml -------------------------------
(***************************************************************************)
(* The XML trees that Wren scripts edit (tweaker/wrenxml.cpp).  A          *)
(* WXMLDocument owns a tree of mxml nodes; a WXMLNode is the one handle a  *)
(* document keeps for a node of its tree; Wren objects point to WXMLNodes  *)
(* and are counted by their usages.  The Wren garbage collector releases   *)
(* objects at any time.  The order of siblings, names, attributes and      *)
(* texts are left out.  0 is the null pointer.                             *)
(***************************************************************************)
EXTENDS Naturals, FiniteSets, FiniteSetsExt, TLC

CONSTANTS
    MaxNodes,    \* bound: mxml nodes ever allocated
    MaxDocs,     \* bound: documents ever allocated
    MaxHandles,  \* bound: WXMLNodes at a time
    MaxUsages    \* bound: Wren objects for one WXMLNode

ASSUME WrenXmlAssumption ==
    {MaxNodes, MaxDocs, MaxHandles, MaxUsages} \subseteq Nat \ {0}

VARIABLES
    mxml,      \* mxml[n]: "unused", "live" or "freed"
    parent,    \* parent[n]: the parent of mxml node n
    doc,       \* doc[d]: life, root_node and nodes of WXMLDocument d
    wxml,      \* wxml[h]: root, handle and usages of WXMLNode h, and whether
               \* scripts have an object for it
    xmlState   \* "running", "exited", or "undefined": memory that is gone or
               \* was never there has been used

xmlVars == <<mxml, parent, doc, wxml, xmlState>>

Null == 0
XmlNodes == 1..MaxNodes
Docs == 1..MaxDocs
Handles == 1..MaxHandles
Life == {"unused", "live", "freed"}

Unused(life) == {x \in DOMAIN life : life[x] = "unused"}
UnusedDocs == {d \in Docs : doc[d].life = "unused"}
UnusedHandles == {h \in Handles : wxml[h].usages = 0}
Objects == {h \in Handles : wxml[h].usages > 0}

(* The nodes from n up to the top of its tree, n included. *)
AncestorsOf(n) ==
    LET up[k \in 0..MaxNodes] ==
          IF k = 0 THEN {n}
          ELSE up[k - 1] \cup {parent[m] : m \in up[k - 1] \ {Null}}
    IN up[MaxNodes] \ {Null}
Subtree(n) == {m \in XmlNodes : n \in AncestorsOf(m)}

Open(h) == wxml[h].root # Null
HasParent(h) == wxml[h].handle # Null /\ parent[wxml[h].handle] # Null
Dangling(h) == Open(h) /\ doc[wxml[h].root].life # "live"
(* A call that fails leaves an object that scripts do not get, since its   *)
(* fiber is aborted; the collector finds it.                               *)
Held == {h \in Objects : wxml[h].held}
NoNode == [root |-> Null, handle |-> Null, usages |-> 0, held |-> FALSE]

XmlInit ==
    /\ mxml = [n \in XmlNodes |-> "unused"]
    /\ parent = [n \in XmlNodes |-> Null]
    /\ doc = [d \in Docs |-> [life |-> "unused", root_node |-> Null,
                              nodes |-> <<>>]]
    /\ wxml = [h \in Handles |-> NoNode]
    /\ xmlState = "running"

-----------------------------------------------------------------------------

Undefined ==
    /\ xmlState' = "undefined"
    /\ UNCHANGED <<mxml, parent, doc, wxml>>

(* A new Wren object for node n of document d of docs: the document's      *)
(* WXMLNode for it, or a new one.                                          *)
NewObject(docs, d, n, held) ==
    IF n \in DOMAIN docs[d].nodes
    THEN /\ wxml[docs[d].nodes[n]].usages < MaxUsages
         /\ wxml' = [wxml EXCEPT ![docs[d].nodes[n]].usages = @ + 1]
         /\ doc' = docs
    ELSE /\ UnusedHandles # {}
         /\ LET h == Min(UnusedHandles) IN
            /\ wxml' = [wxml EXCEPT ![h] = [root |-> d, handle |-> n,
                                            usages |-> 1, held |-> held]]
            /\ doc' = [docs EXCEPT ![d].nodes = (n :> h) @@ @]

(* XMLNode_create puts the class XML in the slot of the receiver and then  *)
(* allocates.  If nothing else refers to the receiver, the collector may   *)
(* release it there and, with the last object of the document, delete the  *)
(* document that GetNode is called on next.                                *)
ReceiverCollected(h) ==
    /\ Open(h) /\ wxml[h].usages = 1
    /\ DOMAIN doc[wxml[h].root].nodes = {wxml[h].handle}
    /\ Undefined

(* WXMLDocument(text) and the object for its root. *)
NewDocument ==
    /\ UnusedDocs # {} /\ Unused(mxml) # {}
    /\ LET d == Min(UnusedDocs)
           n == Min(Unused(mxml))
       IN /\ mxml' = [mxml EXCEPT ![n] = "live"]
          /\ NewObject([doc EXCEPT ![d].life = "live", ![d].root_node = n],
                       d, n, TRUE)
    /\ UNCHANGED <<parent, xmlState>>

(* A text without elements, as an empty one, is no error to mxml: the      *)
(* document has no root, and a WXMLNode without a node.                    *)
EmptyDocument(held) ==
    /\ UnusedDocs # {}
    /\ LET d == Min(UnusedDocs)
       IN NewObject([doc EXCEPT ![d].life = "live"], d, Null, held)
    /\ UNCHANGED <<mxml, parent, xmlState>>

(* XML.new: a text that cannot be parsed ends the process, one without     *)
(* elements the fiber: "Uncaught parse error!".                            *)
allocateXML ==
    \/ NewDocument
    \/ EmptyDocument(FALSE)
    \/ /\ xmlState' = "exited"
       /\ UNCHANGED <<mxml, parent, doc, wxml>>

(* XML.try_parse of a text that cannot be parsed: the document has no root *)
(* and a WXMLNode without a node; finalizeXML is given that WXMLNode in    *)
(* place of the Wren object, takes its first field, the document, for a    *)
(* WXMLNode, and frees it.  The object stays and is collected later.       *)
ParseFails ==
    /\ UnusedDocs # {} /\ UnusedHandles # {}
    /\ LET d == Min(UnusedDocs)
           h == Min(UnusedHandles)
       IN /\ doc' = [doc EXCEPT ![d].life = "freed"]
          /\ wxml' = [wxml EXCEPT ![h] = [root |-> d, handle |-> Null,
                                          usages |-> 1, held |-> FALSE]]
    /\ UNCHANGED <<mxml, parent, xmlState>>

(* Only an error gives the script null. *)
XMLtry_parse == NewDocument \/ EmptyDocument(TRUE) \/ ParseFails

(* ~WXMLDocument: its WXMLNodes are closed and its tree is freed. *)
DeleteDocument(d, docs, nodes) ==
    LET tree == IF docs[d].root_node = Null THEN {}
                ELSE Subtree(docs[d].root_node)
    IN /\ wxml' = [h \in Handles |->
                     IF h \in {docs[d].nodes[n] : n \in DOMAIN docs[d].nodes}
                     THEN [nodes[h] EXCEPT !.root = Null, !.handle = Null]
                     ELSE nodes[h]]
       /\ doc' = [docs EXCEPT ![d] = [life |-> "freed", root_node |-> Null,
                                      nodes |-> <<>>]]
       /\ mxml' = [n \in XmlNodes |-> IF n \in tree THEN "freed" ELSE mxml[n]]

(* Broken: a document without handles is kept. *)
NeverLast(nodes) == FALSE

LastReleased(nodes) == DOMAIN nodes = {}

(* The garbage collector finalizes a Wren object: WXMLNode::Release. *)
finalizeXML(h) ==
    LET d == wxml[h].root
        rest == [n \in DOMAIN doc[d].nodes \ {wxml[h].handle} |->
                    doc[d].nodes[n]]
        released == [doc EXCEPT ![d].nodes = rest]
        gone == [wxml EXCEPT ![h] = NoNode]
    IN IF wxml[h].usages > 1
       THEN /\ wxml' = [wxml EXCEPT ![h].usages = @ - 1]
            /\ UNCHANGED <<mxml, parent, doc, xmlState>>
       ELSE \/ /\ ~Open(h)
               /\ wxml' = gone
               /\ UNCHANGED <<mxml, parent, doc, xmlState>>
            \/ Dangling(h) /\ Undefined
            \/ /\ Open(h) /\ ~Dangling(h)
               /\ IF LastReleased(rest)
                  THEN DeleteDocument(d, released, gone)
                  ELSE wxml' = gone /\ doc' = released /\ mxml' = mxml
               /\ UNCHANGED <<parent, xmlState>>

XMLNode_delete(h) ==
    /\ Open(h)
    /\ \/ Dangling(h) /\ Undefined
       \/ /\ ~Dangling(h)
          /\ DeleteDocument(wxml[h].root, doc, wxml)
          /\ UNCHANGED <<parent, xmlState>>

(* The getters of strings: the error of an object without a node does not  *)
(* end the function, which hands Wren the null pointer as a string.        *)
XMLNode_name(h) ==
    /\ wxml[h].handle = Null
    /\ Undefined

(* Without a node to put it in, the new one is in no tree.                 *)
XMLNode_create_element(h) ==
    \/ (~Open(h) \/ Dangling(h)) /\ Undefined
    \/ ReceiverCollected(h)
    \/ /\ Open(h) /\ ~Dangling(h) /\ Unused(mxml) # {}
       /\ LET n == Min(Unused(mxml)) IN
          /\ mxml' = [mxml EXCEPT ![n] = "live"]
          /\ parent' = [parent EXCEPT ![n] = wxml[h].handle]
          /\ NewObject(doc, wxml[h].root, n, wxml[h].handle # Null)
       /\ UNCHANGED xmlState

(* next, prev, parent, first_child and last_child. *)
Neighbours(n) ==
    {m \in XmlNodes : mxml[m] = "live" /\ m # n /\
        (parent[n] = m \/ parent[m] = n \/ (parent[m] = parent[n] /\
                                            parent[n] # Null))}
Navigate(h) ==
    /\ wxml[h].handle # Null
    /\ \E n \in Neighbours(wxml[h].handle) :
          \/ Dangling(h) /\ Undefined
          \/ ReceiverCollected(h)
          \/ /\ ~Dangling(h)
             /\ NewObject(doc, wxml[h].root, n, TRUE)
             /\ UNCHANGED <<mxml, parent, xmlState>>

(* Broken: the handles below the node stay behind. *)
MovedAlone(h) == {wxml[h].handle}

MovedNodes(h) ==
    {n \in DOMAIN doc[wxml[h].root].nodes \ {Null} :
        wxml[h].handle \in AncestorsOf(n)}

(* MoveToNewDocument: the WXMLNodes of the subtree go to a new document.   *)
(* The old one stays even if it is left without WXMLNodes.                 *)
XMLNode_detach(h) ==
    /\ HasParent(h)
    /\ \/ Dangling(h) /\ Undefined
       \/ /\ ~Dangling(h) /\ UnusedDocs # {}
          /\ LET old == wxml[h].root
                 d == Min(UnusedDocs)
                 nodes == doc[old].nodes
                 moved == MovedNodes(h)
             IN /\ doc' = [doc EXCEPT
                     ![d] = [life |-> "live", root_node |-> wxml[h].handle,
                             nodes |-> [n \in moved |-> nodes[n]]],
                     ![old].nodes = [n \in DOMAIN nodes \ moved |-> nodes[n]]]
                /\ wxml' = [g \in Handles |->
                     IF g \in {nodes[n] : n \in moved}
                     THEN [wxml[g] EXCEPT !.root = d] ELSE wxml[g]]
          /\ parent' = [parent EXCEPT ![wxml[h].handle] = Null]
          /\ UNCHANGED <<mxml, xmlState>>

(* A copy of the subtree in a new document; copy maps nodes to new ones.   *)
(* The copy of nothing is a document without a root, and the fiber is      *)
(* aborted: "Cannot create null XML Node".                                 *)
CloneOfNothing(h) == wxml[h].handle = Null /\ EmptyDocument(FALSE)

CloneTree(h) ==
    /\ wxml[h].handle # Null
    /\ UnusedDocs # {}
    /\ LET tree == Subtree(wxml[h].handle)
           d == Min(UnusedDocs)
           root == wxml[h].handle
       IN /\ Cardinality(Unused(mxml)) >= Cardinality(tree)
          /\ LET copy == CHOOSE f \in [tree -> Unused(mxml)] :
                            \A m, n \in tree : f[m] = f[n] => m = n
             IN /\ mxml' = [n \in XmlNodes |->
                     IF \E m \in tree : copy[m] = n THEN "live" ELSE mxml[n]]
                /\ parent' = [n \in XmlNodes |->
                     IF \E m \in tree \ {root} : copy[m] = n
                     THEN copy[parent[CHOOSE m \in tree : copy[m] = n]]
                     ELSE parent[n]]
                /\ NewObject([doc EXCEPT ![d].life = "live",
                                         ![d].root_node = copy[root]],
                             d, copy[root], TRUE)
    /\ UNCHANGED xmlState

XMLNode_clone(h) == CloneOfNothing(h) \/ CloneTree(h)

(* MergeInto and the deletion of the document that is merged: a document   *)
(* that is merged into itself loses its WXMLNodes.                         *)
Merged(old, new) ==
    [doc EXCEPT ![new].nodes = doc[old].nodes @@ @,
                ![old] = [life |-> "freed", root_node |-> Null, nodes |-> <<>>]]

(* The errors of a closed object and of a child that has a parent do not   *)
(* end the function.  All WXMLNodes of the child's document move.          *)
XMLNode_attach(h, c) ==
    LET old == wxml[c].root
        new == wxml[h].root
        nodes == doc[old].nodes
    IN \/ /\ ~Open(h) \/ ~Open(c) \/ Dangling(h) \/ Dangling(c)
          /\ Undefined
       \/ /\ Open(h) /\ Open(c) /\ ~Dangling(h) /\ ~Dangling(c)
          /\ parent' = IF wxml[h].handle = Null \/ wxml[c].handle = Null
                       THEN parent
                       ELSE [parent EXCEPT ![wxml[c].handle] = wxml[h].handle]
          /\ wxml' = [g \in Handles |->
               IF g \in {nodes[n] : n \in DOMAIN nodes}
               THEN [wxml[g] EXCEPT !.root = new] ELSE wxml[g]]
          /\ doc' = Merged(old, new)
          /\ UNCHANGED <<mxml, xmlState>>

XmlNext ==
    /\ xmlState = "running"
    /\ \/ allocateXML
       \/ XMLtry_parse
       \/ \E h \in Objects : finalizeXML(h)
       \/ \E h \in Held :
             \/ XMLNode_delete(h)
             \/ XMLNode_name(h)
             \/ XMLNode_create_element(h)
             \/ Navigate(h)
             \/ XMLNode_detach(h)
             \/ XMLNode_clone(h)
             \/ \E c \in Held : XMLNode_attach(h, c)

-----------------------------------------------------------------------------
(* Every variable keeps the shape its declaration gives it. *)
XmlTypeOK ==
    /\ mxml \in [XmlNodes -> Life]
    /\ parent \in [XmlNodes -> XmlNodes \cup {Null}]
    /\ wxml \in [Handles -> [root : Docs \cup {Null},
                             handle : XmlNodes \cup {Null}, usages : Nat,
                             held : BOOLEAN]]
    /\ \A d \in Docs :
          /\ doc[d].life \in Life
          /\ doc[d].root_node \in XmlNodes \cup {Null}
          /\ DOMAIN doc[d].nodes \subseteq XmlNodes \cup {Null}
          /\ \A n \in DOMAIN doc[d].nodes : doc[d].nodes[n] \in Handles
    /\ xmlState \in {"running", "exited", "undefined"}

LiveDocs == {d \in Docs : doc[d].life = "live"}
InTree(n, d) == doc[d].root_node # Null /\ n \in Subtree(doc[d].root_node)

(* A handle and its document know each other; it names a node of the       *)
(* document's tree, or none; every live node is in the tree of one         *)
(* document.                                                               *)
Consistent ==
    /\ xmlState # "undefined"
    /\ \A h \in Objects : Open(h) =>
          /\ wxml[h].root \in LiveDocs
          /\ wxml[h].handle \in DOMAIN doc[wxml[h].root].nodes
          /\ doc[wxml[h].root].nodes[wxml[h].handle] = h
          /\ wxml[h].handle = Null \/ InTree(wxml[h].handle, wxml[h].root)
    /\ \A d \in LiveDocs : \A n \in DOMAIN doc[d].nodes :
          LET h == doc[d].nodes[n]
          IN h \in Objects /\ wxml[h].root = d /\ wxml[h].handle = n
    /\ \A n \in XmlNodes : mxml[n] = "live" =>
          \E d \in LiveDocs :
             InTree(n, d) /\ \A e \in LiveDocs : InTree(n, e) => e = d

(* What a script must not do: use an object that has no node, being closed *)
(* or of a text without elements, attach a node that has a parent or is    *)
(* above its new parent, try to parse a text with errors.                  *)
Misuse ==
    \/ ParseFails
    \/ \E h \in Held :
          /\ wxml[h].handle = Null
          /\ XMLNode_name(h) \/ XMLNode_create_element(h)
    \/ \E h, c \in Held :
          /\ XMLNode_attach(h, c)
          /\ \/ wxml[h].handle = Null \/ wxml[c].handle = Null
             \/ HasParent(c)
             \/ wxml[h].root = wxml[c].root

(* Whatever scripts and the collector do in whatever order, handles,       *)
(* documents and trees stay in agreement, and nothing freed is used, until *)
(* a script makes one of the calls named by Misuse, or walks on from, or   *)
(* adds to, a temporary object that is the only one of its document, and   *)
(* the collector takes it in that very call.                               *)
OnlyMisuseBreaks ==
    [][Consistent => \/ Consistent'
                     \/ Misuse
                     \/ \E h \in Held : ReceiverCollected(h)]_xmlVars

Orphaned(d) == doc[d].life = "live" /\ doc[d].nodes = <<>>

(* A document is freed by the release of its last handle, so one without   *)
(* handles stays for ever: only detach leaves a document in that state.    *)
OnlyDetachLeaks ==
    [][\A d \in Docs : ~Orphaned(d) /\ Orphaned(d)' =>
          \E h \in Held : XMLNode_detach(h)]_xmlVars

(* wrenxml.cpp: "Cannot attach a node that already has a parent".  The     *)
(* refused call changes nothing.                                           *)
RefusedAttachIsHarmless ==
    [][\A h, c \in Held :
          (/\ XMLNode_attach(h, c)
           /\ Open(h) /\ Open(c) /\ HasParent(c))
          => UNCHANGED <<parent, doc, wxml>>]_xmlVars
=============================================================================
