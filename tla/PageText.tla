------------------------------ MODULE PageText ------------------------------
(***************************************************************************)
(* What the page reader makes of an HTML document (_ReadableHTMLParser of  *)
(* ai.web_reader): a state machine over start tags, end tags and texts     *)
(* that keeps counters and flags instead of a stack of open elements.  The *)
(* document is the environment: any sequence of tags that closes what it   *)
(* opened, in order.  A text is a number; its words are not looked at.     *)
(***************************************************************************)
EXTENDS Integers, Sequences, SequencesExt, FiniteSets

CONSTANTS
    Ignored,        \* script, style, svg, ...
    Preferred,      \* main, article
    Headings,       \* h1 to h6
    Anchors,        \* a elements, by their address
    Plain,          \* any other element
    MaxLinks, MaxHeadings,  \* settings
    MaxOpen, MaxTokens      \* bounds of the document

PageAssumption ==
    /\ {MaxLinks, MaxHeadings, MaxOpen, MaxTokens} \subseteq Nat
    /\ Ignored \intersect Preferred = {}

Tags == Ignored \union Preferred \union Headings \union Anchors \union Plain

VARIABLES
    open,           \* the document's open elements
    tokens,         \* tokens read
    visible,        \* history: <<text, elements it lies in>>, the texts to be seen
    ignoredDepth, preferredDepth,
    all, preferred, \* the texts kept, in order
    heading, headingText, headings,     \* level being read, its texts, those done
    link, linkText, links       \* address being read, its texts, those done

documentvars == <<open, tokens, visible>>
parservars == <<ignoredDepth, preferredDepth, all, preferred, heading, headingText, headings,
                link, linkText, links>>
pagevars == <<documentvars, parservars>>

Nothing == "none"

Init ==
    /\ open = <<>> /\ tokens = 0 /\ visible = {}
    /\ ignoredDepth = 0 /\ preferredDepth = 0 /\ all = <<>> /\ preferred = <<>>
    /\ heading = Nothing /\ headingText = <<>> /\ headings = <<>>
    /\ link = Nothing /\ linkText = <<>> /\ links = <<>>

Token == tokens < MaxTokens /\ tokens' = tokens + 1

\* Mutant of StartPreferred: counted also inside an ignored element.
StartPreferredFirst(tag) ==
    preferredDepth' = IF tag \in Preferred THEN preferredDepth + 1 ELSE preferredDepth

\* A main or article begins, outside every ignored element.
StartPreferred(tag) ==
    preferredDepth' = IF tag \in Preferred /\ ignoredDepth = 0
                      THEN preferredDepth + 1 ELSE preferredDepth

\* An element that is neither ignored nor inside an ignored one.
Shown(tag) == tag \notin Ignored /\ ignoredDepth = 0

(* handle_starttag.                                                        *)
Start(tag) ==
    /\ Token /\ Len(open) < MaxOpen
    /\ open' = Append(open, tag)
    /\ ignoredDepth' = IF tag \in Ignored THEN ignoredDepth + 1 ELSE ignoredDepth
    /\ StartPreferred(tag)
    /\ IF Shown(tag) /\ tag \in Headings THEN heading' = tag /\ headingText' = <<>>
                                         ELSE UNCHANGED <<heading, headingText>>
    /\ IF Shown(tag) /\ tag \in Anchors THEN link' = tag /\ linkText' = <<>>
                                        ELSE UNCHANGED <<link, linkText>>
    /\ UNCHANGED <<visible, all, preferred, headings, links>>

\* What is done when a heading or a link ends, up to the limits, links once each.
EndHeading ==
    /\ headings' = IF headingText # <<>> /\ Len(headings) < MaxHeadings
                   THEN Append(headings, <<heading, headingText>>) ELSE headings
    /\ heading' = Nothing /\ headingText' = <<>>

EndLink ==
    /\ links' = IF Len(links) < MaxLinks /\ \A n \in DOMAIN links : links[n][1] # link
                THEN Append(links, <<link, linkText>>) ELSE links
    /\ link' = Nothing /\ linkText' = <<>>

(* handle_endtag.                                                          *)
End(tag) ==
    /\ Token /\ open # <<>> /\ tag = Last(open)
    /\ open' = Front(open)
    /\ ignoredDepth' = IF tag \in Ignored THEN ignoredDepth - 1 ELSE ignoredDepth
    /\ preferredDepth' = IF tag \in Preferred /\ ignoredDepth = 0
                         THEN preferredDepth - 1 ELSE preferredDepth
    /\ IF Shown(tag) /\ tag = heading THEN EndHeading
                                      ELSE UNCHANGED <<heading, headingText, headings>>
    /\ IF Shown(tag) /\ tag \in Anchors /\ link # Nothing
       THEN EndLink ELSE UNCHANGED <<link, linkText, links>>
    /\ UNCHANGED <<visible, all, preferred>>

(* handle_data.                                                            *)
Text ==
    /\ Token
    /\ LET text == tokens
           Kept(parts, keep) == IF ignoredDepth = 0 /\ keep THEN Append(parts, text) ELSE parts
       IN  /\ visible' = IF ToSet(open) \intersect Ignored = {}
                         THEN visible \union {<<text, ToSet(open)>>} ELSE visible
           /\ all' = Kept(all, TRUE)
           /\ preferred' = Kept(preferred, preferredDepth > 0)
           /\ headingText' = Kept(headingText, heading # Nothing)
           /\ linkText' = Kept(linkText, link # Nothing)
    /\ UNCHANGED <<open, ignoredDepth, preferredDepth, heading, headings, link, links>>

Next == (\E tag \in Tags : Start(tag) \/ End(tag)) \/ Text

Spec == Init /\ [][Next]_pagevars

\* readable_text.
ReadableText == IF preferred # <<>> THEN preferred ELSE all
-----------------------------------------------------------------------------
TypeOK ==
    /\ open \in Seq(Tags) /\ {ignoredDepth, preferredDepth} \subseteq 0..MaxOpen
    /\ heading \in Headings \union {Nothing} /\ link \in Anchors \union {Nothing}

\* The part is these texts, each of them once and in the order of the document.
Lists(part, texts) ==
    /\ ToSet(part) = {v[1] : v \in texts}
    /\ \A i, j \in DOMAIN part : i < j => part[i] < part[j]
Inside(tags) == {v \in visible : v[2] \intersect tags # {}}

\* For a document that closes what it opens, the counters of the parser do the work
\* of a stack: nothing inside a script, style or svg element is read, nothing else is
\* lost, and when a main or article has text it is all of its text and no other
\* (_ReadableHTMLParser, readable_text).
TextIsVisible ==
    /\ Lists(all, visible) /\ Lists(preferred, Inside(Preferred))
    /\ Lists(ReadableText, IF Inside(Preferred) # {} THEN Inside(Preferred) ELSE visible)
    /\ \A n \in DOMAIN links : ToSet(links[n][2]) \subseteq ToSet(all)
    /\ open = <<>> => ignoredDepth = 0 /\ preferredDepth = 0 /\ heading = Nothing
=============================================================================
