------------------------------ MODULE Markdown ------------------------------
(***************************************************************************)
(* format.renderMarkdown: lines of Markdown become blocks of HTML.  A line *)
(* matters by how it begins; what stands in a line is abstracted.          *)
(***************************************************************************)
EXTENDS Integers, Sequences

CONSTANTS Kinds,        \* the kinds of line the input may have
          MaxLength     \* bound: lines in the input

ASSUME KindsAssumption ==
    Kinds \subseteq {"fence",    \* ``` and what follows
                     "heading",  \* one to six #, and then a space or nothing
                     "hash",     \* any other line that begins with #
                     "rule",     \* --- and its like
                     "quote",    \* "> "
                     "item",     \* "- " or "* "
                     "number",   \* "1. one", with any digit but 0
                     "zero",     \* "0. one"
                     "cut",      \* "1.a. b": a digit, "." and more, with ". " further on
                     "digit",    \* "3.14 pi": the same without ". " anywhere
                     "blank",
                     "text"}

VARIABLES input,        \* the lines
          pos,          \* the line looked at, counted from 1
          block,        \* the block that is being written
          html,         \* the lines whose text is in the output, in order
          shortened     \* the lines whose text is not all there

mdvars == <<input, pos, block, html, shortened>>

MarkdownInit == /\ input \in UNION {[1 .. n -> Kinds] : n \in 0 .. MaxLength}
                /\ pos = 1
                /\ block = "none"
                /\ html = <<>>
                /\ shortened = {}

AtEnd == pos > Len(input)

\* The outer loop: a block of one line, or the beginning of a longer one.
SingleLine == /\ block = "none" /\ ~AtEnd
              /\ input[pos] \in {"heading", "rule", "blank"}
              /\ pos' = pos + 1
              /\ html' = IF input[pos] = "heading" THEN Append(html, pos) ELSE html
              /\ UNCHANGED <<input, block, shortened>>

Opens == [fence |-> "code", quote |-> "blockquote", item |-> "ul", number |-> "ol",
          zero |-> "p", cut |-> "p", digit |-> "p", text |-> "p", hash |-> "p"]

\* The opening line of a code block is not part of it.
OpenBlock == /\ block = "none" /\ ~AtEnd
             /\ input[pos] \in DOMAIN Opens
             /\ block' = Opens[input[pos]]
             /\ pos' = IF input[pos] = "fence" THEN pos + 1 ELSE pos
             /\ UNCHANGED <<input, html, shortened>>

\* What an ordered list takes: any digit and a dot.
ListLines == {"number", "zero", "cut", "digit"}

\* A faulty form: the list that an item opens does not take the item.
Continues_OverItems(b, kind) ==
    CASE b = "code"       -> kind # "fence"
      [] b = "blockquote" -> kind = "quote"
      [] b = "ul"         -> FALSE
      [] b = "ol"         -> kind \in ListLines
      [] b = "p"          -> kind \in ListLines \cup {"rule", "text"}

\* The inner loops: which lines go on with the block.
Continues(b, kind) ==
    CASE b = "code"       -> kind # "fence"
      [] b = "blockquote" -> kind = "quote"
      [] b = "ul"         -> kind = "item"
      [] b = "ol"         -> kind \in ListLines
      [] b = "p"          -> kind \in ListLines \cup {"rule", "text"}

BlockOver == IF AtEnd THEN TRUE ELSE ~Continues(block, input[pos])

\* A list item begins after the first ". " of its line; a line that has none is
\* left out.
InBlock == /\ block # "none" /\ ~BlockOver
           /\ html' = IF block = "ol" /\ input[pos] = "digit" THEN html ELSE Append(html, pos)
           /\ shortened' = IF block = "ol" /\ input[pos] \in {"cut", "digit"}
                           THEN shortened \cup {pos} ELSE shortened
           /\ pos' = pos + 1
           /\ UNCHANGED <<input, block>>

\* A faulty form: the line that ends a block is taken for its closing line.
CloseBlock_TakesLine == /\ block # "none"
                        /\ BlockOver
                        /\ block' = "none"
                        /\ pos' = pos + 1
                        /\ UNCHANGED <<input, html, shortened>>

\* The closing line of a code block is consumed, if there is one.
CloseBlock == /\ block # "none"
              /\ BlockOver
              /\ block' = "none"
              /\ pos' = IF block = "code" THEN pos + 1 ELSE pos
              /\ UNCHANGED <<input, html, shortened>>

MarkdownNext == SingleLine \/ OpenBlock \/ InBlock \/ CloseBlock

\* Nothing but the renderer itself can stop it.
MarkdownFairness == WF_mdvars(MarkdownNext)

MarkdownSpec == MarkdownInit /\ [][MarkdownNext]_mdvars /\ MarkdownFairness

-----------------------------------------------------------------------------
Done == block = "none" /\ AtEnd

HasText(kind) == kind \notin {"fence", "blank", "rule"}

\* A line of an ordered list that "1. one" opened, and went on to here.
InList(k) == \E j \in 1 .. k - 1 : /\ input[j] = "number"
                                   /\ \A i \in j .. k : input[i] \in ListLines

\* The output holds the text of the lines in their order, none of them twice,
\* and at the end none is missing, whichever blocks follow each other.  Only in
\* an ordered list is text lost: of "3.14 pi" there all of it, of "1.a. b" what
\* stands before the "b"; a paragraph keeps both.
EachLineOnce ==
    /\ \A k \in 1 .. Len(html) - 1 : html[k] < html[k + 1]
    /\ Done => \A k \in DOMAIN input :
                  HasText(input[k]) => \/ \E l \in DOMAIN html : html[l] = k
                                       \/ input[k] = "digit" /\ k \in shortened
    /\ \A k \in shortened : input[k] \in {"cut", "digit"} /\ InList(k)

\* The renderer goes through the lines once and ends.
RenderEnds == <>Done
=============================================================================
