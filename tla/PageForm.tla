------------------------------ MODULE PageForm ------------------------------
(***************************************************************************)
(* A form of a page: the fields getTag collects (InsInFondo, SetOption),   *)
(* the window HandleForm (src/core/handle.cpp) shows for them, and what is *)
(* sent when the user leaves it.                                           *)
(***************************************************************************)
EXTENDS Naturals, Sequences, FiniteSets

CONSTANTS
  FieldKinds,  \* what the page may hold: type, named, value, checked, and
               \* whether its name or value is too long for getTag
  Texts,       \* what a value may be, "" among them
  MaxFields    \* the 128 of getTag and InsInFondo

VARIABLES
  input,     \* form.input, in document order
  lost,      \* types of the fields InsInFondo had no room for
  method,    \* "get", "post" or "disabled"
  button,    \* the list HandleForm pushes to: its newest field first
  phase,     \* "parse", "closed", "form", "left"
  choice,    \* the submit button pressed, its place in `button`; 0 if none
  clicked,   \* places of the clicked buttons
  exiting,
  sent,      \* HandleForm returned 1
  fields     \* the body or the query: places of `button` and "&"

vars == <<input, lost, method, button, phase, choice, clicked, exiting, sent, fields>>

Init ==
  /\ input = <<>> /\ lost = {} /\ method \in {"get", "post"}
  /\ button = <<>> /\ phase = "parse" /\ choice = 0 /\ clicked = {}
  /\ exiting = FALSE /\ sent = FALSE /\ fields = <<>>

full == Len(input) >= MaxFields
InsInFondo(field) ==
  /\ input' = IF full THEN input ELSE Append(input, field)
  /\ lost' = IF full THEN lost \cup {field.type} ELSE lost

\* An <input> too many, or too long, disables the form and with it the rest of
\* its fields; a <textarea> is not looked at before it goes to the list.
AddField(field) ==
  /\ phase = "parse" /\ method # "disabled"
  /\ IF field.type # "textarea" /\ (full \/ field.long)
     THEN method' = "disabled" /\ UNCHANGED <<input, lost>>
     ELSE InsInFondo(field) /\ UNCHANGED method
  /\ UNCHANGED <<button, phase, choice, clicked, exiting, sent, fields>>

Shown(type) ==
  CASE type = "submit" -> "BUTTON"
    [] type \in {"text", "textarea"} -> "TEXT"
    [] type = "file" -> "UPLOAD"
    [] OTHER -> "none"      \* hidden, radio and unknown: no GuiButton

\* The fields HandleForm takes over: a radio button only if it is checked.
Kept == SelectSeq(input, LAMBDA f : f.type # "radio" \/ f.checked)
Reversed(seq) == [i \in DOMAIN seq |-> seq[Len(seq) + 1 - i]]

\* The url of a button is its name, "=", and the value if there is a name; the
\* box on the screen starts empty whatever the value is.
OpenForm ==
  /\ phase \in {"parse", "closed"} /\ input # <<>>
  /\ IF method = "disabled" THEN phase' = "closed" /\ UNCHANGED <<button, choice, clicked>>
     ELSE /\ phase' = "form" /\ choice' = 0 /\ clicked' = {}
          /\ button' = [i \in DOMAIN Reversed(Kept) |->
                          [outline |-> Shown(Reversed(Kept)[i].type), named |-> Reversed(Kept)[i].named,
                           text |-> IF Reversed(Kept)[i].named THEN Reversed(Kept)[i].value ELSE "",
                           label |-> ""]]
  /\ sent' = FALSE /\ fields' = <<>>
  /\ UNCHANGED <<input, lost, method, exiting>>

Click(i) ==
  /\ phase = "form" /\ button[i].outline # "none" /\ clicked' = clicked \cup {i}
  /\ UNCHANGED <<input, lost, method, button, phase, choice, exiting, sent, fields>>

RequestExit ==
  /\ ~exiting /\ exiting' = TRUE
  /\ UNCHANGED <<input, lost, method, button, phase, choice, clicked, sent, fields>>

\* One pass over the buttons: the keyboard starts with the label and replaces
\* what follows '='; of several submit buttons the one found last counts.
HandleClicks ==
  /\ phase = "form" /\ choice = 0 /\ clicked # {} /\ ~exiting
  /\ clicked' = {}
  /\ \E typed \in [{i \in clicked : button[i].outline = "TEXT"} -> Texts] :
       button' = [i \in DOMAIN button |->
                    IF i \in DOMAIN typed
                    THEN [button[i] EXCEPT !.label = typed[i], !.text = typed[i]] ELSE button[i]]
  /\ LET submits == {i \in clicked : button[i].outline = "BUTTON"}
     IN choice' = IF submits = {} THEN 0 ELSE CHOOSE i \in submits : \A j \in submits : j <= i
  /\ UNCHANGED <<input, lost, method, phase, exiting, sent, fields>>

\* Mutant: every submit button is sent.
TakesPart_AllButtons(i) == button[i].named \/ button[i].text # ""

\* The url is more than "=": the field has a name, or a text was typed.
TakesPart(i) ==
  /\ button[i].named \/ button[i].text # ""
  /\ button[i].outline \in {"none", "TEXT", "UPLOAD"} \/ i = choice

\* A pair is followed by '&' unless its field is the last of the list.
Body ==
  LET body[i \in 0..Len(button)] ==
        IF i = 0 THEN <<>>
        ELSE body[i - 1] \o (IF ~TakesPart(i) THEN <<>>
                             ELSE IF i < Len(button) THEN <<i, 0>> ELSE <<i>>)   \* 0 is '&'
  IN body[Len(button)]

noSubmit == \A i \in DOMAIN input : input[i].type # "submit"

\* A button was chosen, or B, or an exit: only the first sends the form, and
\* B does if the form has no button.
LeaveForm ==
  /\ phase = "form"
  /\ phase' = "left" /\ fields' = Body
  /\ sent' = (~exiting /\ (choice # 0 \/ noSubmit))
  /\ UNCHANGED <<input, lost, method, button, choice, clicked, exiting>>

\* The page is still there if nothing was sent.
BackToPage ==
  /\ phase = "left" /\ ~sent /\ ~exiting /\ phase' = "closed"
  /\ UNCHANGED <<input, lost, method, button, choice, clicked, exiting, sent, fields>>

Next ==
  \/ \E field \in FieldKinds : AddField(field)
  \/ OpenForm
  \/ \E i \in DOMAIN button : Click(i)
  \/ RequestExit
  \/ HandleClicks
  \/ LeaveForm
  \/ BackToPage

Spec == Init /\ [][Next]_vars

-----------------------------------------------------------------------------
(* Properties.                                                             *)

\* What is sent is the form as the user left it: every field that has a name
\* or was typed in once, with the text typed last, or its own value; the radio
\* button that was checked; of the submit buttons the chosen one alone; a pair
\* apart from the next; and of a form cut off at its limit nothing, unless what
\* it lost is a textarea (handle.cpp:206-295, htmlcxx.cpp:474-513).
SendsTheForm ==
  phase = "left" /\ sent =>
    LET pairs == SelectSeq(fields, LAMBDA i : i # 0)
        submit(i) == Kept[i].type = "submit"
        place(i) == Len(Kept) + 1 - i
        filled(i) == Kept[i].named \/ button[place(i)].label # ""
    IN /\ method # "disabled" /\ Len(input) <= MaxFields
       /\ lost \subseteq {"textarea"} /\ (lost # {} => Len(input) = MaxFields)
       /\ \A i \in DOMAIN input : input[i].long => input[i].type = "textarea"
       /\ Len(Kept) = Len(button)
       /\ \A i \in DOMAIN Kept :
            Cardinality({j \in DOMAIN pairs : pairs[j] = place(i)})
              = (IF filled(i) /\ (submit(i) => place(i) = choice) THEN 1 ELSE 0)
       /\ \A i \in DOMAIN Kept :
            /\ button[place(i)].text \in {Kept[i].value, button[place(i)].label}
            /\ Kept[i].type \in {"hidden", "radio", "submit"} /\ Kept[i].named =>
                 button[place(i)].text = Kept[i].value
       /\ \A i \in DOMAIN button : button[i].label # "" => button[i].text = button[i].label
       /\ \A j \in 1..Len(fields) - 1 : fields[j] # 0 => fields[j + 1] = 0
       /\ noSubmit \/ choice # 0
=============================================================================
