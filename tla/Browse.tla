------------------------------- MODULE Browse -------------------------------
(***************************************************************************)
(* One page after another: MenuBrowse's loop (src/ui/menu.cpp), the page   *)
(* it displays (src/html_parser/html.cpp, src/core/handle.cpp), the POST   *)
(* body handed from a form to the next load (src/network/httplib.cpp) and  *)
(* the thread that fetches the images of the page.  Three actors share the *)
(* GUI lock: the menu thread, the GUI thread that turns the user's clicks  *)
(* into button states, and the image thread.  A critical section of the    *)
(* lock is one step.                                                       *)
(***************************************************************************)
EXTENDS Naturals, Sequences, SequencesExt, FiniteSetsExt

CONSTANTS
  Urls,       \* addresses, as they stand in a page
  Http,       \* those httpUrl accepts
  Decoded,    \* what decode_html_entities_utf8 makes of an address
  Search,     \* omniBox's address
  NoUrl,
  Buttons,    \* the buttons of a page, as the list of buttons runs
  MaxImages,  \* images on a page
  Sizes,      \* bytes of a decoded image
  MaxImageBytes,
  MaxForms    \* forms submitted

ASSUME BrowseAssumption ==
  /\ Http \subseteq Urls /\ Search \in Http /\ NoUrl \notin Urls
  /\ Decoded \in [Urls -> Urls]
  /\ Buttons \in Seq([kind : {"link", "dead", "post"}, url : Urls])
  /\ Sizes \subseteq Nat \ {0}
  /\ MaxImages \in Nat /\ MaxImageBytes \in Nat /\ MaxForms \in Nat

VARIABLES
  pc,          \* the menu thread: "home", "jump", "prompt" (waiting for the
               \* network), "request", "answered", "sliding" (prompt leaves),
               \* "decide", "page", "leaving" (join), "off"
  exiting,     \* App_Exiting()
  url, searchWord,
  post,        \* the form whose body this load sends, 0 for a GET
  answer,      \* what the request returned
  cancel,      \* cancelButton is STATE_CLICKED
  requestCancelled,
  pending,     \* pendingUrl and the form of pendingBody
  link,        \* where the page leads
  clicked,     \* the buttons the GUI thread has clicked and no one has reset
  img,         \* the page's images, oldest first; data: bytes of its picture
  threadState, \* "run", "exit"
  worker,      \* the image thread, its image and the bytes it has installed
  forms,       \* submitted forms: their address and what became of them
  asked,       \* the form the menu thread leaves the page for
  clicks       \* when Cancel was clicked in this load: "none", "early", "late"

load == <<url, searchWord, post, answer, requestCancelled>>
page == <<link, clicked, img, threadState, worker>>
vars == <<pc, exiting, load, cancel, pending, page, forms, asked, clicks>>

NoPost == [url |-> NoUrl, form |-> 0]
Idle == [pc |-> "none", item |-> 0, bytes |-> 0]
Pages == {"web", "image"}

TypeOK ==
  /\ pc \in {"home", "jump", "prompt", "request", "answered", "sliding", "decide",
             "page", "leaving", "off"}
  /\ exiting \in BOOLEAN /\ searchWord \in BOOLEAN
  /\ cancel \in BOOLEAN /\ requestCancelled \in BOOLEAN
  /\ url \in Urls \cup {NoUrl} /\ link \in Urls \cup {NoUrl}
  /\ post \in 0..MaxForms /\ asked \in 0..MaxForms
  /\ answer \in Pages \cup {"none", "empty", "attachment", "other"}
  /\ pending \in [url : Urls \cup {NoUrl}, form : 0..MaxForms]
  /\ clicked \subseteq DOMAIN Buttons
  /\ img \in Seq([fetched : BOOLEAN, data : Sizes \cup {0}]) /\ Len(img) <= MaxImages
  /\ threadState \in {"run", "exit"}
  /\ worker \in [pc : {"none", "start", "loop", "fetch", "gone"}, item : 0..MaxImages,
                 bytes : 0..MaxImageBytes]
  /\ forms \in Seq([url : Urls, sent : 0..2, to : Urls \cup {NoUrl}])
  /\ Len(forms) <= MaxForms
  /\ clicks \in {"none", "early", "late"}

-----------------------------------------------------------------------------
Init ==
  /\ pc = "home" /\ exiting = FALSE
  /\ url = NoUrl /\ searchWord = TRUE /\ post = 0
  /\ answer = "none" /\ requestCancelled = FALSE
  /\ cancel = FALSE /\ pending = NoPost
  /\ link = NoUrl /\ clicked = {} /\ img = <<>> /\ threadState = "run" /\ worker = Idle
  /\ forms = <<>> /\ asked = 0 /\ clicks = "none"

(* The menu thread: one load.                                              *)

\* MenuBrowse is entered with the address of the address bar.
Go(u) ==
  /\ pc = "home" /\ ~exiting
  /\ url' = u /\ searchWord' = TRUE
  /\ pc' = "jump"
  /\ UNCHANGED <<exiting, post, answer, requestCancelled, cancel, pending, page, forms,
                 asked, clicks>>

\* jump: the prompt with its Cancel button is shown.
Jump ==
  /\ pc = "jump" /\ ~exiting
  /\ cancel' = FALSE /\ clicks' = "none"
  /\ url' = Decoded[url]
  /\ pc' = "prompt"
  /\ UNCHANGED <<exiting, searchWord, post, answer, requestCancelled, pending, page, forms,
                 asked>>

JumpHome ==
  /\ pc = "jump" /\ exiting
  /\ pc' = "home" /\ asked' = 0
  /\ UNCHANGED <<exiting, load, cancel, pending, page, forms, clicks>>

\* Mutant: a body that is not taken stays for a later load.
Take_Keeps ==
  /\ pc = "prompt"
  /\ post' = IF pending.url = url THEN pending.form ELSE 0
  /\ asked' = 0
  /\ pc' = "request"
  /\ UNCHANGED <<exiting, url, searchWord, answer, requestCancelled, cancel, pending, page,
                 forms, clicks>>

\* The wait for the network has ended, with or without one;
\* TakeNavigationPost.
Take ==
  /\ pc = "prompt"
  /\ post' = IF pending.url = url THEN pending.form ELSE 0
  /\ pending' = NoPost
  /\ asked' = 0
  /\ pc' = "request"
  /\ UNCHANGED <<exiting, url, searchWord, answer, requestCancelled, cancel, page, forms,
                 clicks>>

\* No network, an address httpUrl refuses, an exit or a click on Cancel
\* before anything was sent, a failed connection.
RequestUnsent ==
  /\ pc = "request"
  /\ answer' = "empty"
  /\ pc' = "answered"
  /\ UNCHANGED <<exiting, url, searchWord, post, requestCancelled, cancel, pending, page,
                 forms, asked, clicks>>

\* request: the body, if any, is sent; redirects are followed for a GET only,
\* and only a GET can end as an attachment.
Request(a, final) ==
  /\ pc = "request" /\ url \in Http
  /\ post # 0 => a # "attachment" /\ final = url
  /\ forms' = IF post = 0 THEN forms
                ELSE [forms EXCEPT ![post].sent = @ + 1, ![post].to = url]
  /\ answer' = a /\ url' = final
  /\ pc' = "answered"
  /\ UNCHANGED <<exiting, searchWord, post, requestCancelled, cancel, pending, page, asked,
                 clicks>>

\* Mutant: the click is not looked at once the answer is there.
ReadCancel_Ignored ==
  /\ pc = "answered"
  /\ requestCancelled' = (cancel /\ answer = "empty")
  /\ pc' = "sliding"
  /\ UNCHANGED <<exiting, url, searchWord, post, answer, cancel, pending, page, forms,
                 asked, clicks>>

ReadCancel ==
  /\ pc = "answered"
  /\ requestCancelled' = cancel
  /\ pc' = "sliding"
  /\ UNCHANGED <<exiting, url, searchWord, post, answer, cancel, pending, page, forms,
                 asked, clicks>>

\* The prompt has left the screen.
PromptGone ==
  /\ pc = "sliding"
  /\ pc' = IF requestCancelled \/ exiting THEN "home" ELSE "decide"
  /\ UNCHANGED <<exiting, load, cancel, pending, page, forms, asked, clicks>>

\* An attachment is offered to the download thread.
OfferDownload ==
  /\ pc = "decide" /\ answer = "attachment"
  /\ pc' = "home"
  /\ UNCHANGED <<exiting, load, cancel, pending, page, forms, asked, clicks>>

\* What could not be loaded is searched for, once.
TrySearch ==
  /\ pc = "decide" /\ answer = "empty" /\ searchWord /\ ~exiting
  /\ searchWord' = FALSE /\ url' = Search
  /\ pc' = "jump"
  /\ UNCHANGED <<exiting, post, answer, requestCancelled, cancel, pending, page, forms,
                 asked, clicks>>

Failed ==
  /\ pc = "decide" /\ answer = "empty" /\ (~searchWord \/ exiting)
  /\ pc' = "home"
  /\ UNCHANGED <<exiting, load, cancel, pending, page, forms, asked, clicks>>

-----------------------------------------------------------------------------
(* The menu thread: DisplayHTML.                                           *)

\* An HTML page gets an image thread, unless it cannot be created; a picture
\* and an answer of another type get none.
Display(started) ==
  /\ pc = "decide" /\ answer \in Pages \cup {"other"}
  /\ link' = NoUrl /\ clicked' = {} /\ img' = <<>> /\ threadState' = "run"
  /\ worker' = IF answer = "web" /\ started THEN [Idle EXCEPT !.pc = "start"] ELSE Idle
  /\ pc' = "page"
  /\ UNCHANGED <<exiting, load, cancel, pending, forms, asked, clicks>>

\* The next tag is an image: it is added and placed under the lock.
AddImage ==
  /\ pc = "page" /\ answer = "web" /\ ~exiting
  /\ Len(img) < MaxImages
  /\ img' = Append(img, [fetched |-> FALSE, data |-> 0])
  /\ UNCHANGED <<pc, exiting, load, cancel, pending, link, clicked, threadState, worker,
                 forms, asked, clicks>>

\* One clicked button, for a pass of the loop that stands at s; confirmed: the
\* forms HandleForm returned 1 for.
Press(s, b, confirmed) ==
  IF b \notin clicked THEN s
  ELSE CASE Buttons[b].kind = "dead" -> [s EXCEPT !.choice = 0]
         [] Buttons[b].kind = "link" ->
              [s EXCEPT !.choice = 1, !.link = Buttons[b].url, !.asked = 0]
         [] Buttons[b].kind = "post" /\ b \notin confirmed -> [s EXCEPT !.choice = 0]
         [] OTHER ->
              [choice |-> 1, link |-> Buttons[b].url, asked |-> Len(s.forms) + 1,
               pending |-> [url |-> Buttons[b].url, form |-> Len(s.forms) + 1],
               forms |-> Append(s.forms, [url |-> Buttons[b].url, sent |-> 0, to |-> NoUrl])]

\* One after another, as the list of buttons runs.
PressAll(s, confirmed) ==
  LET pressed[n \in 0..Len(Buttons)] ==
        IF n = 0 THEN s ELSE Press(pressed[n - 1], n, confirmed)
  IN pressed[Len(Buttons)]

\* Mutant: the image thread is not told.
Leave_Untold == UNCHANGED threadState

Leave == threadState' = "exit"

\* A pass of the display loop: the toolbar, or a refresh, may lead to u or,
\* with NoUrl, just off the page; then the clicked buttons.
Poll(bar, u, confirmed) ==
  /\ pc = "page" /\ answer \in Pages /\ ~exiting
  /\ bar \/ clicked # {}
  /\ confirmed \subseteq {b \in clicked : Buttons[b].kind = "post"}
  /\ Len(forms) + Cardinality(confirmed) <= MaxForms
  /\ LET start == [choice |-> IF bar THEN 1 ELSE 0,
                   link |-> IF bar /\ u # NoUrl THEN u ELSE link,
                   asked |-> 0, pending |-> pending, forms |-> forms]
         s == PressAll(start, confirmed)
     IN /\ link' = s.link /\ pending' = s.pending /\ forms' = s.forms
        /\ IF s.choice = 1 THEN pc' = "leaving" /\ asked' = s.asked /\ Leave
                           ELSE UNCHANGED <<pc, asked, threadState>>
  /\ clicked' = {}
  /\ UNCHANGED <<exiting, load, cancel, img, worker, clicks>>

\* The program is exiting, or the answer is of no type that is shown: a file
\* of no known type has been offered to the user, a text or a video is left
\* at once.
QuitPage ==
  /\ pc = "page" /\ (exiting \/ answer = "other")
  /\ Leave
  /\ pc' = "leaving" /\ asked' = 0
  /\ UNCHANGED <<exiting, load, cancel, pending, link, clicked, img, worker, forms, clicks>>

\* Mutant: the page is freed beside its image thread.
Joined_Not == TRUE

Joined == worker.pc \in {"none", "gone"}

\* The image thread has ended: the page is freed, and MenuBrowse follows the
\* link or returns.
Free ==
  /\ pc = "leaving" /\ Joined
  /\ worker' = IF worker.pc = "gone" THEN Idle ELSE worker
  /\ img' = <<>> /\ clicked' = {}
  /\ IF link \in Http THEN pc' = "jump" /\ url' = link /\ UNCHANGED asked
                      ELSE pc' = "home" /\ asked' = 0 /\ UNCHANGED url
  /\ link' = NoUrl
  /\ UNCHANGED <<exiting, searchWord, post, answer, requestCancelled, cancel, pending,
                 threadState, forms, clicks>>

-----------------------------------------------------------------------------
(* The image thread.                                                       *)

\* DownloadImage begins, or ends for want of a handle.
WorkerStart(handle) ==
  /\ worker.pc = "start"
  /\ worker' = [worker EXCEPT !.pc = IF handle THEN "loop" ELSE "gone"]
  /\ UNCHANGED <<pc, exiting, load, cancel, pending, link, clicked, img, threadState, forms,
                 asked, clicks>>

\* Mutant: only the newest image is looked at.
Unfetched_Newest == {i \in DOMAIN img : i = Len(img) /\ ~img[i].fetched}

Unfetched == {i \in DOMAIN img : ~img[i].fetched}

\* The list of images runs from the newest.
Pick ==
  /\ worker.pc = "loop" /\ threadState # "exit" /\ ~exiting
  /\ Unfetched # {}
  /\ LET i == Max(Unfetched) IN
       /\ img' = [img EXCEPT ![i].fetched = TRUE]
       /\ worker' = [worker EXCEPT !.pc = "fetch", !.item = i]
  /\ UNCHANGED <<pc, exiting, load, cancel, pending, link, clicked, threadState, forms,
                 asked, clicks>>

Fits(size) == size <= MaxImageBytes - worker.bytes

\* Mutant: the page is not asked whether it is still there.
Install_Late(size) ==
  /\ worker.pc = "fetch"
  /\ IF size # 0 /\ Fits(size)
       THEN /\ img' = [img EXCEPT ![worker.item].data = size]
            /\ worker' = [pc |-> "loop", item |-> 0, bytes |-> worker.bytes + size]
       ELSE worker' = [worker EXCEPT !.pc = "loop", !.item = 0] /\ UNCHANGED img
  /\ UNCHANGED <<pc, exiting, load, cancel, pending, link, clicked, threadState, forms,
                 asked, clicks>>

\* The request has ended, with a picture of that size or, 0, with none: it
\* failed, was cancelled or is no image.
Install(size) ==
  /\ worker.pc = "fetch"
  /\ IF threadState # "exit" /\ size # 0 /\ Fits(size)
       THEN /\ img' = [img EXCEPT ![worker.item].data = size]
            /\ worker' = [pc |-> "loop", item |-> 0, bytes |-> worker.bytes + size]
       ELSE worker' = [worker EXCEPT !.pc = "loop", !.item = 0] /\ UNCHANGED img
  /\ UNCHANGED <<pc, exiting, load, cancel, pending, link, clicked, threadState, forms,
                 asked, clicks>>

WorkerEnds ==
  /\ worker.pc = "loop" /\ (threadState = "exit" \/ exiting)
  /\ worker' = [worker EXCEPT !.pc = "gone"]
  /\ UNCHANGED <<pc, exiting, load, cancel, pending, link, clicked, img, threadState, forms,
                 asked, clicks>>

-----------------------------------------------------------------------------
(* The GUI thread and the user.                                            *)

ClickCancel ==
  /\ pc \in {"prompt", "request", "answered", "sliding"} /\ ~cancel
  /\ cancel' = TRUE
  /\ clicks' = IF pc \in {"prompt", "request"} THEN "early" ELSE "late"
  /\ UNCHANGED <<pc, exiting, load, pending, page, forms, asked>>

Click(b) ==
  /\ pc = "page" /\ answer = "web" /\ b \notin clicked
  /\ clicked' = clicked \cup {b}
  /\ UNCHANGED <<pc, exiting, load, cancel, pending, link, img, threadState, worker, forms,
                 asked, clicks>>

RequestExit ==
  /\ ~exiting /\ pc # "off"
  /\ exiting' = TRUE
  /\ UNCHANGED <<pc, load, cancel, pending, page, forms, asked, clicks>>

\* MainMenu returns and main ends the program.
Quit ==
  /\ pc = "home" /\ exiting
  /\ pc' = "off"
  /\ UNCHANGED <<exiting, load, cancel, pending, page, forms, asked, clicks>>

\* The program is started again.
Relaunch ==
  /\ pc = "off"
  /\ pc' = "home" /\ exiting' = FALSE
  /\ url' = NoUrl /\ searchWord' = TRUE /\ post' = 0
  /\ answer' = "none" /\ requestCancelled' = FALSE
  /\ cancel' = FALSE /\ pending' = NoPost
  /\ link' = NoUrl /\ clicked' = {} /\ img' = <<>> /\ threadState' = "run" /\ worker' = Idle
  /\ asked' = 0 /\ clicks' = "none"
  /\ UNCHANGED forms

Requested == RequestUnsent \/ \E a \in Pages \cup {"empty", "attachment", "other"}, final \in Http :
                                Request(a, final)

Loading == Jump \/ JumpHome \/ Take \/ Requested \/ ReadCancel \/ PromptGone
             \/ OfferDownload \/ TrySearch \/ Failed \/ \E s \in BOOLEAN : Display(s)

Page ==
  \/ AddImage \/ QuitPage \/ Free
  \/ \E bar \in BOOLEAN, u \in Urls \cup {NoUrl}, confirmed \in SUBSET DOMAIN Buttons :
       Poll(bar, u, confirmed)

Images == (\E h \in BOOLEAN : WorkerStart(h)) \/ Pick \/ WorkerEnds
            \/ \E size \in Sizes \cup {0} : Install(size)

User == (\E u \in Urls : Go(u)) \/ ClickCancel \/ (\E b \in DOMAIN Buttons : Click(b))
          \/ RequestExit \/ Quit \/ Relaunch

Next == Loading \/ Page \/ Images \/ User

\* The menu thread goes on wherever it does not wait for the user: a wait for
\* the network has 11000 turns, a request ends within CURLOPT_TIMEOUT.  So
\* does the image thread.
Fairness == WF_vars(Loading) /\ WF_vars(QuitPage \/ Free) /\ WF_vars(Images)

Spec == Init /\ [][Next]_vars
FairSpec == Spec /\ Fairness

-----------------------------------------------------------------------------
(* Cancel.                                                                 *)

\* A load the user cancelled before it was answered shows no page, whatever
\* the answer was; and one is given up as cancelled only for a click on its
\* own prompt.
CancelHonoured ==
  /\ clicks = "early" => pc \notin {"decide", "page", "leaving"}
  /\ pc = "sliding" /\ requestCancelled => clicks # "none"

(* Forms.                                                                  *)

\* The body of a form is sent at most once, and to no address but the form's:
\* not by a later load, nor by one that goes elsewhere.
BodySentOnce ==
  /\ TypeOK
  /\ \A f \in DOMAIN forms :
       forms[f].sent <= 1 /\ (forms[f].sent > 0 => forms[f].to = forms[f].url)

\* README.md:9 lists "links and URL-encoded forms" as supported, RELEASE.md:9
\* "explicit POST bodies": a load that leaves a page for a submitted form takes
\* its body along.
SubmittedBodyTaken == [][pc = "prompt" /\ pc' = "request" /\ asked # 0 => post' = asked]_vars

(* Images.                                                                 *)

\* Bytes of the pictures that images show.
Shows(images) ==
  LET sum[n \in 0..Len(images)] == IF n = 0 THEN 0 ELSE sum[n - 1] + images[n].data
  IN sum[Len(images)]

\* The image thread never holds an image of a page that was freed; and what
\* the page shows never takes more than MaxImageBytes, the bytes the thread
\* counts being those of the page.
NoDanglingImage ==
  /\ worker.item # 0 => worker.item \in DOMAIN img /\ pc \in {"page", "leaving"}
  /\ worker.pc # "none" =>
    /\ Shows(img) = worker.bytes
    /\ worker.bytes <= MaxImageBytes

\* An image is asked for once; and once the page is being left its images
\* stay as they are until it is freed.
NoLateImage ==
  [][/\ \A i \in DOMAIN img : worker.item = 0 /\ worker'.item = i => ~img[i].fetched
     /\ threadState = "exit" /\ pc = "leaving" /\ pc' = "leaving" =>
          \A i \in DOMAIN img : img'[i].data = img[i].data]_vars

(* Progress.                                                               *)

\* A load ends on a page or back at the address bar: the one search cannot
\* lead to another.  And a page that is left is left: the join returns.
LoadEnds ==
  /\ pc = "jump" ~> pc \in {"home", "page", "off"}
  /\ pc = "leaving" ~> pc # "leaving"

\* While a page is shown and has its image thread, every image is tried.
EveryImageTried ==
  \A i \in 1..MaxImages :
    (pc = "page" /\ worker.pc \in {"loop", "fetch"} /\ i \in DOMAIN img) ~>
      (i \in DOMAIN img => img[i].fetched)
=============================================================================
