----------------------------- MODULE SiteMenus -----------------------------
(***************************************************************************)
(* The two menus of stored pages (src/ui/menu.cpp): Top Sites, a grid of   *)
(* blocks over Settings.TopSites and its thumbnails that are edited by     *)
(* dragging, and Favorites, which pages through the top sites and the      *)
(* bookmarks.  Thumbnails come from MenuBrowse (src/html_parser/html.cpp). *)
(***************************************************************************)
EXTENDS Naturals, Sequences, FiniteSets, FiniteSetsExt

CONSTANTS
  Urls,     \* addresses
  Homepage, \* one of them
  N,        \* top sites, and entries of a page of Favorites: 9
  MaxFavs,  \* bookmarks
  Buffers   \* what a picture may be allocated as

\* There is a block, a page has room for an entry, and NULL is no buffer.
SitesAssumption == N \in Nat \ {0} /\ 0 \notin Buffers

VARIABLES
  TopSites, Thumbnails,  \* Settings, by slot
  heap,                  \* the pictures allocated and not freed
  ShowThumbs,
  num_fav,               \* bookmarks 1..num_fav (Bookmarks.tla has their texts)
  prev_page,             \* the address the menus hand on
  screen,                \* "TopSites", "Favorites", or "away"
  editing,
  label, thumb, place,   \* of every block: its text, the picture it draws, and
                         \* the slot it is drawn in
  crossed,               \* whether a block out of its slot was edited
  currPage, page         \* Favorites: the page number, which outlives the
                         \* menu, and the entries on display

blocks == <<editing, label, thumb, place, crossed>>
settings == <<TopSites, Thumbnails, heap, ShowThumbs, num_fav>>
vars == <<settings, prev_page, screen, blocks, currPage, page>>

None == ""
Slots == 0..N - 1

\* A picture has its buffer and what it was taken for: the address asked for
\* and the one of the page on the screen.
NoPicture == [id |-> 0, of |-> {}]

\* The blocks are gone with the menu.
NoBlocks ==
  /\ editing' = FALSE /\ crossed' = FALSE
  /\ label' = [i \in Slots |-> None] /\ thumb' = [i \in Slots |-> NoPicture]
  /\ place' = [i \in Slots |-> i]

\* The sites and bookmarks are those of the settings; pictures are not saved.
Init ==
  /\ TopSites \in [Slots -> Urls \cup {None}] /\ num_fav \in 0..MaxFavs
  /\ Thumbnails = [i \in Slots |-> NoPicture] /\ heap = {} /\ ShowThumbs \in BOOLEAN
  /\ prev_page = None
  /\ screen = "away"
  /\ editing = FALSE /\ crossed = FALSE
  /\ label = [i \in Slots |-> None] /\ thumb = [i \in Slots |-> NoPicture]
  /\ place = [i \in Slots |-> i]
  /\ currPage = 0 /\ page = <<>>

-----------------------------------------------------------------------------
(* Between the menus.                                                      *)

FindUrl(url) == {i \in Slots : url # None /\ TopSites[i] = url}

\* The first top site with the address asked for, or else with the address
\* of the page, gets the picture and loses its old one.
TakeThumb(url, new_page) ==
  LET found == IF FindUrl(new_page) # {} THEN FindUrl(new_page) ELSE FindUrl(url)
      unused == Buffers \ {picture.id : picture \in heap}
      video == [id |-> CHOOSE b \in unused : TRUE, of |-> {url, new_page} \ {None}]
  IN /\ ShowThumbs /\ found # {} /\ unused # {}
     /\ Thumbnails' = [Thumbnails EXCEPT ![Min(found)] = video]
     /\ heap' = (heap \ {Thumbnails[Min(found)]}) \cup {video}

\* MenuBrowse shows url.  It is another page than new_page if the load was
\* redirected or failed and a search took its place; new_page is empty on the
\* pages reached by links.  No picture is taken of a page left early, of one
\* that is no top site, or without memory.
DisplayHTML(url, new_page) ==
  /\ screen = "away"
  /\ prev_page' \in {prev_page} \cup ({new_page} \ {None})
  /\ TakeThumb(url, new_page) \/ UNCHANGED <<Thumbnails, heap>>
  /\ UNCHANGED <<TopSites, ShowThumbs, num_fav, screen, blocks, currPage, page>>

\* A bookmark added at the end, or one deleted, from the bar of a page.
EditBookmarks ==
  /\ screen = "away"
  /\ num_fav' \in {num_fav - 1, num_fav + 1} \cap 0..MaxFavs
  /\ UNCHANGED <<TopSites, Thumbnails, heap, ShowThumbs, prev_page, screen, blocks, currPage, page>>

\* In MenuSettings.
ToggleThumbs ==
  /\ screen = "away" /\ ShowThumbs' = ~ShowThumbs
  /\ UNCHANGED <<TopSites, Thumbnails, heap, num_fav, prev_page, screen, blocks, currPage, page>>

-----------------------------------------------------------------------------
(* MenuTopSites.                                                           *)

\* A block keeps the pointer to its picture for as long as the menu is open.
OpenTopSites ==
  /\ screen = "away" /\ screen' = "TopSites"
  /\ editing' = FALSE /\ crossed' = FALSE
  /\ label' = TopSites /\ place' = [i \in Slots |-> i]
  /\ thumb' = IF ShowThumbs THEN Thumbnails ELSE [i \in Slots |-> NoPicture]
  /\ UNCHANGED <<settings, prev_page, currPage, page>>

ToggleEditing ==
  /\ screen = "TopSites" /\ editing' = ~editing
  /\ UNCHANGED <<settings, prev_page, screen, label, thumb, place, crossed, currPage, page>>

ClickHome ==
  /\ screen = "TopSites" /\ prev_page' = Homepage
  /\ UNCHANGED <<settings, screen, blocks, currPage, page>>

\* btnSave, which ChangeButtons disables outside editing.
AddSite ==
  /\ screen = "TopSites" /\ editing
  /\ \E i \in Slots :
       /\ TopSites[i] = None /\ \A k \in 0..i - 1 : TopSites[k] # None
       /\ TopSites' = [TopSites EXCEPT ![i] = prev_page]
       /\ label' = [label EXCEPT ![i] = prev_page]
       /\ crossed' = (crossed \/ place[i] # i)
  /\ UNCHANGED <<Thumbnails, heap, ShowThumbs, num_fav, prev_page, screen, editing, thumb, place, currPage, page>>

ClickSite(i) ==
  /\ screen = "TopSites" /\ ~editing
  /\ prev_page' = TopSites[i]
  /\ UNCHANGED <<settings, screen, blocks, currPage, page>>

\* The cross of a block, enabled while editing: the icon of block i goes, and
\* Settings.Remove(i) frees the picture of slot i.
RemoveSite(i) ==
  /\ screen = "TopSites" /\ editing
  /\ TopSites' = [TopSites EXCEPT ![i] = None]
  /\ Thumbnails' = [Thumbnails EXCEPT ![i] = NoPicture] /\ heap' = heap \ {Thumbnails[i]}
  /\ label' = [label EXCEPT ![i] = None] /\ thumb' = [thumb EXCEPT ![i] = NoPicture]
  /\ crossed' = (crossed \/ place[i] # i)
  /\ UNCHANGED <<ShowThumbs, num_fav, prev_page, screen, editing, place, currPage, page>>

Swap(f, i, j) == [f EXCEPT ![i] = f[j], ![j] = f[i]]
SwapPos(i, j) == place' = Swap(place, i, j)
SwapImage(i, j) == Thumbnails' = Swap(Thumbnails, i, j)
\* Mutant: the dragged site is copied.
SwapUrls_Copies(i, j) == TopSites' = [TopSites EXCEPT ![i] = TopSites[j]]

SwapUrls(i, j) == TopSites' = Swap(TopSites, i, j)

\* Block i is dropped on block j: the blocks change places, with the text and
\* the picture they have, and so do slots i and j of the settings.
Drag(i, j) ==
  /\ screen = "TopSites" /\ editing /\ i # j
  /\ SwapPos(i, j) /\ SwapImage(i, j) /\ SwapUrls(i, j)
  /\ UNCHANGED <<heap, ShowThumbs, num_fav, prev_page, screen, editing, label, thumb, crossed, currPage, page>>

-----------------------------------------------------------------------------
(* MenuFavorites.                                                          *)

\* Page 0 lists the top sites, page p the bookmarks from N * (p - 1) on.
GetPage(p) ==
  IF p = 0 THEN [i \in 1..N |-> <<"site", TopSites[i - 1]>>]
  ELSE LET before == N * (p - 1)
           n == IF num_fav < before THEN 0 ELSE Min({N, num_fav - before})
       IN [i \in 1..n |-> <<"bookmark", before + i>>]

OpenFavorites ==
  /\ screen = "TopSites" /\ screen' = "Favorites"
  /\ page' = GetPage(currPage)
  /\ NoBlocks
  /\ UNCHANGED <<settings, prev_page, currPage>>

\* btnNext or Plus.
NextPage ==
  /\ screen = "Favorites"
  /\ currPage' = IF GetPage(currPage + 1) = <<>> THEN 0 ELSE currPage + 1
  /\ page' = GetPage(currPage')
  /\ UNCHANGED <<settings, prev_page, screen, blocks>>

\* A block, or one of the recent pages: any address.
ClickFavorite ==
  /\ screen = "Favorites"
  /\ prev_page' \in Urls \cup {page[k][2] : k \in {m \in DOMAIN page : page[m][1] = "site"}}
  /\ UNCHANGED <<settings, screen, blocks, currPage, page>>

Leave ==
  /\ screen # "away" /\ screen' = "away"
  /\ page' = <<>> /\ NoBlocks
  /\ UNCHANGED <<settings, prev_page, currPage>>

Next ==
  \/ \E url \in Urls, new_page \in Urls \cup {None} : DisplayHTML(url, new_page)
  \/ EditBookmarks
  \/ ToggleThumbs
  \/ OpenTopSites
  \/ ToggleEditing
  \/ ClickHome
  \/ AddSite
  \/ \E i \in Slots : ClickSite(i) \/ RemoveSite(i) \/ \E j \in Slots : Drag(i, j)
  \/ OpenFavorites
  \/ NextPage
  \/ ClickFavorite
  \/ Leave

Spec == Init /\ [][Next]_vars

-----------------------------------------------------------------------------
(* Properties.                                                             *)

\* Every picture has one owner and no slot one that was freed, so that none is
\* freed twice or lost (settings.cpp:313-319, html.cpp:477-489).
PicturesOwned ==
  /\ \A i \in Slots : Thumbnails[i] \in heap \cup {NoPicture}
  /\ \A i, j \in Slots : Thumbnails[i] = Thumbnails[j] => i = j \/ Thumbnails[i] = NoPicture
  /\ \A picture \in heap : \E i \in Slots : Thumbnails[i] = picture

\* A thumbnail is of a page that was asked for under its site's address, or
\* had that address itself.
PicturesOfSites ==
  \A i \in Slots : Thumbnails[i] # NoPicture => TopSites[i] # None /\ TopSites[i] \in Thumbnails[i].of

\* Until a block out of its slot is edited: no block draws a freed picture,
\* one in its own slot opens and removes the site it names and pictures, and
\* one that changed places with a single other shows what the menu will show
\* there when it is opened again (menu.cpp:2192-2376).
Draws(i) == IF ShowThumbs THEN Thumbnails[i] ELSE NoPicture
BlocksFitSlots ==
  screen = "TopSites" /\ ~crossed =>
    /\ \A i \in Slots : thumb[i] \in heap \cup {NoPicture}
    /\ \A i \in Slots : place[i] = i => label[i] = TopSites[i] /\ thumb[i] = Draws(i)
    /\ \A i, j \in Slots : place[i] = j /\ place[j] = i => label[i] = TopSites[j] /\ thumb[i] = Draws(j)

\* What the menu of top sites shows is in the settings.
BlocksTellTruth == PicturesOwned /\ PicturesOfSites /\ BlocksFitSlots

\* Dragging loses no site and parts no site and its thumbnail, and Next never
\* leads to an empty page: it shows the bookmarks page by page, to the last,
\* and then the top sites again (menu.cpp:2205-2225, 2596-2613).
Occurrences(f, u) == Cardinality({i \in DOMAIN f : f[i] = u})
Pair(i) == <<TopSites[i], Thumbnails[i]>>
SitesKept ==
  /\ \A i, j \in Slots : Drag(i, j) =>
       /\ \A u \in Urls \cup {None} : Occurrences(TopSites', u) = Occurrences(TopSites, u)
       /\ {Pair(k) : k \in Slots}' = {Pair(k) : k \in Slots}
  /\ NextPage =>
       /\ page' # <<>>
       /\ currPage' = 0 => N * currPage >= num_fav
NothingGetsLost == [][SitesKept]_vars
=============================================================================
