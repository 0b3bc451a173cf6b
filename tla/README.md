# WiiBrowser Lite: specifications and proofs

TLA+ models of WiiBrowser Lite, an HTTP browser for the Wii. At their centre are the parts of the
program where the order of steps decides whether something goes wrong: files that must survive a
power cut, the download thread, the session kept between two starts, the loop that loads and
shows pages beside the thread that fetches their images, and the exit that takes all of it down. Around
them stand the menus, the page from its bytes to its widgets, the memory and the devices below. TLC checks
every model on a small instance; TLAPS proves, for every value of their constants, the storage layer, the
sessions, the history and its refinement, the bookmarks, the downloads, page loads with their images and forms, the GUI
lock, the order of the exit, the menus, top sites, the release of a page, the console and the second memory.

Paths are relative to the repository root (`src/`). The program's own code is in
`src/src`, its GUI toolkit in `src/external/libwiigui`.

## Contents

| Module | What it is |
| --- | --- |
| **Storage** | |
| `FatFile` | the three directory entries of a saved file and what libfat does to them |
| `RecoverableFile`, `_proofs` | `writeRecoverable` call by call, the three loaders, the repairs of the user |
| `DurableRegister` | what such a file promises: one value that survives crashes |
| `UserFiles` | saving a page or a screenshot under a typed name, beside a download |
| `SettingsText` | the lines of `wiibrowser.cfg` and the folder they are found in |
| `FileBrowser` | choosing a folder and a name while cards come and go; proofs in `Transfers_proofs` |
| **Sessions** | |
| `Session`, `_proofs` | settings and history over starts, exits and crashes |
| `HistoryList` | the linked list of the history with its heap; proofs in `Parts_proofs` |
| `Trail` | what it promises: a trail of pages and a place on it |
| `Bookmarks`, `_proofs` | the array of favourites, the XML tree and the file |
| **Network** | |
| `Transfers`, `_proofs` | the download thread, its queue, its curl handles, bars and files |
| `Responses` | the answer to one request, header by header and piece by piece; proofs in `Browse_proofs` |
| `Browse`, `_proofs` | page loads, Cancel, forms, the page on the screen and its image thread |
| **A page** | |
| `Markup` | the tokenizer; proofs in `Browse_proofs` |
| `Dom` | the linked tree (`tree.h`) and the callbacks that build it; proofs in `Browse_proofs` |
| `TagList` | `getTag`, from the tree to the list of items; extends `Dom` |
| `Css` | scanner, grammar with error recovery, rules, matching |
| `Addresses`, `Entities` | links resolved and checked, form text encoded, entities decoded |
| `PageLayout`, `PageItems` | items laid out, scrolled, hidden; the objects behind them and their release |
| `PageForm` | the fields of a form, the window for them and what is sent |
| `Pictures` | from the bytes of a picture to the texture of a widget |
| **Screens** | |
| `Menus` | the menus as functions beside the GUI thread, with exits at any instruction |
| `SiteMenus` | top sites and favourites |
| `Keyboard` | text, visible part and caret |
| `Signals` | sigslot connections and their mutex |
| `Fonts` | glyph caches, widths and drawing |
| `Texts`, `Languages` | UTF-8 and wide characters; message files |
| **Below** | |
| `GuiLock` | the recursive GUI lock, instruction by instruction |
| `Shutdown`, `_proofs` | all threads on that lock, from `main` to power-off, with the network and the boot device; the proofs of `GuiLock` and `Menus` stand beside its own |
| `Console` | frames, screenshots, retrace and rumble motors |
| `Mem2` | areas and blocks of the second memory |
| `Forwarder` | the separate program that finds and starts this one |
| **For TLC** | |
| `MCBrowse` | constants of `Browse` |
| `MCData`, `MCScreens` | constants of the small modules, joined for one run each |
| **For TLAPS** | |
| `Recursion` | numbers with a smallest, induction from one number to the next, values that go on from the one before, scans that end further on |
| `Parts_proofs` | the proofs of the modules that `MCData` and `MCScreens` join: `HistoryList`, `Console`, `UserFiles`, `SiteMenus`, `PageItems`, `Mem2`, `Keyboard`, `Forwarder` |

`PROJECT.json` lists the runs, the source lines every definition stands for, the hazards and
the findings. A definition named `X_Y` is a mutated `X`, a plausible bug that breaks
one of the properties; it is not part of any specification.

## Inventory

The program runs on one core. Threads have strict priorities: the menu thread (`main`)
64, the GUI, loading, download and image threads 70, the network worker 30. A
thread of a higher priority may take over between any two instructions of a lower one, as
soon as its sleep, its lock or its I/O ends. All widgets belong to one recursive lock, the GUI
lock (`HaltGui`, `ResumeGui`, `GuiScopedLock`).

### Generations of a saved file
- State: `path`, `path.new`, `path.bak` on a FAT volume.
- Operations: `writeRecoverable`, `readBounded` (`utils/file_io.cpp`).
- Used by settings, bookmarks and history. Downloads and saved pages have schemes of their own.
- Hard: power can go between any two calls, any call can fail, and every loader decides
  from what it finds whether it may save again.
- Correct if: an acknowledged save is on the volume at any moment and is what the next start
  loads; half-written data never gets the live name; what was recovered is not overwritten.

### Settings
- State: the `SSettings` object, `configWritable`, `wiibrowser.cfg`.
- Operations: `Load`, `Save(clean)`, `Reset`, `FindConfig`, `SetSetting`, `ParseLine` (`core/settings.cpp`).
- Called by `main`, `Init`, the settings menu and `ExitApp`; `Save` asks the storage devices.
- Hard: the clean-exit flag is overwritten by every save of the session it speaks about.
- Correct if: the next start knows how the last run ended.

### Bookmarks
- State: `Favorites`, the tree `xml`, `bookmarksWritable`, `bookmarks.html`.
- Operations: `LoadFavorites`, `AddFavorite`, `DelFavorite`, `SaveFavorites`.
- Hard: two copies in memory and one on the volume, with saves that fail half way.
- Correct if: the copies stay the same list, and a start shows what was saved.

### History and session
- State: the list `history` with its current entry, `historyWritable`, `appdata/history.txt`.
- Operations: `InsUrl`, `DumpList`, `LoadList` (`core/liste.cpp`), `LoadSession`,
  `DeleteSession`, `Init` (`ui/menu.cpp`), `ExitApp` (`core/main.cpp`).
- Hard: which of load and discard is right depends on two settings and on how the last run
  ended, and the history is written from three places.
- Correct if: the history of a crashed session is not thrown away, and one that is to be kept private
  leaves no trace.

### Download thread and bars
- State: `queue`, `active`, `stop`, `ready`, a `Private` record per job, the curl multi handle,
  the bars of `GuiDownloadManager`; `name`, `name.part` and `name.download.bak`.
- Operations: `AddDownload`, `DownloadThread`, `start`, `complete`, `commit`, `StopDownload`
  (`network/transfer.cpp`), `CreateBar`, `RemoveBar`, `CancelDownload` (`gui_download.cpp`).
- Interaction: the menu thread queues jobs and stops the thread, the GUI thread clicks Cancel.
- Hard: ownership of a job moves between the queue, a handle and nobody; a bar may be used again
  with the state of its last download; the destination may be taken while the download runs.
- Correct if: each job is owned once and released once, no file the user did not agree to
  replace is displaced, only whole files get the final name, and a stop ends the thread.

### Page loads
- State: `url`, `new_page`, `searchWord` of `MenuBrowse`, `cancelButton`, `pendingUrl` and `pendingBody`.
- Operations: `MenuBrowse`, `CancelDownload`, `omniBox` (`ui/menu.cpp`), `request`,
  `SetNavigationPost`, `TakeNavigationPost` (`network/httplib.cpp`).
- Interaction: waits for the network worker, asks the Cancel button from a curl callback, hands
  attachments to the download thread and pages to `DisplayHTML`, whose link it follows.
- Hard: a click races the answer; the body of a form crosses two functions in two statics.
- Correct if: a load that was cancelled in time shows nothing, a body is sent to its form's
  address and once, and every load comes to an end.

### Page display and image thread
- State: the lists `img`, `btn`, `text`, `Index`, `threadState`, the texture budget.
- Operations: `DisplayHTML`, `DownloadImage`, `AddImage`, `AddButton`, `FreeMem`
  (`html_parser/html.cpp`), `HandleForm`, `HandleMenuBar` (`core/handle.cpp`).
- Interaction: the image thread reads the list of images the menu thread extends and frees.
- Hard: the thread holds an image through a download; the page may be left at that moment.
- Correct if: nothing freed is touched, every image is asked for once, the budget holds.

### Network worker
- State: `requested`, `stop`, `networkinit`, the thread (`network/networkop.cpp`).
- Operations: `InitNetwork`, `CheckConnection`, `StopNetwork`.
- Hard: `networkinit` is still set when a lost connection is requested again, so that a load does
  not wait for it; a request made during an attempt drops what the attempt achieved.
- Correct if: every request is served, and nothing is connected after `StopNetwork`.

### GUI lock, start and stop of the threads
- State: `guiMutex`, `guiOwner`, `guiDepth`, the thread handles, `ExitRequested`, `ExitAccepted`, `HWButton`.
- Operations: `HaltGui`, `HaltGuiEx`, `ResumeGui`, `InitGUIThreads`, `StopGUIThreads`, `ExitApp`.
- Hard: joins of threads that need the lock; callbacks that set flags in interrupts.
- Correct if: the stop never waits for itself, and nothing is written after the volume is unmounted.

### Storage devices
- State: `sdMounted`, `usbMounted`, the latch `mediaLost` (`filesystem/devmount.cpp`).
- Operations: `MountManager_Init`, `_IsInserted`, `_Poll`, `_Deinit`.
- Hard: the GUI thread polls while others write.
- Correct if: once a device was seen missing nothing more is saved or flushed to what replaces it.

### Reading a page
- State: the tokens of `ParserSax`, `mHtmlTree` and `mCurrentState` of `ParserDom`, the list `Tag` and
  the flags of `getTag`, the rules of `CSS::Parser`; `httpUrl` and `parseUrl` on addresses.
- Operations: `ParserSax::parse`, `foundText`/`foundTag`, `flatten`, `getTag`, `InsInFondo`, the
  flex scanner and bison grammar, `urlAdjust`, `decode_html_entities_utf8`, `markupBudget`.
- Hard: any input is legal. Wrongly nested markup moves subtrees, an error in a sheet drops rules
  whose lists other rules share, decoding works in place.
- Correct if: every character is in one token, the tree has below a tag what stands inside it,
  each visible text comes once and in order, a tag gets the rules that were meant for it, the
  budget bounds what the parser builds.

### Showing a page
- State: `Index` and the lists of `img`, `btn`, `text`, the scroll state; the textures of widgets.
- Operations: the display loop of `DisplayHTML`, `DrawScroll`, `HideBar`, `FreeMem`, `HandleForm`,
  `DecodePNG`, `DecodeJPEG`, `PNGU_*`.
- Hard: elements are made, hidden and shown one at a time while the user scrolls; the GUI thread draws
  between any two steps; a decoder may fail at each call, by `longjmp` too.
- Correct if: the screen fills and comes to rest, what is drawn is alive, nothing leaks or is read out of
  bounds, a form sends what the user left in it.

### Menus, keyboard, fonts, signals
- State: `mainWindow` and the states of its widgets, the sets of the toolbar, the text and caret of
  the keyboard, the glyph maps of `FreeTypeGX`, the slots of `sigslot`.
- Operations: `MainMenu` and its menus, `WindowPrompt`, `OnScreenKeyboard`, `TopSites`,
  `MenuFavorites`, `SetState`, `drawText`, `getWidth`, `connect`, `disconnect_all`.
- Hard: menus are functions on the stack with widgets on it; an exit may be asked for anywhere and each loop
  has to notice; a click is a state that waits to be read; signals lock a mutex that does not nest.
- Correct if: no widget outlives its menu, an exit ends every menu, no site is lost by dragging, what is typed goes
  where the caret is, a text keeps the width it was measured with.

### Files, settings and starting
- State: `browser`, `rootdir`, `selIndex`; the lines of `wiibrowser.cfg`; the arenas of MEM2; the forwarder's
  command line.
- Operations: `BrowseDevice`, `BrowserChangeFolder`, `writeUserFile`, `ParseLine`, `FindConfig`,
  `AddMem2Area`, `MEM2_alloc` and the rest, the forwarder's `main`.
- Hard: devices disappear under an open listing; a listing is shared with the GUI thread; blocks of
  several areas share one memory.
- Correct if: what is chosen is on a device that is there, what was set is read back, blocks do
  not overlap, the program that is preferred and there is started.

### Left out
- Audio: no caller plays an Ogg file in this build, a sound is one call of ASND.
- `Uri.cpp`, most of `utils.cpp`, `tld.h`, the arities of sigslot other than 1 and 3, and the
  loading box (`ShowAction` has no caller) are code nothing calls.
- Archive, GIF, BMP, editor, updater and media player code is not part of the build
  (`Makefile:19-25`, `core/config.h`).
- curl, libpng, libjpeg, FreeType, mxml, libfat and libogc are external: modelled as a choice over what
  they can answer.

## Plan

Done first: 1 `RecoverableFile` and its proofs, because everything kept rests on it; 2 `Transfers`;
3 `Session` and `Bookmarks`, which use a save as one step; 4 `Browse`; 5 `GuiLock` and
6 `Shutdown`, the composition of the threads. Done since: 7 the lists and files behind them
(`HistoryList` refining `Trail`, `UserFiles`, `SettingsText`, `FileBrowser`); 8 the page
(`Markup`, `Dom`, `TagList`, `Css`, `Addresses`, `Entities`, `Responses`, `PageLayout`, `PageItems`, `PageForm`,
`Pictures`); 9 the screens (`Menus`, `SiteMenus`, `Keyboard`, `Signals`, `Fonts`, `Texts`, `Languages`);
10 what lies below (`Console`, `Mem2`, `Forwarder`); 11 the proofs of `Transfers`, `Session`,
`Bookmarks` and `Browse`, sums over lists included; 12 that `HistoryList` refines `Trail`; 13 the proofs of `Console`, `UserFiles`,
`SiteMenus`, `PageItems`, `Menus`, `Mem2`, `Forwarder` and of the caret in `Keyboard`;
14 the proofs of `FileBrowser`, `Responses`, `Markup` and `Dom`; 15 that the one step which `Session` and `Bookmarks` take for a save is one of `RecoverableFile`'s.

Left, in this order:

16. `MenuBrowse`, `PageLayout` and `PageItems` over one list of elements instead of three models.
17. Attributes in `TagList`, positions in `Menus`, the option list of the toolkit.

## The models

### RecoverableFile
Each of the three names holds nothing, a folder, or a generation: an empty, a torn or a
whole file with its number. `OpenPending`, `WriteSome`, `WriteDone`, `WriteFailed`, `StatLive`,
`DropBackup`, `MoveLive` and `Publish` are the calls of `writeRecoverable` in order; `Fail` is any of
them failing; `Stop` is power loss. `Start` is the loader named by `Loader`: `SSettings::Load`,
`LoadFavorites` or `LoadList`, each with its own idea of an acceptable file and of who may save again;
a read may fail although the file is there. Between runs the user repairs the volume as
`src/README.md:115-119` says. `rename` does not replace an existing name, as the code assumes
(`file_io.cpp:86`), and is atomic. `DurableRegister` is one value; a crash during a save leaves the old
value or the new one. `ImplementsRegister` is the refinement; the value jumps at the rename
that moves the live file to `.bak`.

### Transfers
`AddDownload` (menu thread), `ClickCancel` (GUI thread) and the download thread at the grain of
its calls: `Top`, `Pop`, `OpenPart`, `AddHandle`, `Performed`, `Complete`, `Close`, `StatDest`,
`Displace`, `Publish`, `Release`, `Drain`, `Free`. A job is in the queue, with a handle, being
released, or gone. Curl is external: a transfer ends when it likes with any result. Files
are the destination, its `.part` and its backup, with who put what there. `Restart` is power loss, after
which the program starts with the files as they are.

### Session
Two files with four states each (absent, live, blocked by a stale `.new`, interrupted before the last
rename), which is what a save as modelled in `RecoverableFile` can leave. One action
per thing `main`, `Init`, `MenuBrowse`, the settings menu and `ExitApp` do to them; `Crash`
anywhere. `lastEnd`, `previous`, `kept` and `failed` only record, for the properties.

### Bookmarks
Entries have an address and a title; two may share the address. The array and
the tree are two lists with their own search. A file is readable when it is whole and its
list is not empty: the XML writer closes an empty `dl` as `<dl />`, which the loader does not take
for `</dl>`.

### Browse
The menu thread goes from the address bar through `jump`, the wait, the request, the prompt
leaving the screen and the outcome to a page, and from the page to the next `jump`.
`ClickCancel` and `Click` are the GUI thread's. A pass of the display loop (`Poll`) takes the toolbar first,
then all clicked buttons in the order of their list, as the code does, so two clicks between two
passes are covered. `Pick`, `Install` and `WorkerEnds` are the image thread; between the first two it
downloads without the lock. `HandleForm` is its result. Addresses are model values; `Decoded`
is what `decode_html_entities_utf8` makes of one.

### GuiLock
The libogc mutex (`holder`, `count`) beside the owner and the depth the program keeps. Every
assignment of `HaltGui` and `ResumeGui` is a step (`Lock`, `SetOwner`, `Deepen`; `ResumeGui` is the test,
then `Shrink`, `Unlock`), because the next thread may take over between any two. `HaltGuiEx` is `Lock` or
nothing. `LockSpec` lets every thread call whatever it likes.

### Shutdown
`main` is the next stage of the menu thread: the start (`Boot`, `InitGUIThreads`, `InitMenu`), the menus as
critical sections of any depth, a page load with its wait for the network, and `ExitApp` with each join a
step of its own. `gui`, `loading`, `download` and `worker` are where the other threads stand. A thread
takes the lock by the steps of `GuiLock`: it stays in its stage until the call is over. Any thread may
be refused by `LWP_CreateThread`. The buttons set `hwButton` at any moment, the card comes and goes, the GUI thread's
poll and the saves latch `mediaLost`. `MenuEnds` makes the call of `ResumeGui` that ends
`MainMenu` outside of any section. After `Unmount` the user may start again.

### Storage around them
`UserFiles` walks the save of a page, of an image or of a screenshot: typed name, extension, the question, then `writeUserFile`
call by call on the entries of `FatFile`, any of them failing, with power loss; a download may commit the same name
between any two steps (`commitStagedFile` is one step there, its calls are in `Transfers`). `SettingsText` has the text rather than the
generations: what `Save` writes, `ParseLine` makes of each line, `FindConfig` finds on two devices, and the menu changes.
`FileBrowser` has `GuiBrowser`'s loop with the listing it shares with the GUI thread; `TakeOut` and `Exchange` are the user's.
`HistoryList` keeps entries on a heap with the pointers of the code, beside the lines of `history.txt` and `historyWritable`: a session
begun without the history, or with a list longer than the reader takes, leaves the file as it is. Its saves succeed; failing ones are in `Session`
and `RecoverableFile`. `Walked!Spec` is the refinement, which `ImplementsTrail` checks and `ListIsTrail` proves.

### The page
`Markup` is a parser over characters, one action per token. `Dom` takes its tokens one
character long and builds `tree.h`'s tree with all five pointers; the stack of `markupBudget` runs
beside it. `TagList` extends `Dom`: once the parse has ended `getTag` walks the tree, one action per branch of its loop.
`Css` takes sheets cut in pieces; every error production of the grammar is an action with what bison discards.
`PageLayout` is one iteration of the display loop per step, heights in units of 25 pixels. `PageItems` has objects
with their lists and owners, the GUI thread drawing between two steps. `Pictures` counts what is allocated and
every index that is read; calls of libpng and libjpeg succeed or fail as they like, a `longjmp` included.

### Screens and below
`Menus` has a stack of menu functions, the widgets each appends and takes out, their states, clicks waiting in buttons, and fades that a frame
of the GUI thread moves on; `exiting` may be set at any instruction. Favorites has its entry animation as a phase of its own, which the exit may cut short. `SiteMenus` has
`Settings.TopSites` and `Settings.Thumbnails` by slot and, by block, the text, the picture pointer and the place on the screen, which the menu sets once when it
opens. A picture is a buffer that `DisplayHTML` allocates and that a later one or `Remove` frees; it remembers which addresses it was taken for, the one asked for and the
one of the page on the screen, which differ after a redirect or a search. `PageForm` has the fields as `InsInFondo` keeps them, `lost` with the types of those it had no room
for, and of each widget whether its url begins with a name and what was typed into it. `Keyboard` has widths per letter. `Signals` has the connection lists of both sides and the
mutex. `Fonts` has a budget shared by the faces. `Console` has the frame loop beside a retrace interrupt that shows the framebuffer set before the last
flush. `Mem2` has a memory of cells in which each owner can tell its mark. `Forwarder` is sequential: search, load, start.

## What the runs show

| Run | Instance | Shows |
| --- | --- | --- |
| `settings_generations` | 4 generations | every crash point and failing call of a save: the acknowledged generation survives whole and is loaded, backups go last, a recovered session writes nothing, the register is implemented |
| `history_reset` | | finding 1 |
| `downloads` | 3 jobs for 1 name, 2 slots, 2 bars, queue of 1 | ownership, bars, files and clean end over restarts, failures, clicks and stops; a stop ends the thread, an accepted job is released |
| `session_prompt` | | finding 2 |
| `bookmarks_prompt` | 3 entries, 2 addresses, list of 2 | finding 3 |
| `browsing` | 3 buttons, 1 form, 2 images | a load cancelled in time shows no page, a click cancels its own load only, a body is sent once and to its form's address |
| `page_images` | 3 images, 2 sizes, budget 3 | no freed image is touched, one request per image, the budget, no image on a page being left; loads end, pages that are left are freed, all images are tried |
| `form_entity` | | finding 4 |
| `shutdown` | 3 threads, sections nested twice, 1 device | the lock stays consistent, no stage of the exit takes away what is in use, every exit ends |
| `entity_table` | all 253 names | finding 5 |
| `data` | 14 parts, below | what is kept, read and sent |
| `screens` | 12 parts, below | what the user sees and does |

### Parts
Most modules are small: alone each would be a run of a few hundred to a few
ten thousand states. `MCData` and `MCScreens` join those that share nothing. The variable `part` is chosen at the
start and never changes; `x1`, `x2`, ... are the variables of the module of that part through
`INSTANCE ... WITH`, and stay at a fixed value when it has fewer. A behaviour of such a run is a
behaviour of one module and nothing else, so a property that says `part = "css" => P` says `P` of
`Css`, and each is broken by a mutant of its module. Deadlock is not checked in these two, nor in the runs of findings 3 and 5:
the sequential parts (`Addresses`, `Markup`, `Forwarder`, ...) end.

| Part of `data` | Instance | Property |
| --- | --- | --- |
| session (`Session`) | 2 addresses, list of 2 | `CleanExitTellsTruth`, `NewSessionLeavesNoTrace`, `RestoredIsPrevious` |
| history (`HistoryList`) | 2 addresses of 2 and 3 bytes, trail of 3: lists of just as many bytes as the reader takes, and of one and two more | `WellLinked`, `ImplementsTrail`, `TrailKept` |
| addresses | strings of up to 5 characters against 9 bases; typed text of up to 3 bytes | `Settled`, `KeepsHost`, `ArrivesAsTyped` |
| settings (`SettingsText`) | 2 devices, 2 folders, 3 languages, odd lines | `SettingsKept` |
| user files | 4 saves, 4 typed names, 2 types | `FilesKept` |
| file browser | 5 folders, 3 files on 2 devices, pages of 1, listings of 2 | `BrowserStaysOnDevice` |
| forwarder | 6 cards, disks of 4 partitions, 2 loaders | `ForwardsTheBest` |
| mem2 | cells 4 to 14, blocks of 1 and 4 | `BlocksHold` |
| pictures | chunk lists of up to 4, sides around 5, 10, 16 and 40 | `PicturesHold` |
| responses | documents of up to 4 in 2 blocks, 7 headers | `AnswersAreTheLast` |
| markup | all texts of 5 to 8 characters | `TokensCoverText` |
| entities | all names, and all triples of 18 pieces | `DecodesInPlace` |
| texts | up to 4 bytes of 7 values | `TextComesBack` |
| languages | files of 3 lines | `MessagesTellTheFile` |

| Part of `screens` | Instance | Property |
| --- | --- | --- |
| bookmarks | 3 entries, 2 addresses, list of 2 | `TreeMatchesFavorites`, `StartsFromAcked` |
| menus | 2 clicks between two readings | `ScreenFitsMenu`, `ChangesSavedOrTold`, `ScreensComeToRest` |
| sites (`SiteMenus`) | 2 blocks, 2 addresses, 3 pictures, 3 bookmarks | `BlocksTellTruth`, `SitesStay` |
| keyboard | texts of 3, a message longer than its text | `CaretFollowsKeys` |
| layout | screen of 3, 4 scrolls, 3 pages | `ScreensComeToRest` |
| form | 3 fields of 10 kinds, unnamed and over-long ones among them | `FormIsSentAsLeft` |
| items | 3 items, 2 fields | `PageTakenDownWhole` |
| tags (`Dom`, `TagList`) | 4 tokens, nesting of 3, 6 items | `PageReadsAsItsText` |
| css | sheets of 2 out of 12 pieces | `TagsGetTheirStyle` |
| fonts | 2 faces, 2 glyphs | `TextStaysAsMeasured` |
| signals | 3 elements shown | `ConnectionsLive` |
| console | 1 pad, 4 requests | `ConsoleAtRest` |

Bounds. Four generations let a save follow a failed save that followed an
acknowledged one, which is the longest chain the calls look back on. Three jobs for one
name and two slots have a queue that overflows, a wait for a slot, two transfers that clash and a
third that finds the backup of the first. A list of two
overflows with the third address. Two entries of one address tell the searches of `Bookmarks` apart.
Three images of two sizes fill a budget of three in more than one order. Sections nested twice
separate the depth that lets go of the mutex from the one that does not. Three pictures for two slots let a slot's picture be
freed and its buffer be used for the other's. Four tokens with three levels hold two tags that close in the wrong order with a text between them, and
one that is never closed. Strings of five characters hold every delimiter of the tokenizer with a character on both sides;
the parts that begin inside a comment, a literal or an attribute reach what longer ones would. Blocks of one and of four cells leave holes that
only one of them fits. A page longer than the screen by one scroll has elements that leave and come back at both ends. `MaxGen`, `MaxForms`, `MaxDepth`,
`MaxImages`, `MaxSaves`, `MaxClicks` and `MaxTokens` are bounds of an instance; `MaxList`, `MaxTrail`, `MaxActive`, `MaxBars`,
`MaxQueue`, `MaxBookmarks`, `MaxImageBytes`, `MaxUrl`, `MaxDocument`, `MaxHeaders`, `MaxNesting` and `MaxEntries` are limits of the
code with smaller values.

Fairness. `Transfers!FairSpec`: the download thread keeps running, it has priority over the menu
thread and sleeps with a timer; a transfer that is neither stopped nor fed ends, because of the
connect timeout and the low-speed limit (`httplib.cpp:181-184`, kept at `transfer.cpp:120`); strong
fairness where the thread meets the end only now and then. A restart may come at any time, or never:
the liveness properties hold of runs with and without it.
`Browse!FairSpec`: the menu thread goes on where it does not wait for the user (the wait for the network has
11000 turns, a request 30 seconds), and so does the image thread.
`Shutdown!Spec`: every thread keeps running, since those of higher priority sleep in each round; libogc hands the mutex
to who waits for it, hence strong fairness of the entries; every critical section of the menus ends, every menu loop
tests `App_Exiting`, the waits count their turns, and a download thread that was told to stop has finitely many jobs
left (`Transfers` looks inside that). No fairness is asked of the
user.
In `screens` the frames of the GUI thread, the menu thread (whose every loop tests `App_Exiting` or waits for an
animation), the prompt that an exit answers, and the display loop keep running; the user owes nothing. No other part has a liveness
property.

## Findings

1. `history_reset` (documentation and code differ): after a history save that stopped between its renames
   `LoadList` (`liste.cpp:211`) starts an empty, writable history, although `README.md:115-117` promises
   read-only recovery.
   The settings loader (`settings.cpp:165`) does the same when `.new` and `.bak` exist but cannot be read.
2. `session_prompt` (documentation and code differ): the prompt says that the previous session has been restored also when
   its history could not be.
3. `bookmarks_prompt` (bug): deleting the last bookmark writes `<dl />`, which the next start
   reports as an interrupted save, and bookmarks stay read-only.
4. `form_entity` (bug): the action of a form is kept as it stands in the page, the address that is loaded has its
   entities decoded; with `&amp;` in the action the two differ, and the form is sent as a GET without its body.
5. `entity_table` (bug): `entities.c` looks an entity up with `bsearch`, whose table has `sup;` before `sup1;`, `sup2;` and `sup3;`
   although `;` is greater than the digits. The search meets `sup1;` first and goes on behind it: `&sup;` in an address stays as it stands.

## What is proved

`RecoverableFile_proofs` holds for any number of generations and for each loader.

- `Invariance`: `Spec => []IndInv`. The safety properties are not inductive: that the acknowledged generation is
  somewhere says nothing about whether `.new` may be renamed next. `IndInv` says what each name may hold
  (`LiveShape`, `BackupShape`, `NewShape`), that without a live file the backup is the acknowledged generation and
  `.new` its whole successor (`LiveMissing`), and what each call relies on (`AtCall`).
- `AckedSurvives`, `OnlyWholePublished` and `RestartLoads` follow from it state by state. `RetiredLate` is an action
  property, by cases on the call.
- `BookmarksNotReset` and `RecoveredReadOnly` need in addition what a session knows of the volume it started from
  (`ViewInv`). `NoSilentReset` is proved for the bookmarks loader; the other two break it (finding 1).
- `Refinement`: `Spec => ImplementsRegister`, one case per call; only `MoveLive`, `Publish` and the write that
  completes `.new` move the value.
- `SavesAreOneStep` adds a history variable, `before`: the volume that the save under way found. `Stages` says what the calls have
  done to it so far; when the save ends, by its return or by a power loss, the volume is one of the few in `Leaves`, and the answer is
  true only for the one with the new generation at the live name. `Session` and `Bookmarks` take a save as this one step.

The proofs of this module assume `Loader` and `MaxGen` as the module does, atomic renames that do not replace, and
a volume on which only the program and the documented repairs act.

`Session_proofs` holds for any addresses and any list length; every save may fail in every way `Session` allows.

- `TruthOfTheFlag`: the file of a running session says that it has not ended, unless its user restores always, so the flag a
  start reads fits the end of the last run (`FlagInv`); a save of the settings that failed is the one excuse.
- `PrivateStaysPrivate`: only `LoadList` makes the history writable, and a session that is not restored never calls it (`TraceInv`).
- `RestoresTheLast`: a history that was dumped is the one the next `LoadList` finds (`KeptInv`).
- `SaveIsWrite` and `LoadIsTheStart` (step 15): the file of `Session` is what three names of `RecoverableFile` make (`FileOf`); each way a save
  ends is one that `Write` allows with `Faults` on, and a start reads what `Load` and `LoadList` read. `FileOf` takes a torn first
  file for the generation it is of; a folder at the live name and read errors, which `RecoverableFile` has, are outside `Session`.

`Bookmarks_proofs` holds for any entries, any address of each and any limit.

- `TreeIsFavorites`: `AddFavorite` and `DelFavorite` search the array and the tree separately; both find the first entry of the
  address (`Smallest`, `Found`), so they stay one list.
- `StartShowsSaved`: what the three names hold of the list last saved (`DiskInv`) is what a start reads.
- `SaveIsOutcome` and `StartIsTheStart`: the same for the three names of `Bookmarks` (`VolumeOf`): each way a save ends is one of `Outcomes`, and
  `LoadFavorites` finds what the start of `RecoverableFile` finds, if no list that was saved is empty (an empty file is refused).

`Transfers_proofs` holds for any jobs, destinations, slots, bars and queue length, with as many bars as slots at least.

- `EveryJobOwnedOnce`: queue, map and hand are disjoint and the queue holds no job twice (`Owned`). It is not inductive alone:
  which of them a step may touch depends on where the thread stands and on the flags by which the threads stop each
  other (`Stages`).
- `OnlyWhole` and `AgreedFiles`: what `.part` holds at each stage of a completion (`Held`), and that the destination is still what the
  user agreed to replace or already has its backup (`Agreed`).
- `ChoosesWhatIsThere`, about `FileBrowser` with any names in any order (`BrowserAssumption`): a set of entries has one sorted
  sequence (`LastEntry` gives its last one, and so on downwards), so the list that `qsort` leaves is `Sorted` of what was read. `ListInv` says of which
  folder, while the device is the one it was read from, and `LeadsSomewhere` that a path returned is in a folder there is.
- `BarsFit`: running jobs have bars of their own (`BarInv`); that there is a free one follows by counting.

`Browse_proofs` holds for any addresses, buttons, images, sizes and forms.

- `CancelIsHonoured`: an early click is in the button until the answer is there, then in `requestCancelled` (`CancelInv`).
- `NothingLate`: the only step that gives the image thread an image picks one not asked for (`StepOfItem`, `Picked`), and nothing
  touches the images of a page that is left (`StepOfLeaving`).
- `NoImageDangles`: `ImageInv` adds that an image without data shows nothing and that the thread's count is the sum over
  the list. The sum is a fold: `PartialSums` gives it as a value that goes on from one image to the next (`Recursion`), and
  `ShowsOther`, `ShowsAppended` say what one image changes.
- `BodyIsSentOnce`: the body that waits in `pendingBody`, or is in the hand of the request, belongs to a form not sent before
  (`FormsInv`). A pass of the display loop presses all clicked buttons, a fold again (`Passes`, `PressAllKeeps`), and at most the
  last form pressed is kept.
- `LastAnswerCounts`, about `Responses` with any types, names and limits (`ResponseAssumption`): what the callback holds is what the last
  block says, line by line (`Keeps`), the name without the unsafe ones, and the length is the sum of the pieces (`TotalGoesOn`).
- `EveryTokenHasItsText`, about `Markup` with any documents (`DocumentAssumption`): the tokens so far end where the next begins; a text ends
  where something else begins (`TextEnds`); and an element whose text is literal and has no end yet is the last token, has only
  text behind it up to the end of the document, or stands before its end tag (`Waiting`). The scanners are recursive functions that jump ahead:
  `TagEnds`, `CommentEnds` and `LiteralEnds` say where they stop.

- `TreeIsTheText`, about `Dom` (as `TagList` uses it) with any tags and limits (`DomAssumption`): of a tree the parents say all. They run back
  from each node, and what stands between a node and its child is below the node (`Nested`); the other four pointers are what follows from
  that (`Links`), which `append_child` and `flatten` keep (`AppendLinked`, `FlattenLinked`), and `Kids` and `Ancestors` are then sets of
  numbers (`KidsAre`, `PathsAre`). The properties need more to be inductive (`Suits`): all nodes behind the current one are below it, the path
  to it has the names that `markupBudget` counts, a closed tag holds the nodes up to its end and the current node is not among them, and
  what is open with children stands around it. The end of a tag flattens a whole path at once (`FlattenedAll`): `FoldedUpto`, `FoldedBelow`,
  `FoldedRest` and `FoldedClosed` say what that leaves.

`Recursion` has what those proofs need of numbers: a set of numbers has a smallest one, so what goes from each number to the next
holds of all (`Induction`), and a value given step by step exists and is the only one (`Iteration`), a sum for one (`SumsExist`). A scan that from each place
of a text stops or goes on from a later one ends somewhere behind it (`EndExists`, `EndIsBehind`), and a function that asks
for its value at a place of lower rank has one everywhere (`DescentExists`).

`Shutdown_proofs` holds for any depth. Its first part is about `GuiLock` alone, with any set of threads and any calls in any order;
the second assumes that menu, GUI and download thread are three threads.

- `LockIsConsistent`: `LockConsistent` is inductive as it stands. Owner and depth are written only by the holder, and the
  depth is the mutex's count except between two instructions of one call (`DepthCounts`).
- `LockOfTheProgram`: every step of the program is a step of `GuiLock` or none (`LockSteps`), so the lock is consistent.
- `NothingUsed`: `NothingUsedAfterFreed` alone says nothing of the stages before a join. `IndInv` adds to the lock where
  each thread stands relative to its section (`Sections`), that the two flags which let a thread touch widgets
  are set after the widgets exist (`Widgets`), and which threads have ended by each stage (`Stages`).
- `MenusFitScreen`, about `Menus` with any number of clicks waiting: the window shows what the menu, its phase and the choice
  that is being faded out call for, and one prompt more while one is up (`ShownInv`). That needs which choices a menu can be left
  with (`PlaceInv`), that a prompt stands only where it was asked for and the rest is off meanwhile (`ModalInv`), and that
  Save can be clicked only while editing (`SaveInv`); `UnsavedInv` gives that changes are saved or the exit told.

`Parts_proofs` has the smaller modules. Each theorem assumes of the constants what its module names an assumption, which the runs
evaluate for their instance.

| Theorem | For any | Inductive invariant |
| --- | --- | --- |
| `ListIsTrail`, `PointersHold`, `StartsKeepTheTrail`, `ShortTrailReturns` (`HistoryList`) | addresses, lengths of them, limit of at least 1 (`HistoryAssumption`) | `ListInv`: some list of entries, all different, is linked both ways on the heap, holds nothing else, and the current entry is its k-th. Every walk of the code (`FromNth`, `RewindNth`) is then an index, and each action a move of the pair (`EveryStep`). The file always holds at most as many addresses as are kept (`FileInv`), since what is left of it is the trail or the lines it had (`LinesLeft`). `Trail` is implemented with the addresses along the pointers as its pages |
| `ConsoleRests` (`Console`) | remotes and requests (`RumbleAssumption`) | `ConsoleInv`: who holds the lock where, which framebuffer is shown, waited for and drawn (`FramesInv`), and for each remote whether `DoRumble` of the frame has seen its request (`RumbleInv`) |
| `FilesStay` (`UserFiles`) | names, kinds and saves | `Staged`: between the check of its bytes and its rename `.new` is whole, and a name that is there never holds a part of a file |
| `BlocksAreTrue`, `NoSiteLost` (`SiteMenus`) | sites, bookmarks, buffers (`SitesAssumption`) | `SitesInv`: the drags permute the settings as they permute the places (`Dragged`): until a displaced block is edited, slot i has the text and the picture of block `place[i]`, which gives the claims about a block in its slot and about two that changed places; a picture is of the site of its slot (`PicturesOfSites`). `PicturesInv`: each has one owner. Swapping two values keeps how often each is there (`SwapCounts`) |
| `PageIsFreed` (`PageItems`) | items, fields (`ItemsAssumption`) | `ItemsInv`: what is allocated is owned by an entry of a list or common to all pages, the lists are emptied in the order of `FreeMem`, the window shows only what is in `Index` |
| `BlocksStay` (`Mem2`) | areas, sizes, granule, memory (`MemoryAssumption`) | `HeapInv`: the areas are a chain from the top of the arena down, a block is in its area and apart from the others, and each live one holds what its owner left in it |
| `CaretFollows` (`Keyboard`) | letters, widths, texts, translations (`KeyboardAssumption`) | `TypedInv`: the text that is shown starts at the first letter from which the rest fits, the caret is in it, and its pixels are the widths of the letters before it; the widths of two parts add up (`Recursion`), and a letter put in and taken out again leaves the text (`LetterPut`) |
| `BestIsStarted` (`Forwarder`) | cards, disks, programs (`ForwarderAssumption`: the paths fit the command line) | `Forwarded`: past the card it holds no application, and the file that is open, and then the one in memory, is the best of all; `LineIsBuilt` gives the line character by character |

## What is only checked

- Liveness under fairness is beyond TLAPS: `DownloadsEnd`, `LoadEnds`, `EveryImageTried`, `ExitEnds`, `ScreensComeToRest`.
- `TagList`, `Css`, `Addresses`, `Entities`, `Texts`, `Languages`, `SettingsText` and `Pictures` compute with
  recursive functions and folds over texts, trees and lists, and their properties say what such a function yields for every
  input. That is induction over data with the property as a parameter, which the prover cannot instantiate; `Recursion` gets around it
  only where one value per number goes on, a scan goes forward, or a pointer goes back (the walk of `getTag` over the tree is not proved).
- `Fonts`, `Signals`, `PageLayout` and `PageForm` sum over sets or build sequences from them (`SetToSeq`, `FlattenSeq`, `SelectSeq`).
- The invariants of `data` and `screens` (`StateIsSound`, `ObjectsOutliveTheirUse`, ...) are conjunctions over the parts of the run. Where a theorem
  above states a part, it states it for the module of that part; the conjunction itself is only checked.

## Seen while modelling

Behaviour the models contain, with nothing in the repository that says otherwise.

- Start and exit: a start aborted before `Init` reached the session saves a clean exit over an unclean one
  (`main.cpp:190`, `AbortStart`); the history is dumped after a save of the settings that found the device gone
  (`main.cpp:190-194`).
- Loads: a click on Cancel in the half second after the answer was accepted stays on the button and cancels every image of the page
  (`httplib.cpp:109`); a link that fails is searched for with an address bar that was cleared, so with no term; text and
  video answers are known types that nothing displays; an attachment that answers a POST fails as a whole. A lost connection is requested again with
  `networkinit` still set, so that the load does not wait for the attempt (`networkop.cpp:42`).
- Files: a `.new` left by a failed save blocks every later save (documented, `README.md:119`); a
  start that fails leaves its `.part` (`transfer.cpp:117`); a second screenshot over a name is refused while
  its `.bak` exists; a file that appears between the question and the commit is moved to `.bak` unasked.
- Settings: opening the menu with a language beyond German stored sets Japanese (`menu.cpp:1603`); the lines
  `StartPage` and `DownloadFolder` are lost with the next save; one line of 1024 characters makes the
  settings read-only; `FindConfig` tests the live name only (`settings.cpp:147`).
- History: 128 full-length addresses are longer than the reader accepts (`liste.cpp:209`); from then on every start finds no history and writes none.
- File browser: `selIndex`, not the clicked line, decides, and is read twice without the lock (`fileop.cpp:182-184`); an
  exchanged card leaves the old listing; a folder that cannot be read counts as a success.
- Menus: closing a prompt enables every child of a window again and forgets its clicks; `hideBar` waits for an
  animation without a look at the exit (`handle.cpp:620`). 
- Top sites: a load that fails turns into a search with `new_page` unchanged (`menu.cpp:2150-2152`), so that the page of results becomes the site's
  thumbnail (`html.cpp:483`). A drag exchanges the slots of the settings while the blocks keep text and picture, so that until the menu is opened again a
  displaced block opens and removes the site of the other's slot; `Remove` then frees a picture that the other block still draws
  (`menu.cpp:2356-2361`, `settings.cpp:317`), while the GUI thread runs. `BlocksFitSlots` therefore speaks of the menu up to the first edit of a displaced block. After a
  three-cycle of drags the blocks stand otherwise than the menu shows them when it is opened again.
- Keyboard: in a text longer than the box the caret does not follow letters of different width; a typed text that equals a
  message is shown translated.
- Page: a hidden self-closing tag that is last in a tag of its own name loses the parent's end; an unclosed `<a>` or `<title>` swallows the text behind it;
  a text that reads "script" is skipped. Script text that holds markup makes `markupBudget` and the parser disagree.
- Styles: `p {...}` does not apply to `<p class=x>`; one `}` too many loses the element's rules; `.a.b` is dropped; `!important` is ignored.
- Forms: a checkbox is sent whether checked or not; a text field without a name is sent as `=text` once something was typed in it (`handle.cpp:282`), a prefilled value is
  sent but not shown in its box, and a textarea beyond the limit is dropped while the form is sent without it (`htmlcxx.cpp:503-513`), though any other field there disables the form;
  B on a form without a submit button sends it.
- Entities: `&#0;` and `&#;` give a NUL that ends the address; surrogates are accepted; each jump decodes the address again.
- Fonts: kerning inserts empty glyphs past the limit of 512; with 512 in a cache, new characters are not drawn.
- MEM2: `RemoveMem2Area` refuses every area but the lowest; an area asked for again with another size may be lost.
- Rumble: a request in every frame keeps the motor on; `ShutoffRumble` leaves a request behind.
- Languages: an escaped backslash and octal escapes are dropped; two messages of one hash share a translation.
- Forwarder: only the start and the size of a section are tested (`dolloader.c:30-32`); a program without an entry point is
  given its arguments all the same.

## Not modelled

- Which generation `FindConfig` should prefer when a crash left a folder without a live file: nothing in the repository says.
- What libfat still flushes to a card that was exchanged; `README.md:122` forbids it.
- Attributes of tags beyond those that hide a tag, name a field or give an address; widths and line breaks of a page; positions,
  effects and sounds of widgets; the projection and texture formats of the graphics.
- The MIME table and other constant data.
- The code listed under "Left out".
