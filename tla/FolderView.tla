----------------------------- MODULE FolderView -----------------------------
(***************************************************************************)
(* The rows of the active tab and what the user points at by their number: *)
(* the selection, the rubber band, the pressed row, the file menu, the name *)
(* being edited, the Windows menu, and the item waiting to be revealed.    *)
(*                                                                         *)
(* Everything here runs on the thread of the window, but rows change       *)
(* between two inputs: answers of the folder worker and of the view worker *)
(* (module Enumeration, here reduced to a request in flight), folder sizes *)
(* and the delayed search.  A file stands for a path.                      *)
(*                                                                         *)
(* apps/kova-desktop/src: app_state.rs, bridges.rs, callbacks.rs, main.rs, *)
(* folder_sizes.rs, ui_sync.rs and ui/main.slint.                          *)
(***************************************************************************)
EXTENDS Naturals, FiniteSets, Sequences, Selection

CONSTANTS
  RowFile,
  FirstRows,    \* the rows of the folder at the start
  NoFile, NoPress, NoMenu, NoInline, NoShell, NoReveal,
  Astray,       \* what the user means when a gesture has put back old row numbers
  MaxClicks     \* bound of the model: inputs of the user and of other programs

Listings(S) == {s \in [1..Cardinality(S) -> S] : \A i, j \in DOMAIN s : s[i] = s[j] => i = j}

AllListings == UNION {Listings(S) : S \in SUBSET RowFile}

\* What the user can mean by a selection.
Meanings ==
  [files: SUBSET RowFile, anchor: RowFile \cup {NoFile}, focus: RowFile \cup {NoFile}]

\* An item that waits to be selected, and edited: whether the window is still
\* at its place, and has read it since.
Revealed == [file: RowFile, edit: BOOLEAN, here: BOOLEAN, fresh: BOOLEAN]

ASSUME FolderViewAssumption ==
  /\ IsFiniteSet(RowFile)
  /\ FirstRows \in AllListings /\ NoFile \notin RowFile /\ MaxClicks \in Nat
  /\ NoReveal \notin Revealed /\ Astray \notin Meanings

VARIABLES
  rows, listed,  \* the entries of the snapshot, and whether there is one
  flight,        \* the request of the tab: none, foreground or background
  viewing,       \* the view worker: idle, a view of the same listing, or the
                 \* view that completes the request
  selection,
  press,         \* the left button: the pressed row and the gesture's baseline
  menu,          \* the file menu: its row, and the file it was opened on
  inline,        \* the name being edited: its path and its row
  shellMenu,     \* the Windows menu, opened 32 ms after it was chosen
  typed,         \* the delayed search: none, for this place, for another
  reveal,        \* the item to select once the folder has been read
  clicks,
  meant          \* history variable: the files the user chose
                 \* (so are the fields `rows` and `meant` of a gesture)

rowVars == <<rows, listed, selection, meant>>
mouseVars == <<press, menu, inline>>
viewVars == <<rowVars, flight, viewing, mouseVars, shellMenu, typed, reveal, clicks>>

------------------------------------------------------------------------------
FilesOf(listing) == {listing[i] : i \in DOMAIN listing}

FileAt(listing, i) == IF i \in DOMAIN listing THEN listing[i] ELSE NoFile

RowOf(f, listing) == CHOOSE i \in DOMAIN listing : listing[i] = f

\* The files a selection stands for.
FilesMeant(s, listing) ==
  [files  |-> {listing[i] : i \in s.selected \cap DOMAIN listing},
   anchor |-> FileAt(listing, s.anchor),
   focus  |-> FileAt(listing, s.focus)]

\* What is left of a choice when the rows become `listing`.
StillThere(m, listing) ==
  IF m = Astray THEN Astray ELSE
  [files  |-> m.files \cap FilesOf(listing),
   anchor |-> IF m.anchor \in FilesOf(listing) THEN m.anchor ELSE NoFile,
   focus  |-> IF m.focus \in FilesOf(listing) THEN m.focus ELSE NoFile]

NothingMeant == [files |-> {}, anchor |-> NoFile, focus |-> NoFile]

IsLoading == flight = "foreground"

FolderViewInit ==
  /\ rows = FirstRows /\ listed = TRUE
  /\ flight = "none" /\ viewing = "no"
  /\ selection = NothingSelected /\ meant = NothingMeant
  /\ press = NoPress /\ menu = NoMenu /\ inline = NoInline
  /\ shellMenu = NoShell /\ typed = "no" /\ reveal = NoReveal
  /\ clicks = 0

Click == clicks < MaxClicks /\ clicks' = clicks + 1

------------------------------------------------------------------------------
\* What the window does after every change of the controller.

\* The menu is closed before its row can stand for another file.
MenuAfter == NoMenu

\* Mutation of InlineAfter: the edited name stays in its row.
InlineStays(listing, s) == inline

\* The edited name follows its file, and the edit ends with its selection.
InlineAfter(listing, s) ==
  IF inline = NoInline \/ inline.file \notin FilesMeant(s, listing).files
  THEN NoInline
  ELSE [inline EXCEPT !.row = RowOf(inline.file, listing)]

\* A listing of another request ends the gesture; a view of the same listing
\* does not: the gesture is compared by tab and request (callbacks.rs:286).
PressAfter(sameListing) ==
  IF press = NoPress \/ sameListing THEN press ELSE [press EXCEPT !.same = FALSE]

\* The rows become `listing` and the selection follows its files.
RowsBecome(listing) ==
  /\ rows' = listing
  /\ selection' = Remap(selection, rows, listing)
  /\ meant' = StillThere(meant, listing)
  /\ menu' = MenuAfter
  /\ inline' = InlineAfter(listing, selection')

RowsStay == UNCHANGED <<rows, listed>>

\* The user chooses: what is selected, and what the user means by it.
Choose(s, m) ==
  /\ selection' = s /\ meant' = m
  /\ menu' = MenuAfter
  /\ inline' = InlineAfter(rows, s)

ChooseRows(s) == Choose(s, FilesMeant(s, rows))

Hold(p) == press' = p

ElsewhereFrame == UNCHANGED <<flight, viewing, shellMenu, typed, reveal>>

------------------------------------------------------------------------------
\* Requests of this tab.  A new foreground request keeps the rows of the same
\* place, cancels the view and shows that the folder is loading, which ends
\* a gesture and an edit.
Asked ==
  /\ flight' = "foreground" /\ viewing' = "no"
  /\ press' = NoPress /\ menu' = MenuAfter /\ inline' = NoInline

Refresh ==
  /\ Click /\ Asked
  /\ UNCHANGED <<rowVars, shellMenu, typed, reveal>>

\* Another place: nothing is selected, and there are no rows until they come.
Elsewhere(r) == IF r = NoReveal THEN r ELSE [r EXCEPT !.here = FALSE]

GoElsewhere ==
  /\ Click /\ Asked
  /\ rows' = <<>> /\ listed' = FALSE
  /\ selection' = NothingSelected /\ meant' = NothingMeant
  /\ typed' \in (IF typed = "no" THEN {"no"} ELSE {"away"})
  /\ reveal' = Elsewhere(reveal)
  /\ UNCHANGED shellMenu

\* A notification asks for a background refresh unless one is in flight.
BackgroundRefresh ==
  /\ flight = "none" /\ Click
  /\ flight' = "background"
  /\ UNCHANGED <<rowVars, viewing, mouseVars, shellMenu, typed, reveal>>

\* While a name is edited or a menu is open, answers of background requests
\* and views wait (main.rs:498-542).
HeldBack == menu # NoMenu \/ inline # NoInline

Fresh(r) == IF r = NoReveal THEN r ELSE [r EXCEPT !.fresh = TRUE]

LoadedFrame == UNCHANGED <<shellMenu, typed, clicks>>

AnswerComes ==
  flight # "none" /\ viewing # "listing" /\ (flight = "background" => ~HeldBack)

\* A background refresh that finds the same entries changes nothing.
AnswerUnchanged ==
  /\ AnswerComes /\ flight = "background"
  /\ flight' = "none"
  /\ reveal' = Fresh(reveal)
  /\ UNCHANGED <<rowVars, viewing, mouseVars>> /\ LoadedFrame

AnswerRows(listing) ==
  /\ AnswerComes
  /\ RowsBecome(listing) /\ listed' = TRUE
  /\ Hold(PressAfter(FALSE))
  /\ flight' = "none" /\ viewing' = "no"
  /\ reveal' = Fresh(reveal)
  /\ LoadedFrame

\* A large listing goes to the view worker first; the old rows stay.
AnswerLarge ==
  /\ AnswerComes
  /\ viewing' = "listing"
  /\ UNCHANGED <<rowVars, flight, mouseVars, reveal>> /\ LoadedFrame

AnswerError ==
  /\ AnswerComes
  /\ rows' = <<>> /\ listed' = FALSE
  /\ selection' = NothingSelected /\ meant' = NothingMeant
  /\ menu' = MenuAfter /\ inline' = NoInline
  /\ Hold(PressAfter(FALSE))
  /\ flight' = "none" /\ viewing' = "no"
  /\ reveal' = Fresh(reveal)
  /\ LoadedFrame

ViewAnswer(listing) ==
  /\ viewing # "no" /\ ~HeldBack
  /\ RowsBecome(listing) /\ listed' = TRUE
  /\ Hold(PressAfter(viewing = "view"))
  /\ flight' = (IF viewing = "listing" THEN "none" ELSE flight)
  /\ reveal' = (IF viewing = "listing" THEN Fresh(reveal) ELSE reveal)
  /\ viewing' = "no"
  /\ LoadedFrame

\* The rows are filtered and sorted again: at once, or by the view worker.
Refilter(listing) ==
  \/ /\ listed /\ viewing = "no"
     /\ RowsBecome(listing) /\ UNCHANGED <<listed, viewing>>
  \/ /\ viewing' = (IF listed /\ viewing = "no" THEN "view" ELSE viewing)
     /\ menu' = MenuAfter /\ inline' = InlineAfter(rows, selection)
     /\ UNCHANGED rowVars

\* The user sorts, filters or shows hidden files.
Resort(listing) ==
  /\ press = NoPress /\ Click
  /\ listing \in AllListings
  /\ Refilter(listing)
  /\ UNCHANGED <<flight, press, shellMenu, typed, reveal>>

\* Folder sizes arrive: the rows are sorted again, if they are by size.
SizesArrive(listing) ==
  /\ ~HeldBack /\ Click
  /\ FilesOf(listing) = FilesOf(rows)
  /\ Refilter(listing)
  /\ UNCHANGED <<flight, press, shellMenu, typed, reveal>>

\* The search is applied 150 ms after the last key, to the place it was
\* typed for (callbacks.rs:131-145).
Type ==
  /\ inline = NoInline /\ press = NoPress /\ Click
  /\ typed' = "here"
  /\ UNCHANGED <<rowVars, flight, viewing, mouseVars, shellMenu, reveal>>

SearchNow(listing) ==
  /\ typed # "no" /\ typed' = "no"
  /\ IF typed = "here"
     THEN Refilter(listing)
     ELSE UNCHANGED <<rowVars, viewing, menu, inline>>
  /\ UNCHANGED <<flight, press, shellMenu, reveal, clicks>>

------------------------------------------------------------------------------
\* The keyboard.

SelectEverything ==
  /\ Click /\ ChooseRows(SelectAll(Len(rows)))
  /\ RowsStay /\ ElsewhereFrame /\ UNCHANGED press

SelectNothing ==
  /\ press = NoPress /\ Click
  /\ Choose(NothingSelected, NothingMeant)
  /\ RowsStay /\ ElsewhereFrame /\ UNCHANGED press

\* A key or a click on a row selects it alone; refused while loading.
SelectRow(i) ==
  /\ ~IsLoading /\ i \in DOMAIN rows /\ press = NoPress /\ Click
  /\ ChooseRows(SelectSingle(i))
  /\ RowsStay /\ ElsewhereFrame /\ UNCHANGED press

------------------------------------------------------------------------------
\* The mouse (ui/main.slint:746-830).

\* The left button goes down on row i, or beside the rows (NoRow); a click on
\* a selected row is decided when the button is released.
Gesture(i, additive, click) ==
  [row |-> i, click |-> click, additive |-> additive, same |-> TRUE,
   baseline |-> selection, rows |-> rows, meant |-> meant]

ButtonMayGoDown == ~IsLoading /\ press = NoPress /\ menu = NoMenu /\ Click

\* Pressing the button confirms the name being edited; one that is no valid
\* name stays, as long as its file is selected.
EditConfirmed == inline' \in {NoInline, InlineAfter(rows, selection')} /\ menu' = menu

MeantWith(m, i) ==
  IF m = Astray THEN Astray
  ELSE IF rows[i] \in m.files
  THEN IF m.files = {rows[i]} THEN NothingMeant ELSE [m EXCEPT !.files = @ \ {rows[i]}]
  ELSE [files |-> m.files \cup {rows[i]}, focus |-> rows[i],
        anchor |-> IF m.anchor = NoFile THEN rows[i] ELSE m.anchor]

\* The files from the anchor, which is where its file is now, to row i.
MeantUpTo(m, i) ==
  IF m = Astray THEN Astray ELSE
  LET from == IF m.anchor = NoFile THEN i ELSE RowOf(m.anchor, rows)
  IN  [files |-> {rows[j] : j \in RowsBetween(from, i)}, anchor |-> rows[from], focus |-> rows[i]]

PressRow(i, key) ==
  /\ ButtonMayGoDown /\ i \in DOMAIN rows
  /\ CASE key = "control" /\ i \in selection.selected ->
            Hold(Gesture(i, TRUE, "toggle")) /\ UNCHANGED <<selection, meant>>
       [] key = "control" /\ i \notin selection.selected ->
            /\ Hold(Gesture(i, TRUE, "none"))
            /\ selection' = Toggle(selection, i) /\ meant' = MeantWith(meant, i)
       [] key = "shift" ->
            /\ Hold(Gesture(i, TRUE, "none"))
            /\ selection' = RangeSelect(selection, i) /\ meant' = MeantUpTo(meant, i)
       [] key = "plain" /\ i \in selection.selected ->
            Hold(Gesture(i, FALSE, "select")) /\ UNCHANGED <<selection, meant>>
       [] OTHER ->
            /\ Hold(Gesture(i, FALSE, "none"))
            /\ selection' = SelectSingle(i) /\ meant' = FilesMeant(SelectSingle(i), rows)
  /\ EditConfirmed /\ RowsStay /\ ElsewhereFrame

PressBeside(additive) ==
  /\ ButtonMayGoDown
  /\ Hold(Gesture(NoRow, additive, "none"))
  /\ IF additive THEN UNCHANGED <<selection, meant>>
                 ELSE selection' = NothingSelected /\ meant' = NothingMeant
  /\ EditConfirmed /\ RowsStay /\ ElsewhereFrame

\* The gesture still belongs to these rows, as far as the code can tell.
GestureHolds == press.same /\ ~IsLoading

\* ... but these rows have been sorted or filtered again under it.
SortedUnder == press.same /\ rows # press.rows

\* What the user means by a band over `under`, added to the files of the
\* baseline if `additive`.
MeantByBand(under) ==
  IF press.additive /\ (SortedUnder \/ press.meant = Astray) THEN Astray
  ELSE LET files == {rows[i] : i \in under \cap DOMAIN rows} \cup
                    (IF press.additive THEN press.meant.files ELSE {})
           numbers == {RowOf(f, rows) : f \in files}
       IN  [files |-> files, anchor |-> FileAt(rows, LowestRow(numbers)),
            focus |-> FileAt(rows, HighestRow(numbers))]

\* The band is drawn over the rows first..last: the selection is computed
\* from the row numbers of the baseline.
DrawBand(first, last) ==
  /\ press # NoPress /\ press.row = NoRow /\ Click
  /\ IF GestureHolds
     THEN /\ Choose(Marquee(press.baseline, first..last, press.additive, Len(rows)),
                    MeantByBand(first..last))
          /\ UNCHANGED press
     ELSE Hold([press EXCEPT !.same = FALSE]) /\ UNCHANGED <<selection, meant, menu, inline>>
  /\ RowsStay /\ ElsewhereFrame

\* The button is released: a click that waited is carried out on the row,
\* and chooses the file that is there by now (GestureKeepsToItsFiles).
Release ==
  /\ press # NoPress
  /\ LET i == press.row
     IN  IF press.click = "none" \/ i \notin DOMAIN rows \/ IsLoading
         THEN UNCHANGED <<selection, meant, menu, inline>>
         ELSE IF press.click = "toggle"
         THEN Choose(Toggle(selection, i), MeantWith(meant, i))
         ELSE ChooseRows(SelectSingle(i))
  /\ Hold(NoPress) /\ RowsStay /\ ElsewhereFrame /\ UNCHANGED clicks

\* The pressed row is dragged: the files go to drag and drop.
StartDrag ==
  /\ press # NoPress /\ press.row # NoRow
  /\ Hold(NoPress)
  /\ UNCHANGED <<rowVars, menu, inline, clicks>> /\ ElsewhereFrame

\* Escape restores the baseline.
CancelGesture ==
  /\ press # NoPress
  /\ IF GestureHolds
     THEN Choose(press.baseline, IF SortedUnder THEN Astray ELSE press.meant)
     ELSE UNCHANGED <<selection, meant, menu, inline>>
  /\ Hold(NoPress) /\ RowsStay /\ ElsewhereFrame /\ UNCHANGED clicks

------------------------------------------------------------------------------
\* The file menu, the edited name, and the Windows menu.

\* The right button selects its row, unless it is selected, and opens the
\* menu, unless a name is still edited.
RightButton(i) ==
  /\ ~IsLoading /\ press = NoPress /\ i \in DOMAIN rows /\ Click
  /\ LET chosen == IF i \in selection.selected THEN selection ELSE SelectSingle(i)
     IN  /\ selection' = chosen
         /\ meant' = (IF i \in selection.selected THEN meant ELSE FilesMeant(chosen, rows))
         /\ inline' = (IF i \in selection.selected THEN inline ELSE InlineAfter(rows, chosen))
  /\ menu' = (IF inline' = NoInline THEN [row |-> i, file |-> rows[i]] ELSE NoMenu)
  /\ RowsStay /\ ElsewhereFrame /\ UNCHANGED press

CloseMenu ==
  /\ menu # NoMenu /\ menu' = NoMenu
  /\ UNCHANGED <<rowVars, press, inline, clicks>> /\ ElsewhereFrame

EditName(f, i) == inline' = [file |-> f, row |-> i]

MenuRename ==
  /\ menu # NoMenu /\ menu.row \in DOMAIN rows
  /\ EditName(rows[menu.row], menu.row)
  /\ menu' = NoMenu
  /\ UNCHANGED <<rowVars, press, clicks>> /\ ElsewhereFrame

EndEdit ==
  /\ inline # NoInline /\ inline' = NoInline
  /\ UNCHANGED <<rowVars, press, menu, clicks>> /\ ElsewhereFrame

\* The Windows menu is asked for by row, and opened 32 ms later if the row
\* and the selection still stand for the same files.
MenuShell ==
  /\ menu # NoMenu
  /\ shellMenu' = [row |-> menu.row, file |-> FileAt(rows, menu.row),
               files |-> FilesMeant(selection, rows).files, target |-> {}]
  /\ menu' = NoMenu
  /\ UNCHANGED <<rowVars, press, inline, flight, viewing, typed, reveal, clicks>>

ShellTarget(i) ==
  LET files == FilesMeant(selection, rows).files
  IN  IF FileAt(rows, i) \in files THEN files ELSE {FileAt(rows, i)} \ {NoFile}

ShellContextHolds ==
  /\ FileAt(rows, shellMenu.row) = shellMenu.file
  /\ FilesMeant(selection, rows).files = shellMenu.files

ShellMenuIsOpen == shellMenu # NoShell /\ shellMenu.target # {}

ShellMenuOpens ==
  /\ shellMenu # NoShell /\ ~ShellMenuIsOpen
  /\ shellMenu' = IF ShellContextHolds /\ ShellTarget(shellMenu.row) # {}
              THEN [shellMenu EXCEPT !.target = ShellTarget(shellMenu.row)] ELSE NoShell
  /\ UNCHANGED <<rowVars, flight, viewing, mouseVars, typed, reveal, clicks>>

\* The menu blocks the window until it closes; a command it ran is followed
\* by a refresh.
ShellMenuCloses ==
  /\ ShellMenuIsOpen
  /\ shellMenu' = NoShell
  /\ \/ Asked
     \/ UNCHANGED <<flight, viewing, mouseVars>>
  /\ UNCHANGED <<rowVars, typed, reveal, clicks>>

\* A new, renamed or restored item: every tab is read again, and the item is
\* selected when no request and no view is in flight (main.rs:574-712).
ItemAppears(f, edit) ==
  /\ Click /\ Asked
  /\ reveal' = [file |-> f, edit |-> edit, here |-> TRUE, fresh |-> FALSE]
  /\ UNCHANGED <<rowVars, shellMenu, typed>>

\* Mutation of MayReveal: the views are not waited for.
MayRevealOldRows == TRUE

MayReveal == flight = "none" /\ viewing = "no"

Reveal ==
  /\ reveal # NoReveal /\ MayReveal
  /\ IF reveal.here /\ reveal.file \in FilesOf(rows)
     THEN LET i == RowOf(reveal.file, rows)
          IN  /\ selection' = SelectSingle(i) /\ meant' = FilesMeant(SelectSingle(i), rows)
              /\ menu' = MenuAfter
              /\ IF reveal.edit THEN EditName(reveal.file, i)
                                ELSE inline' = InlineAfter(rows, SelectSingle(i))
     ELSE UNCHANGED <<selection, meant, menu, inline>>
  /\ reveal' = NoReveal
  /\ RowsStay /\ UNCHANGED <<flight, viewing, press, shellMenu, typed, clicks>>

------------------------------------------------------------------------------
RowsArrive ==
  \E listing \in AllListings :
    AnswerRows(listing) \/ ViewAnswer(listing) \/ SizesArrive(listing) \/ SearchNow(listing)

Answers == AnswerUnchanged \/ AnswerLarge \/ AnswerError \/ RowsArrive \/ Reveal

Keyboard ==
  \/ Refresh \/ GoElsewhere \/ Type \/ SelectEverything \/ SelectNothing
  \/ \E i \in DOMAIN rows : SelectRow(i)
  \/ \E listing \in AllListings : Resort(listing)

Mouse ==
  \/ \E i \in DOMAIN rows, key \in {"plain", "control", "shift"} : PressRow(i, key)
  \/ \E additive \in BOOLEAN : PressBeside(additive)
  \/ \E first, last \in 1..Cardinality(RowFile) : DrawBand(first, last)
  \/ Release \/ StartDrag \/ CancelGesture
  \/ \E i \in DOMAIN rows : RightButton(i)

Menus == CloseMenu \/ MenuRename \/ EndEdit \/ MenuShell \/ ShellMenuOpens

\* The open Windows menu is modal.
FolderViewNext ==
  \/ /\ ~ShellMenuIsOpen
     /\ \/ Keyboard \/ Mouse \/ Menus \/ Answers \/ BackgroundRefresh
        \/ \E f \in RowFile, edit \in BOOLEAN : ItemAppears(f, edit)
  \/ ShellMenuCloses

FolderViewSpec == FolderViewInit /\ [][FolderViewNext]_viewVars

------------------------------------------------------------------------------
\* Properties.

\* The selection, its anchor and its focus stand for the files the user chose,
\* whatever refreshes, sorts, filters and searches moved the rows since, also
\* between the press and the release of the button (app_state.rs:285-352,
\* 548-643, 734-782): a later delete or move acts on these files.  A click
\* chooses the file in its row when it is carried out.  Out of reach is only
\* what an additive band or Escape puts back after the same listing was sorted
\* under the gesture, until the next choice; a listing of another request under
\* a gesture is not.
SelectionIsUsers == meant # Astray => meant = FilesMeant(selection, rows)

\* "Selection indices are remapped by full path" (docs/SECURITY_AND_DATA_SAFETY.md:34):
\* the end of a gesture selects no file but those already selected, the one on
\* which the button went down (ui/main.slint:803, 812-816), and those of the
\* baseline that Escape restores (callbacks.rs:284-310).
GestureKeepsToItsFiles ==
  [][(Release \/ CancelGesture) /\ press.meant # Astray =>
       FilesMeant(selection', rows).files \subseteq
         FilesMeant(selection, rows).files \cup press.meant.files
           \cup {FileAt(press.rows, press.row)}]_viewVars

ShellTargetIsItsFiles ==
  ShellMenuIsOpen =>
    shellMenu.target = (IF shellMenu.file \in shellMenu.files THEN shellMenu.files
                                                              ELSE {shellMenu.file})

\* What points at a row by its number acts on the file it was opened for: the
\* file menu (no row changes under it), the name being edited (it follows its
\* file or ends), and the Windows menu, although rows and selection may change
\* in the 32 ms before it opens (main.rs:498-542, 878-887, callbacks.rs:470-508).
PointersAreTheirFiles ==
  /\ menu # NoMenu => FileAt(rows, menu.row) = menu.file
  /\ inline # NoInline => FileAt(rows, inline.row) = inline.file
  /\ ShellTargetIsItsFiles

\* A new item is looked for in rows read after it appeared, never in the old
\* ones, where it would be given up (main.rs:684-712).
RevealIsFresh ==
  [][reveal # NoReveal /\ reveal' = NoReveal => reveal.fresh]_viewVars
==============================================================================
