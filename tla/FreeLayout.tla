------------------------------ MODULE FreeLayout ------------------------------
(***************************************************************************)
(* The free layout of the card view: the blocks of every card of a dataset   *)
(* are placed on a grid by one template, kept in localStorage and, while the *)
(* page lives, in a working copy.  In designer mode a block is dragged or    *)
(* resized on one card and every card follows.  Cards are drawn one after    *)
(* another, those without a picture across an await, and each of them merges *)
(* the working copy with the blocks of its own row.  What a click on a card  *)
(* opens is not modelled here.                                               *)
(***************************************************************************)
EXTENDS Integers, SequencesExt

CONSTANTS FlMaxDraws,   \* bound: times cards are drawn: refreshes, more rows, languages
          FlMaxMoves,   \* bound: pointer moves
          FlMaxChanges  \* bound: rows that change, and pages loaded again

VARIABLES
    flStatus,   \* the rows that have a status, on the server
    flStore,    \* localStorage: the template, the designer mode and the card style
    flWorking,  \* workingTemplatesByTable: the places by block, none before the first card
    flCards,    \* the cards on the page, in order
    flBars,     \* the toolbars on the page: the mode each was built in
    flDraws,    \* the drawings of cards under way
    flDrag,     \* the block under the pointer and its place when it was taken
    flHistory,  \* history: the blocks whose places went astray, and why
    flCounts    \* drawings, moves and changes so far
flVars == <<flStatus, flStore, flWorking, flCards, flBars, flDraws, flDrag, flHistory, flCounts>>

GRID_COLUMNS == 24
MIN_LAYOUT_ROWS == 16
FlRows == 1..2
FlPage == <<1>>      \* the rows of a refresh
FlRest == <<2>>      \* the rows that infinite scroll appends
FlPictured == {2}    \* the rows with a picture: their cards are drawn without a wait
\* The columns of the dataset and their roles on a card.
FlColumns == <<"image", "header", "header", "description", "status">>
-----------------------------------------------------------------------------
(* Blocks and their places *)

Block(type, column) == [type |-> type, column |-> column]
FlMedia == Block("media", 0)
FlStatusBlock == Block("status", 0)
FlAction == Block("action", 0)

\* buildExperimentalCardModel: the first header is the header, another one a plain field; a
\* status is a block only of the rows that have one.
FirstOf(role, i) == \A j \in 1..(i - 1) : FlColumns[j] # role
BlockOf(i) == CASE FlColumns[i] = "header" /\ FirstOf("header", i) -> Block("header", i)
                [] FlColumns[i] = "description" -> Block("description", i)
                [] OTHER -> Block("field", i)
ColumnBlocks(type) ==
    LET of == SelectSeq([i \in DOMAIN FlColumns |-> i], LAMBDA i : FlColumns[i] \notin {"image", "status"}
                                                                /\ BlockOf(i).type = type)
    IN  [n \in DOMAIN of |-> BlockOf(of[n])]
FlBlocks == {FlMedia, FlStatusBlock, FlAction}
            \cup {BlockOf(i) : i \in {j \in DOMAIN FlColumns : FlColumns[j] \notin {"image", "status"}}}
BlocksOf(status) == IF status THEN FlBlocks ELSE FlBlocks \ {FlStatusBlock}
\* shouldRenderBlock: an empty field is drawn only in designer mode.  The fields of row 2 are empty.
Shown(row, status, design) ==
    {b \in BlocksOf(status) : b.type = "field" /\ row = 2 => design}

Clamp(n, lo, hi) == IF n < lo THEN lo ELSE IF n > hi THEN hi ELSE n
Or(n, otherwise) == IF n = 0 THEN otherwise ELSE n
\* normalizeExperimentalLayoutItem: inside the grid, a zero being read as nothing.
normalizeExperimentalLayoutItem(p) ==
    LET w == Clamp(Or(p.w, 4), 2, GRID_COLUMNS)
    IN  [x |-> Clamp(Or(p.x, 1), 1, GRID_COLUMNS - w + 1), y |-> Clamp(Or(p.y, 1), 1, 999),
         w |-> w, h |-> Clamp(Or(p.h, 2), 2, 18)]

\* createDefaultExperimentalLayoutTemplate: a picture on the left, the rest on the right.
DefaultPlace(b) ==
    LET nth(bs) == CHOOSE n \in DOMAIN bs : bs[n] = b
        descriptions == Len(ColumnBlocks("description"))
        afterText == IF descriptions = 0 THEN 4 ELSE 5 + 3 * descriptions
        details == IF afterText + 2 > 11 THEN afterText + 2 ELSE 11
        at(x, y, w, h) == normalizeExperimentalLayoutItem([x |-> x, y |-> y, w |-> w, h |-> h])
    IN  CASE b.type = "media" -> at(1, 1, 8, 14)
          [] b.type = "header" -> at(10, 1, 15, 3)
          [] b.type = "description" ->
               LET n == nth(ColumnBlocks("description"))
               IN  at(10, IF n = 1 THEN 4 ELSE 2 + 3 * n, 15, IF n = 1 THEN 4 ELSE 3)
          [] b.type = "status" -> at(10, afterText, 6, 2)
          [] b.type = "field" ->
               LET n == nth(ColumnBlocks("field")) - 1
               IN  at(IF n % 2 = 0 THEN 10 ELSE 18, details + 3 * (n \div 2), 7, 3)
          [] OTHER -> at(20, details + 3 * ((Len(ColumnBlocks("field")) + 1) \div 2), 6, 3)

NoPlaces == [b \in {} |-> 0]
Has(places) == DOMAIN places # {}
\* mergeExperimentalLayoutTemplate: the places stored of the blocks of this row, defaults for the others.
mergeExperimentalLayoutTemplate(stored, blocks) ==
    [b \in blocks |-> IF b \in DOMAIN stored THEN normalizeExperimentalLayoutItem(stored[b]) ELSE DefaultPlace(b)]
Moved(places, b, p) == [c \in DOMAIN places \cup {b} |-> IF c = b THEN p ELSE places[c]]

getExperimentalLayoutRowCount(places) ==
    Max({MIN_LAYOUT_ROWS} \cup {places[b].y + places[b].h - 1 : b \in DOMAIN places})
-----------------------------------------------------------------------------
(* Drawing cards *)

NoDrag == [on |-> <<0, 0>>, block |-> FlMedia, mode |-> "none",
           from |-> [x |-> 1, y |-> 1, w |-> 2, h |-> 2], moved |-> FALSE]
\* A drawing: the cards it has to draw, those made, and the template of the one in the making,
\* which is its own as long as it is the working copy.
Draw(kind, todo) == [kind |-> kind, phase |-> "asked", todo |-> todo, made |-> <<>>, places |-> NoPlaces,
                     own |-> FALSE, rows |-> 0, design |-> FALSE, detached |-> FALSE, astray |-> {}]
Todo(rows) == [i \in DOMAIN rows |-> [key |-> <<0, rows[i]>>, row |-> rows[i], status |-> rows[i] \in flStatus]]
NewDraw(draws, draw) ==
    /\ flCounts.draws < FlMaxDraws
    /\ flDraws' = draws @@ ((flCounts.draws + 1) :> draw)
    /\ flCounts' = [flCounts EXCEPT !.draws = @ + 1]
DrawEnds(d) == [e \in DOMAIN flDraws \ {d} |-> flDraws[e]]

FlInit ==
    /\ flStatus = {1}
    /\ \E design, free \in BOOLEAN, template \in {NoPlaces, [b \in FlBlocks |-> DefaultPlace(FlAction)]} :
          flStore = [template |-> template, design |-> design, free |-> free]
    /\ flWorking = NoPlaces /\ flCards = <<>> /\ flBars = {} /\ flDrag = NoDrag
    /\ flDraws = (1 :> Draw("refresh", <<>>))
    /\ flHistory = [astray |-> {}, dropped |-> {}, unsaved |-> FALSE]
    /\ flCounts = [draws |-> 1, moves |-> 0, changes |-> 0]

\* An element that leaves the page takes the pointer's listeners with it: nothing is persisted.
Interrupted(h) == [h EXCEPT !.unsaved = @ \/ flDrag.moved]
\* The rows of a refresh arrive: the old cards are cleared.  Without the free style none follow.
FlRowsArrive(d) ==
    /\ flDraws[d].phase = "asked"
    /\ LET drawn == IF flStore.free
                      THEN [flDraws EXCEPT ![d].phase = "drawing",
                              ![d].todo = Todo(IF flDraws[d].kind = "refresh" THEN FlPage ELSE FlRest)]
                      ELSE DrawEnds(d)
       IN  IF flDraws[d].kind = "refresh"
             THEN /\ flCards' = <<>> /\ flBars' = {} /\ flDrag' = NoDrag
                  /\ flHistory' = [Interrupted(flHistory) EXCEPT !.astray = {}]
                  /\ flDraws' = [e \in DOMAIN drawn |-> [drawn[e] EXCEPT !.detached = @ \/ e # d]]
             ELSE flDraws' = drawn /\ UNCHANGED <<flCards, flBars, flDrag, flHistory>>
    /\ UNCHANGED <<flStatus, flStore, flWorking, flCounts>>
FlRowsFail(d) ==
    /\ flDraws[d].phase = "asked"
    /\ flDraws' = DrawEnds(d)
    /\ UNCHANGED <<flStatus, flStore, flWorking, flCards, flBars, flDrag, flHistory, flCounts>>

\* ensureWorkingLayoutTemplate: the working copy, or else the stored template, merged with the
\* blocks of this row, becomes the working copy.
Source == IF Has(flWorking) THEN flWorking ELSE flStore.template
Dropped(stored, blocks) == {b \in DOMAIN stored \ blocks : stored[b] # DefaultPlace(b)}
CardOf(d, draw) ==
    LET it == Head(draw.todo)
    IN  [key |-> <<d, it.row>>, row |-> it.row, status |-> it.status, design |-> draw.design, rows |-> draw.rows,
         at |-> [b \in Shown(it.row, it.status, draw.design) |-> draw.places[b]]]
Begun(d) ==
    LET places == mergeExperimentalLayoutTemplate(Source, BlocksOf(Head(flDraws[d].todo).status))
    IN  [flDraws[d] EXCEPT !.phase = "card", !.places = places, !.own = TRUE,
                           !.rows = getExperimentalLayoutRowCount(places), !.design = flStore.design]
FlEnsures(d, draw) ==
    /\ flWorking' = draw.places
    /\ flDraws' = [e \in DOMAIN flDraws |-> IF e = d THEN draw ELSE [flDraws[e] EXCEPT !.own = FALSE]]
Forgets(d, h) == [h EXCEPT !.dropped = @ \cup Dropped(Source, BlocksOf(Head(flDraws[d].todo).status))]

\* A finished card joins those made; one drawn again for a language takes its old card's place.
Finished(d, draw) ==
    [draw EXCEPT !.phase = "drawing", !.todo = Tail(@),
                 !.made = IF draw.kind = "language" THEN @ ELSE Append(@, CardOf(d, draw))]
FlPuts(d, draw, h) ==
    IF draw.kind # "language" THEN flHistory' = h /\ UNCHANGED <<flCards, flDrag>>
    ELSE LET old == Head(draw.todo).key
         IN  /\ flCards' = [i \in DOMAIN flCards |-> IF flCards[i].key = old THEN CardOf(d, draw) ELSE flCards[i]]
             /\ flDrag' = IF flDrag.on = old THEN NoDrag ELSE flDrag
             /\ LET i == IF flDrag.on = old THEN Interrupted(h) ELSE h
                IN  flHistory' = [i EXCEPT !.astray = @ \cup draw.astray]

\* Without a picture the avatar is awaited before the first block is placed.
FlCardBegins(d) ==
    /\ flDraws[d].phase = "drawing" /\ flDraws[d].todo # <<>> /\ Head(flDraws[d].todo).row \notin FlPictured
    /\ FlEnsures(d, Begun(d))
    /\ flHistory' = Forgets(d, flHistory)
    /\ UNCHANGED <<flStatus, flStore, flCards, flBars, flDrag, flCounts>>
FlCardPlaced(d) ==
    /\ flDraws[d].phase = "card"
    /\ flDraws' = [flDraws EXCEPT ![d] = Finished(d, flDraws[d])]
    /\ FlPuts(d, flDraws[d], flHistory)
    /\ UNCHANGED <<flStatus, flStore, flWorking, flBars, flCounts>>
FlPicturedCard(d) ==
    /\ flDraws[d].phase = "drawing" /\ flDraws[d].todo # <<>> /\ Head(flDraws[d].todo).row \in FlPictured
    /\ FlEnsures(d, Finished(d, Begun(d)))
    /\ FlPuts(d, Begun(d), Forgets(d, flHistory))
    /\ UNCHANGED <<flStatus, flStore, flBars, flCounts>>
\* The cards made join the page together, a refresh with a toolbar; cards for a list that was cleared are lost.
FlDrawn(d) ==
    /\ flDraws[d].phase = "drawing" /\ flDraws[d].todo = <<>>
    /\ flDraws' = DrawEnds(d)
    /\ IF flDraws[d].kind = "language" \/ (flDraws[d].kind = "more" /\ flDraws[d].detached)
         THEN UNCHANGED <<flCards, flBars, flHistory>>
         ELSE /\ flCards' = flCards \o flDraws[d].made
              /\ flBars' = IF flDraws[d].kind = "refresh" THEN flBars \cup {flStore.design} ELSE flBars
              /\ flHistory' = [flHistory EXCEPT !.astray = @ \cup flDraws[d].astray]
    /\ UNCHANGED <<flStatus, flStore, flWorking, flDrag, flCounts>>
-----------------------------------------------------------------------------
(* The pointer *)

\* The resize handle of a card drawn in designer mode does not ask whether the mode is still on.
FlPointerDown(i, b, mode) ==
    /\ flDrag = NoDrag /\ flCards[i].design /\ (flStore.design \/ mode = "resize")
    /\ b \in DOMAIN flWorking
    /\ flDrag' = [on |-> flCards[i].key, block |-> b, mode |-> mode, from |-> flWorking[b], moved |-> FALSE]
    /\ UNCHANGED <<flStatus, flStore, flWorking, flCards, flBars, flDraws, flHistory, flCounts>>

\* handlePointerMove: the place follows from where the block was taken, in the working copy, if
\* there is one, and on every card of the page; every canvas gets the rows of the working copy.
Dragged(columns, rows) ==
    normalizeExperimentalLayoutItem(
        IF flDrag.mode = "resize" THEN [flDrag.from EXCEPT !.w = @ + columns, !.h = @ + rows]
        ELSE [flDrag.from EXCEPT !.x = @ + columns, !.y = @ + rows])
OneCard(next, rows) ==
    [i \in DOMAIN flCards |->
        IF flCards[i].key # flDrag.on THEN flCards[i]
          ELSE [flCards[i] EXCEPT !.at = Moved(@, flDrag.block, next), !.rows = rows]]
FollowingCards(next, rows) ==
    [i \in DOMAIN flCards |->
        [flCards[i] EXCEPT !.at = IF flDrag.block \in DOMAIN @ THEN Moved(@, flDrag.block, next) ELSE @,
                           !.rows = rows]]
FlPointerMove(columns, rows) ==
    /\ flDrag # NoDrag /\ flCounts.moves < FlMaxMoves
    /\ flCounts' = [flCounts EXCEPT !.moves = @ + 1]
    /\ flWorking' = IF Has(flWorking) THEN Moved(flWorking, flDrag.block, Dragged(columns, rows)) ELSE flWorking
    /\ flCards' = FollowingCards(Dragged(columns, rows), getExperimentalLayoutRowCount(flWorking'))
    /\ flDraws' = [d \in DOMAIN flDraws |->
          [flDraws[d] EXCEPT !.places = IF flDraws[d].own THEN Moved(@, flDrag.block, Dragged(columns, rows)) ELSE @,
                             !.astray = IF flDraws[d].phase = "asked" THEN @ ELSE @ \cup {flDrag.block}]]
    /\ flDrag' = [flDrag EXCEPT !.moved = Has(flWorking)]
    /\ flHistory' = [flHistory EXCEPT !.astray = IF Has(flWorking) THEN @ ELSE @ \cup {flDrag.block}]
    /\ UNCHANGED <<flStatus, flStore, flBars>>

\* handlePointerUp, of a pointer that goes up or is cancelled: persistWorkingLayoutTemplate.
FlPointerUp ==
    /\ flDrag # NoDrag /\ flDrag' = NoDrag
    /\ flStore' = [flStore EXCEPT !.template = IF Has(flWorking) THEN flWorking ELSE @]
    /\ flHistory' = [flHistory EXCEPT !.unsaved = @ /\ ~Has(flWorking)]
    /\ UNCHANGED <<flStatus, flWorking, flCards, flBars, flDraws, flCounts>>
-----------------------------------------------------------------------------
(* The toolbar, the style, more rows, languages, other users *)

\* The toggle was built for the mode of its time and always leads away from that one.
FlToggle(was) ==
    /\ flStore' = [flStore EXCEPT !.design = ~was]
    /\ NewDraw(flDraws, Draw("refresh", <<>>))
    /\ UNCHANGED <<flStatus, flWorking, flCards, flBars, flDrag, flHistory>>
FlReset ==
    /\ flBars # {}
    /\ flStore' = [flStore EXCEPT !.template = NoPlaces] /\ flWorking' = NoPlaces
    /\ NewDraw([d \in DOMAIN flDraws |->
                   [flDraws[d] EXCEPT !.own = FALSE, !.astray = IF flDraws[d].phase = "asked" THEN @ ELSE FlBlocks]],
               Draw("refresh", <<>>))
    /\ flDrag' = [flDrag EXCEPT !.moved = FALSE]
    /\ flHistory' = [astray |-> FlBlocks, dropped |-> {}, unsaved |-> FALSE]
    /\ UNCHANGED <<flStatus, flCards, flBars>>
FlStyle(free) ==
    /\ flStore' = [flStore EXCEPT !.free = free]
    /\ NewDraw(flDraws, Draw("refresh", <<>>))
    /\ UNCHANGED <<flStatus, flWorking, flCards, flBars, flDrag, flHistory>>
FlMore ==
    /\ flBars # {}
    /\ NewDraw(flDraws, Draw("more", <<>>))
    /\ UNCHANGED <<flStatus, flStore, flWorking, flCards, flBars, flDrag, flHistory>>
\* refreshCardLanguages draws again, in place, the cards that are there when it starts.
FlLanguage ==
    /\ flCards # <<>>
    /\ NewDraw(flDraws, [Draw("language", [i \in DOMAIN flCards |->
                   [key |-> flCards[i].key, row |-> flCards[i].row, status |-> flCards[i].status]]) EXCEPT !.phase = "drawing"])
    /\ UNCHANGED <<flStatus, flStore, flWorking, flCards, flBars, flDrag, flHistory>>

FlChange == flCounts.changes < FlMaxChanges
FlRowChanges(row) ==
    /\ FlChange /\ flCounts' = [flCounts EXCEPT !.changes = @ + 1]
    /\ flStatus' = IF row \in flStatus THEN flStatus \ {row} ELSE flStatus \cup {row}
    /\ UNCHANGED <<flStore, flWorking, flCards, flBars, flDraws, flDrag, flHistory>>
\* The page is loaded again: only localStorage is left.
FlReload ==
    /\ FlChange /\ flCounts' = [flCounts EXCEPT !.changes = @ + 1]
    /\ flWorking' = NoPlaces /\ flCards' = <<>> /\ flBars' = {} /\ flDrag' = NoDrag
    /\ flDraws' = (flCounts.draws :> Draw("refresh", <<>>))
    /\ flHistory' = [astray |-> {}, dropped |-> {}, unsaved |-> FALSE]
    /\ UNCHANGED <<flStatus, flStore>>

FlNext ==
    \/ \E d \in DOMAIN flDraws : FlRowsArrive(d) \/ FlRowsFail(d) \/ FlCardBegins(d) \/ FlCardPlaced(d)
                                 \/ FlPicturedCard(d) \/ FlDrawn(d)
    \/ \E i \in DOMAIN flCards : \E b \in DOMAIN flCards[i].at, mode \in {"drag", "resize"} : FlPointerDown(i, b, mode)
    \/ (\E by \in {<<-8, 20>>, <<30, 0>>} : FlPointerMove(by[1], by[2])) \/ FlPointerUp
    \/ (\E was \in flBars : FlToggle(was)) \/ FlReset \/ (\E free \in BOOLEAN : FlStyle(free))
    \/ FlMore \/ FlLanguage \/ (\E row \in ToSet(FlPage) : FlRowChanges(row)) \/ FlReload
FlSpec == FlInit /\ [][FlNext]_flVars
-----------------------------------------------------------------------------
InGrid(p) == p.x \in 1..GRID_COLUMNS /\ p.w \in 2..GRID_COLUMNS /\ p.x + p.w <= GRID_COLUMNS + 1
             /\ p.y \in 1..999 /\ p.h \in 2..18
FlTypeOK ==
    /\ flStatus \subseteq FlRows
    /\ flStore.design \in BOOLEAN /\ flStore.free \in BOOLEAN
    /\ \A places \in {flStore.template, flWorking} :
          DOMAIN places \subseteq FlBlocks /\ \A b \in DOMAIN places : InGrid(places[b])
    /\ \A i \in DOMAIN flCards : flCards[i].row \in FlRows /\ DOMAIN flCards[i].at \subseteq FlBlocks
    /\ flBars \subseteq BOOLEAN /\ DOMAIN flDraws \subseteq 1..FlMaxDraws
    /\ flDrag.mode \in {"none", "drag", "resize"} /\ InGrid(flDrag.from)
    /\ flCounts.draws \in 1..FlMaxDraws /\ flCounts.moves \in 0..FlMaxMoves /\ flCounts.changes \in 0..FlMaxChanges

\* A block has one place: every card of the page shows it where the working copy has it, within the
\* grid and within the rows of its canvas, and when no block is being dragged that is the place stored,
\* or the default.  Excepted are a block moved while cards were being drawn, the places of a drag that
\* a redraw cut short, and a block that was moved before a card of a row without it was drawn.
FlCardsAsStored ==
    /\ \A i \in DOMAIN flCards : \A b \in DOMAIN flCards[i].at \ (flHistory.astray \cup flHistory.dropped) :
          b \in DOMAIN flWorking =>
            /\ flCards[i].at[b] = flWorking[b] /\ InGrid(flCards[i].at[b])
            /\ flCards[i].at[b].y + flCards[i].at[b].h - 1 <= flCards[i].rows
    /\ (flDrag = NoDrag /\ ~flHistory.unsaved) => \A b \in DOMAIN flWorking \ flHistory.dropped :
          flWorking[b] = IF b \in DOMAIN flStore.template THEN flStore.template[b] ELSE DefaultPlace(b)
=============================================================================
