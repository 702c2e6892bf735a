----------------------------- MODULE ProductCards -----------------------------
(***************************************************************************)
(* The product cards of a dataset: from whatever columns a row has, a card   *)
(* takes a picture, a title and up to four details, by the roles given to    *)
(* the columns, by their names, and by their types.  The cards are drawn     *)
(* anew in the language chosen; a click on one opens its row in the card     *)
(* view.                                                                     *)
(***************************************************************************)
EXTENDS Integers, FiniteSets

CONSTANT PcMaxInputs  \* bound: languages chosen, rows opened, views chosen

VARIABLES
    pcRow,    \* the row: for each column whether it is hidden on cards, empty, or has a text
    pcPage,   \* the language; the view stored for the dataset and the one shown; whether the row is expanded
    pcCard,   \* the card on the page
    pcInputs  \* inputs so far
pcVars == <<pcRow, pcPage, pcCard, pcInputs>>

\* The columns in the order of the dataset; each is named after what its name or role says of it.
PcColumns == {"id", "cover", "photo", "heading", "name", "price", "currency", "rating", "color", "size", "note"}
Position == [id |-> 1, cover |-> 2, photo |-> 3, heading |-> 4, name |-> 5, price |-> 6, currency |-> 7,
             rating |-> 8, color |-> 9, size |-> 10, note |-> 11]
Metadata == "card_metadata"  \* what a row may carry for its card, which is no column
NoColumn == "none"
Places == {"hidden", "empty", "text"}
\* What the columns of a row may be; those left out make no difference to what is shown of the others.
PlacesOf == [id |-> {"text"}, cover |-> {"empty", "text"}, photo |-> {"hidden", "text"}, heading |-> Places,
             name |-> Places, price |-> {"hidden", "text"}, currency |-> Places, rating |-> Places,
             color |-> {"hidden", "text"}, size |-> Places, note |-> {"hidden", "text"}, card_metadata |-> {"hidden", "text"}]
Rows == {row \in [PcColumns \cup {Metadata} -> Places] : \A c \in DOMAIN row : row[c] \in PlacesOf[c]}
PcLanguages == {"en", "fi"}
MAX_DETAIL_COUNT == 4
-----------------------------------------------------------------------------
(* Columns and texts *)

NotHidden(row, c) == FALSE
isHiddenColumn(row, c) == row[c] = "hidden"
isIdColumn(c) == c = "id"
isImageColumnCandidate(c) == c \in {"cover", "photo"}
isCurrencyOnlyColumn(c) == c = "currency"
isTextLikeColumn(c) == c \in {"heading", "name", "currency", "color", "size", "note"}
FirstColumn(S) == IF S = {} THEN NoColumn ELSE CHOOSE c \in S : \A d \in S : Position[c] <= Position[d]
Unhidden(row, S) == {c \in S : ~isHiddenColumn(row, c)}

\* extractLangValue: the text of the language, else the English one; or the only text there is.
NoText == "no text"
extractLangValue(c, lang) == CASE c \in {"heading", "color"} -> lang [] c \in {"name", "size"} -> "en" [] OTHER -> "any"
resolveCardFieldDisplayValue(row, c, lang) ==
    IF c = NoColumn \/ row[c] = "empty" THEN NoText ELSE extractLangValue(c, lang)
Field(row, c, lang) == [column |-> c, text |-> resolveCardFieldDisplayValue(row, c, lang)]

\* The column with the role, else the one with the name, if its value names a picture, else the metadata.
readPayloadCardMetadataValue(row) == IF row[Metadata] = "text" THEN "any" ELSE NoText
resolveProductImage(row, lang) ==
    LET byRole == Field(row, FirstColumn(Unhidden(row, {"cover"})), lang)
        byName == Field(row, FirstColumn(Unhidden(row, {"photo"})), lang)
    IN  CASE byRole.text # NoText -> byRole
          [] byRole.text = NoText /\ byName.text # NoText -> byName
          [] OTHER -> [column |-> NoColumn, text |-> readPayloadCardMetadataValue(row)]

\* The column with the role, else the one with the name, else the first that holds texts; where
\* that one is empty, no other is tried.
resolveProductTitle(row, lang) ==
    LET byRole == Field(row, FirstColumn(Unhidden(row, {"heading"})), lang)
        byName == Field(row, FirstColumn(Unhidden(row, {"name"})), lang)
        byType == Field(row, FirstColumn(Unhidden(row, {c \in PcColumns : isTextLikeColumn(c)})), lang)
    IN  CASE byRole.text # NoText -> byRole
          [] byRole.text = NoText /\ byName.text # NoText -> byName
          [] byRole.text = NoText /\ byName.text = NoText /\ byType.text # NoText -> byType
          [] OTHER -> [column |-> NoColumn, text |-> "Untitled"]
-----------------------------------------------------------------------------
(* Details *)

\* The order in which columns are considered: by name, then by role, then as they come.
Rank(c) == CASE c = "price" -> 1 [] c = "rating" -> 2 [] c = "size" -> 3 [] c = "color" -> 4
             [] OTHER -> 4 + Position[c]
Before(S, c) == Cardinality({d \in S : Rank(d) < Rank(c)})

ByName(row) == Unhidden(row, {"price", "rating"})
addRoleDetailColumns == {"size", "color"}
\* The columns chosen, at least four if there are as many.  A hidden column with a role is among them.
selectedColumns(row, excluded) ==
    LET first == (ByName(row) \cup addRoleDetailColumns) \ excluded
        others == {c \in Unhidden(row, PcColumns) \ (first \cup excluded) :
                     ~isCurrencyOnlyColumn(c) /\ ~isIdColumn(c) /\ ~isImageColumnCandidate(c)}
    IN  first \cup {c \in others : Cardinality(first) + Before(others, c) < MAX_DETAIL_COUNT}

\* formatDetailValue: a price with the currency of the row, a rating out of five.
formatDetailValue(row, c) ==
    CASE c = "price" -> IF row["currency"] = "empty" THEN "" ELSE "currency"
      [] c = "rating" -> "/ 5"
      [] OTHER -> ""
createDetailEntry(row, c, lang) ==
    [column |-> c, text |-> resolveCardFieldDisplayValue(row, c, lang), with |-> formatDetailValue(row, c)]
\* Of the columns chosen, those with a text are shown, up to four.
resolveProductDetails(row, lang, excluded) ==
    LET entries == {c \in Unhidden(row, selectedColumns(row, excluded)) :
                      resolveCardFieldDisplayValue(row, c, lang) # NoText}
    IN  {createDetailEntry(row, c, lang) : c \in {d \in entries : Before(entries, d) < MAX_DETAIL_COUNT}}
-----------------------------------------------------------------------------
(* The page *)

resolveProductCardFields(row, lang) ==
    LET image == resolveProductImage(row, lang)
        title == resolveProductTitle(row, lang)
    IN  [image |-> image, title |-> title, lang |-> lang,
         details |-> resolveProductDetails(row, lang, {image.column, title.column})]
NoCard == [image |-> [column |-> NoColumn, text |-> NoText], title |-> [column |-> NoColumn, text |-> NoText],
           lang |-> "none", details |-> {}]

PcInit ==
    /\ pcRow \in Rows
    /\ \E lang \in PcLanguages :
          /\ pcPage = [lang |-> lang, view |-> "product_card", shown |-> "product_card", expanded |-> FALSE]
          /\ pcCard = resolveProductCardFields(pcRow, lang)
    /\ pcInputs = 0
PcInput == pcInputs < PcMaxInputs /\ pcInputs' = pcInputs + 1

\* The cards on the page are drawn anew from the rows they keep.
refreshProductCardLanguages(lang) ==
    /\ PcInput /\ lang # pcPage.lang
    /\ pcPage' = [pcPage EXCEPT !.lang = lang]
    /\ pcCard' = IF pcPage.shown = "product_card" THEN resolveProductCardFields(pcRow, lang) ELSE pcCard
    /\ UNCHANGED pcRow

\* The card view is stored with the row expanded; the cards stay until it is drawn.
openProductRowArticle ==
    /\ PcInput /\ pcPage.shown = "product_card"
    /\ pcPage' = [pcPage EXCEPT !.view = "card", !.expanded = TRUE]
    /\ UNCHANGED <<pcRow, pcCard>>
\* The user chooses the product cards again.
PcChoose ==
    /\ PcInput /\ pcPage.shown = "card"
    /\ pcPage' = [pcPage EXCEPT !.view = "product_card"]
    /\ UNCHANGED <<pcRow, pcCard>>

\* The view stored is drawn.
create_product_card_view ==
    /\ pcPage.view # pcPage.shown
    /\ pcPage' = [pcPage EXCEPT !.shown = pcPage.view]
    /\ pcCard' = IF pcPage.view = "product_card" THEN resolveProductCardFields(pcRow, pcPage.lang) ELSE NoCard
    /\ UNCHANGED <<pcRow, pcInputs>>

PcNext ==
    \/ \E lang \in PcLanguages : refreshProductCardLanguages(lang)
    \/ openProductRowArticle \/ PcChoose \/ create_product_card_view
PcSpec == PcInit /\ [][PcNext]_pcVars
-----------------------------------------------------------------------------
PcTypeOK ==
    /\ pcRow \in Rows
    /\ pcPage \in [lang : PcLanguages, view : {"product_card", "card"}, shown : {"product_card", "card"}, expanded : BOOLEAN]
    /\ pcCard.details \subseteq [column : PcColumns, text : PcLanguages \cup {"any"}, with : {"", "currency", "/ 5"}]
    /\ pcInputs \in 0..PcMaxInputs

ShownColumns == {e.column : e \in pcCard.details}
Used == {pcCard.image.column, pcCard.title.column}
\* Whatever columns a row has: its card shows no hidden column, no column twice, no identifier, has a
\* title if the columns for one hold any, shows every price, rating and detail by role that has a text
\* and no more than four, leaves none out for one that comes after it, and is in the language of the page
\* while the page changes its language or its view; the view it gives way to shows a row it opened.
PcCardTellsTheRow ==
    /\ pcPage.shown = "product_card" =>
       /\ pcCard.lang = pcPage.lang
       /\ ShownColumns \cap (Used \cup {"id", "cover", "photo", "currency"}) = {}
       /\ pcCard.image.column = pcCard.title.column => pcCard.image.column = NoColumn
       /\ \A c \in (ShownColumns \cup Used) \ {NoColumn} : pcRow[c] = "text"
       /\ \A c \in {"heading", "name"} : pcRow[c] = "text" => pcCard.title.column \in {"heading", "name"}
       /\ Cardinality(ShownColumns) <= MAX_DETAIL_COUNT
       /\ \A c \in {"price", "rating", "size", "color"} \ Used : pcRow[c] = "text" => c \in ShownColumns
       /\ \A c \in ShownColumns, d \in {"heading", "name", "note"} \ Used :
             Rank(d) < Rank(c) /\ pcRow[d] = "text" => d \in ShownColumns
    /\ pcPage.shown = "card" => pcPage.expanded
=============================================================================
