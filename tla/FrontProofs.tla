----------------------------- MODULE FrontProofs -----------------------------
(***************************************************************************)
(* What is proved of the parts of the front end, for any number of moves,     *)
(* inputs and operations: the routes of the aliases, the page of the address, *)
(* what the open article shows, where what is edited in a matrix of an        *)
(* administrator, a cell or a table's tabs is stored, and that the controls   *)
(* of the filters and their lists show what is filtered.                      *)
(***************************************************************************)
EXTENDS Aliases, Navigation, ArticleMedia, AdminMatrix, Grid, TabConfig, FilterControls, Pickers, TLAPS

-----------------------------------------------------------------------------
(* Aliases: a route leads back to its dataset, whatever is stored, read in part or lost. *)

AlSizes == AlMaxSaves \in Nat /\ AlMaxInputs \in Nat

\* No name that leads to a dataset is taken by another one.
LeadsBack(sets, public) ==
  \A d \in sets, e \in RawNames : public[e] # e /\ public[e] \in {d, public[d]} => e = d

\* A stored alias is one that Accepted let through, and so is what the others take by themselves.
KeepsApart(sets, stored) ==
  \A d \in RawNames : stored[d] # NoAlias =>
    /\ d \in sets /\ stored[d] # d /\ stored[d] \notin sets
    /\ \A e \in sets \ {d} : stored[e] # stored[d] /\ Candidate(e) # stored[d]
    /\ \A e \in RawNames \ {d} : Fallback[e] # stored[d] \/ Fallback[e] = e

\* The entries of the view are what is stored and served, but for the dataset that is being saved.
EntriesKept ==
  alView.open =>
    /\ alView.selected \in alServer.sets
    /\ ~alView.lost =>
         \A d \in RawNames : (alView.stage = "saving" /\ d = alView.selected)
            \/ (alView.entries.stored[d] = alServer.stored[d] /\ alView.entries.public[d] = AlPublic[d])

AlInv ==
  /\ AlTypeOK
  /\ KeepsApart(alServer.sets, alServer.stored)
  /\ alRegistry.loaded => LeadsBack(alServer.sets, alRegistry.public)
  /\ ~alRegistry.outdated => alRegistry.public = AlPublic
  /\ EntriesKept
  /\ \A d \in RawNames : alView.entries.public[d] \in Aliases \cup {d}
  /\ alView.stage # "none" => alView.open

\* The names of the datasets, of their aliases and of their candidates are different ones.
LEMMA NamesApart ==
  /\ \A d \in RawNames : d \in Names /\ d \notin {NoAlias, "s", "x"} /\ Candidate(d) \in Aliases
  /\ \A d, e \in RawNames : Candidate(d) = Candidate(e) /\ Candidate(d) # NoAlias => d = e
  /\ Itself \in [RawNames -> Names] /\ Fallback \in [RawNames -> Names] /\ Nothing \in [RawNames -> Aliases]
  /\ \A d \in RawNames : Nothing[d] = NoAlias
  /\ \A d \in RawNames : /\ Fallback[d] = IF d = "app_s" THEN "s" ELSE d
                         /\ Fallback[d] # d => Candidate(d) = Fallback[d]
  /\ Aliases \ {NoAlias} \subseteq Names
BY DEF RawNames, Names, Aliases, NoAlias, Candidate, Itself, Fallback, Nothing

\* What the server serves, of a dataset: its stored alias, the alias in the code or its candidate.
LEMMA ServedName ==
  ASSUME NEW sets \in SUBSET RawNames, NEW stored \in [RawNames -> Aliases]
  PROVE  /\ Explicit(sets, stored) \in [RawNames -> Names] /\ Effective(sets, stored) \in [RawNames -> Names]
         /\ \A d \in RawNames : Explicit(sets, stored)[d] =
               IF d \in sets /\ stored[d] # NoAlias THEN stored[d] ELSE Fallback[d]
         /\ \A d \in RawNames : \/ Effective(sets, stored)[d] = Explicit(sets, stored)[d]
                                \/ /\ d \in sets /\ Explicit(sets, stored)[d] = d
                                   /\ Candidate(d) # NoAlias /\ Effective(sets, stored)[d] = Candidate(d)
                                   /\ Candidate(d) \notin sets
                                   /\ \A e \in RawNames : \/ Explicit(sets, stored)[e] # Candidate(d)
                                                          \/ Explicit(sets, stored)[e] = e
<1> DEFINE mapped == Explicit(sets, stored)
<1>1. mapped \in [RawNames -> Names] BY NamesApart DEF Explicit
<1>2. \A d \in RawNames : mapped[d] = IF d \in sets /\ stored[d] # NoAlias THEN stored[d] ELSE Fallback[d]
  BY DEF Explicit
<1> DEFINE free(alias) == alias \notin sets /\ \A e \in RawNames : mapped[e] # alias \/ mapped[e] = e
<1>3. Effective(sets, stored) =
        [d \in RawNames |-> IF d \in sets /\ mapped[d] = d /\ Candidate(d) # NoAlias /\ free(Candidate(d))
                            THEN Candidate(d) ELSE mapped[d]] BY DEF Effective
<1> HIDE DEF mapped
<1>4. Effective(sets, stored) \in [RawNames -> Names] BY <1>1, <1>3, NamesApart
<1>5. \A d \in RawNames : \/ Effective(sets, stored)[d] = mapped[d]
                          \/ /\ d \in sets /\ mapped[d] = d /\ Candidate(d) # NoAlias
                             /\ Effective(sets, stored)[d] = Candidate(d) /\ free(Candidate(d)) BY <1>3
<1> QED BY <1>1, <1>2, <1>4, <1>5 DEF mapped

\* Aliases that are kept apart lead back, as they are stored and with the candidates.
LEMMA ServedLeadsBack ==
  ASSUME NEW sets \in SUBSET RawNames, NEW stored \in [RawNames -> Aliases], KeepsApart(sets, stored)
  PROVE  /\ LeadsBack(sets, Explicit(sets, stored))
         /\ LeadsBack(sets, Effective(sets, stored))
<1> DEFINE mapped == Explicit(sets, stored)
           public == Effective(sets, stored)
<1>1. sets \in SUBSET RawNames /\ stored \in [RawNames -> Aliases] OBVIOUS
<1>2. \A d \in RawNames : mapped[d] = IF d \in sets /\ stored[d] # NoAlias THEN stored[d] ELSE Fallback[d]
  BY <1>1, ServedName
<1>3. \A d \in RawNames : \/ public[d] = mapped[d]
                          \/ /\ d \in sets /\ mapped[d] = d /\ Candidate(d) # NoAlias /\ public[d] = Candidate(d)
                             /\ Candidate(d) \notin sets
                             /\ \A e \in RawNames : mapped[e] # Candidate(d) \/ mapped[e] = e
  BY <1>1, ServedName
<1>4. \A d \in RawNames : stored[d] # NoAlias =>
        /\ d \in sets /\ stored[d] # d /\ stored[d] \notin sets
        /\ \A e \in sets \ {d} : stored[e] # stored[d] /\ Candidate(e) # stored[d]
        /\ \A e \in RawNames \ {d} : Fallback[e] # stored[d] \/ Fallback[e] = e BY DEF KeepsApart
<1> HIDE DEF mapped, public
<1>5. LeadsBack(sets, mapped)
 <2> SUFFICES ASSUME NEW d \in sets, NEW e \in RawNames, mapped[e] # e, mapped[e] \in {d, mapped[d]}, e # d
              PROVE  FALSE BY DEF LeadsBack
 <2> QED BY <1>1, <1>2, <1>4, NamesApart
<1>6. LeadsBack(sets, public)
 <2> SUFFICES ASSUME NEW d \in sets, NEW e \in RawNames, public[e] # e, public[e] \in {d, public[d]}, e # d
              PROVE  FALSE BY DEF LeadsBack
 <2>1. d \in RawNames BY <1>1
 <2>2. CASE public[e] = mapped[e] /\ public[d] = mapped[d] BY <1>5, <2>1, <2>2 DEF LeadsBack
 <2>3. CASE public[e] = mapped[e] /\ public[d] # mapped[d] BY <1>3, <1>5, <2>1, <2>3 DEF LeadsBack
 <2>4. CASE public[e] # mapped[e]
  <3>1. e \in sets /\ mapped[e] = e /\ Candidate(e) # NoAlias /\ public[e] = Candidate(e) /\ Candidate(e) \notin sets
    BY <1>3, <2>4
  <3>2. \A f \in RawNames : mapped[f] # Candidate(e) \/ mapped[f] = f BY <1>3, <2>4
  <3>3. public[d] = Candidate(e) BY <3>1
  <3>4. mapped[d] # d => mapped[d] # Candidate(e) BY <2>1, <3>2
  <3> QED BY <1>1, <1>3, <2>1, <3>1, <3>3, <3>4, NamesApart
 <2> QED BY <2>2, <2>3, <2>4
<1> QED BY <1>5, <1>6 DEF mapped, public

\* So does what is served in part, and what the page makes of the names alone.
LEMMA PartLeadsBack ==
  ASSUME NEW sets \in SUBSET RawNames, NEW stored \in [RawNames -> Aliases], KeepsApart(sets, stored)
  PROVE  /\ \A public \in {Effective(sets, Nothing), Explicit(sets, stored), Fallback} : LeadsBack(sets, public)
         /\ LeadsBack(sets, deriveAliasRegistryFromDatasetNames(sets))
         /\ {Effective(sets, Nothing), Explicit(sets, stored), Fallback, deriveAliasRegistryFromDatasetNames(sets)}
              \subseteq [RawNames -> Names]
<1>1. Nothing \in [RawNames -> Aliases] /\ KeepsApart(sets, Nothing) BY NamesApart DEF KeepsApart
<1>2. Explicit(sets, Nothing) = Fallback BY NamesApart DEF Explicit, Fallback, Itself
<1>3. \A d \in RawNames : \/ deriveAliasRegistryFromDatasetNames(sets)[d] = d
                          \/ /\ Candidate(d) # NoAlias /\ Candidate(d) \notin sets
                             /\ deriveAliasRegistryFromDatasetNames(sets)[d] = Candidate(d)
  BY DEF deriveAliasRegistryFromDatasetNames
<1>4. LeadsBack(sets, deriveAliasRegistryFromDatasetNames(sets)) BY <1>3, NamesApart DEF LeadsBack
<1>5. deriveAliasRegistryFromDatasetNames(sets) \in [RawNames -> Names]
  BY NamesApart DEF deriveAliasRegistryFromDatasetNames
<1>6. LeadsBack(sets, Effective(sets, Nothing)) /\ Effective(sets, Nothing) \in [RawNames -> Names]
  BY <1>1, ServedLeadsBack, ServedName
<1>7. LeadsBack(sets, Fallback)
 <2>1. LeadsBack(sets, Explicit(sets, Nothing)) BY <1>1, ServedLeadsBack
 <2> QED BY <1>2, <2>1
<1>8. LeadsBack(sets, Explicit(sets, stored)) /\ Explicit(sets, stored) \in [RawNames -> Names]
  BY ServedLeadsBack, ServedName
<1>9. Fallback \in [RawNames -> Names] BY NamesApart
<1> QED BY <1>4, <1>5, <1>6, <1>7, <1>8, <1>9, Zenon

\* An alias that is accepted is kept apart, and no other dataset is reached by another name for it.
LEMMA StoredApart ==
  ASSUME NEW sets \in SUBSET RawNames, NEW stored \in [RawNames -> Aliases], KeepsApart(sets, stored),
         NEW d \in sets, NEW alias \in Aliases,
         alias # NoAlias =>
           /\ alias # d /\ alias \notin sets
           /\ \A e \in RawNames \ {d} : Effective(sets, stored)[e] # alias \/ Effective(sets, stored)[e] = e
           /\ \A e \in sets \ {d} : Candidate(e) # alias
  PROVE  /\ KeepsApart(sets, [stored EXCEPT ![d] = alias])
         /\ \A e \in RawNames \ {d} : Effective(sets, [stored EXCEPT ![d] = alias])[e] = Effective(sets, stored)[e]
<1> DEFINE mapped == Explicit(sets, stored)
           public == Effective(sets, stored)
           after  == [stored EXCEPT ![d] = alias]
           mappedAfter == Explicit(sets, after)
           publicAfter == Effective(sets, after)
<1>1. d \in RawNames /\ after \in [RawNames -> Aliases] /\ after[d] = alias
        /\ \A e \in RawNames \ {d} : after[e] = stored[e] OBVIOUS
<1> HIDE DEF after
<1>2. \A e \in RawNames : mapped[e] = IF e \in sets /\ stored[e] # NoAlias THEN stored[e] ELSE Fallback[e]
  BY ServedName
<1>3. \A e \in RawNames : mappedAfter[e] = IF e \in sets /\ after[e] # NoAlias THEN after[e] ELSE Fallback[e]
 <2>1. \A new \in [RawNames -> Aliases] : \A e \in RawNames :
         Explicit(sets, new)[e] = IF e \in sets /\ new[e] # NoAlias THEN new[e] ELSE Fallback[e]
   BY ServedName, ZenonT(60)
 <2> QED BY <1>1, <2>1
<1>4. \A e \in RawNames : public[e] = mapped[e] \/ mapped[e] = e BY ServedName
<1>5. \A e \in RawNames : stored[e] # NoAlias =>
        /\ e \in sets /\ stored[e] # e /\ stored[e] \notin sets
        /\ \A f \in sets \ {e} : stored[f] # stored[e] /\ Candidate(f) # stored[e]
        /\ \A f \in RawNames \ {e} : Fallback[f] # stored[e] \/ Fallback[f] = f BY DEF KeepsApart
<1>6. public =
        [e \in RawNames |-> IF e \in sets /\ mapped[e] = e /\ Candidate(e) # NoAlias /\ Candidate(e) \notin sets
                                 /\ \A f \in RawNames : mapped[f] # Candidate(e) \/ mapped[f] = f
                            THEN Candidate(e) ELSE mapped[e]] BY DEF Effective
<1>7. publicAfter =
        [e \in RawNames |-> IF e \in sets /\ mappedAfter[e] = e /\ Candidate(e) # NoAlias /\ Candidate(e) \notin sets
                                 /\ \A f \in RawNames : mappedAfter[f] # Candidate(e) \/ mappedAfter[f] = f
                            THEN Candidate(e) ELSE mappedAfter[e]] BY DEF Effective
<1> HIDE DEF mapped, public, mappedAfter, publicAfter
<1>8. alias # NoAlias => \A e \in RawNames \ {d} :
        /\ stored[e] # alias
        /\ Fallback[e] # alias \/ Fallback[e] = e
 <2> SUFFICES ASSUME alias # NoAlias, NEW e \in RawNames \ {d}
              PROVE  stored[e] # alias /\ (Fallback[e] # alias \/ Fallback[e] = e) OBVIOUS
 <2>1. public[e] # alias \/ public[e] = e BY DEF public
 <2>2. CASE stored[e] = alias BY <1>2, <1>4, <1>5, <2>1, <2>2
 <2>3. CASE stored[e] # alias /\ Fallback[e] = alias /\ Fallback[e] # e
  <3>1. e \notin sets BY <2>3, NamesApart
  <3> QED BY <1>2, <1>4, <2>1, <2>3, <3>1
 <2> QED BY <2>2, <2>3
<1>9. KeepsApart(sets, after)
 <2> SUFFICES ASSUME NEW e \in RawNames, after[e] # NoAlias
              PROVE  /\ e \in sets /\ after[e] # e /\ after[e] \notin sets
                     /\ \A f \in sets \ {e} : after[f] # after[e] /\ Candidate(f) # after[e]
                     /\ \A f \in RawNames \ {e} : Fallback[f] # after[e] \/ Fallback[f] = f BY DEF KeepsApart
 <2>1. CASE e = d BY <1>1, <1>8, <2>1
 <2>2. CASE e # d BY <1>1, <1>5, <1>8, <2>2
 <2> QED BY <2>1, <2>2
<1>10. ASSUME NEW e \in RawNames \ {d} PROVE publicAfter[e] = public[e]
 <2>1. mappedAfter[e] = mapped[e] /\ \A f \in RawNames \ {d} : mappedAfter[f] = mapped[f] BY <1>1, <1>2, <1>3
 <2>2. ASSUME e \in sets, Candidate(e) # NoAlias, mapped[d] # d
       PROVE  mapped[d] # Candidate(e) BY <1>1, <1>2, <1>5, <2>2, NamesApart
 <2>3. ASSUME e \in sets, Candidate(e) # NoAlias, mappedAfter[d] # d
       PROVE  mappedAfter[d] # Candidate(e) BY <1>1, <1>3, <2>3, NamesApart
 <2>4. ASSUME e \in sets, Candidate(e) # NoAlias
       PROVE  (\A f \in RawNames : mapped[f] # Candidate(e) \/ mapped[f] = f)
                <=> (\A f \in RawNames : mappedAfter[f] # Candidate(e) \/ mappedAfter[f] = f)
   BY <2>1, <2>2, <2>3, <2>4
 <2>5. CASE e \in sets /\ Candidate(e) # NoAlias BY <1>6, <1>7, <2>1, <2>4, <2>5
 <2>6. CASE ~(e \in sets /\ Candidate(e) # NoAlias)
  <3>1. public[e] = mapped[e] BY <1>6, <2>6
  <3>2. publicAfter[e] = mappedAfter[e] BY <1>7, <2>6
  <3> QED BY <2>1, <3>1, <3>2
 <2> QED BY <2>5, <2>6
<1> QED BY <1>9, <1>10 DEF after, public, publicAfter

\* A dataset is reached by an alias or by its own name.
LEMMA ReachedBy ==
  ASSUME NEW sets \in SUBSET RawNames, NEW stored \in [RawNames -> Aliases]
  PROVE  \A d \in RawNames : Effective(sets, stored)[d] \in Aliases \cup {d}
<1>1. \A d \in RawNames : Fallback[d] \in Aliases \cup {d} BY NamesApart DEF Aliases
<1>2. \A d \in RawNames : Explicit(sets, stored)[d] = IF d \in sets /\ stored[d] # NoAlias THEN stored[d] ELSE Fallback[d]
  BY ServedName
<1>3. \A d \in RawNames : Explicit(sets, stored)[d] \in Aliases \cup {d} BY <1>1, <1>2
<1>4. \A d \in RawNames : Effective(sets, stored)[d] \in {Explicit(sets, stored)[d], Candidate(d)}
  BY ServedName
<1> QED BY <1>3, <1>4, NamesApart

\* The registry leads back whatever of it is read.
LEMMA ReadLeadsBack ==
  ASSUME AlInv, NEW public \in Degraded \cup {AlPublic, deriveAliasRegistryFromDatasetNames(alServer.sets)}
  PROVE  public \in [RawNames -> Names] /\ LeadsBack(alServer.sets, public)
<1>1. alServer.sets \in SUBSET RawNames /\ alServer.stored \in [RawNames -> Aliases]
        /\ KeepsApart(alServer.sets, alServer.stored) BY DEF AlInv, AlTypeOK
<1>2. AlPublic \in [RawNames -> Names] /\ LeadsBack(alServer.sets, AlPublic)
  BY <1>1, ServedName, ServedLeadsBack DEF AlPublic
<1>3. \A p \in Degraded \cup {deriveAliasRegistryFromDatasetNames(alServer.sets)} :
        p \in [RawNames -> Names] /\ LeadsBack(alServer.sets, p) BY <1>1, PartLeadsBack DEF Degraded
<1> QED BY <1>2, <1>3

\* A registry that leads back translates a public name, and a dataset's own name, to the dataset.
LEMMA Translated ==
  ASSUME AlTypeOK, LeadsBack(alServer.sets, alRegistry.public), NEW d \in alServer.sets
  PROVE  getInternalDatasetName(getPublicDatasetName(d)) = d /\ getInternalDatasetName(d) = d
<1> DEFINE public == alRegistry.public
           claim(n) == {e \in RawNames : public[e] = n /\ e # n}
<1>1. d \in RawNames BY DEF AlTypeOK
<1>2. claim(d) = {} BY <1>1 DEF LeadsBack
<1>3. getInternalDatasetName(d) = d BY <1>2 DEF getInternalDatasetName
<1>4. CASE public[d] = d BY <1>3, <1>4 DEF getPublicDatasetName
<1>5. CASE public[d] # d
 <2>1. claim(public[d]) = {d} BY <1>1, <1>5 DEF LeadsBack
 <2>2. getInternalDatasetName(public[d]) = CHOOSE e \in {d} : TRUE BY <2>1 DEF getInternalDatasetName
 <2> QED BY <1>3, <2>2 DEF getPublicDatasetName
<1> QED BY <1>3, <1>4, <1>5

\* A registry that was read, with the saves that waited for it.
LEMMA AlTaken ==
  ASSUME AlInv, NEW public \in [RawNames -> Names], LeadsBack(alServer.sets, public), NEW outdated \in BOOLEAN,
         ~outdated => public = AlPublic,
         alRegistry' = Taken(public, outdated), AwaitedToo, UNCHANGED <<alServer, alCounts>>
  PROVE  AlInv'
<1>1. AlPublic' = AlPublic BY DEF AlPublic
<1>2. EntriesKept' BY <1>1 DEF AwaitedToo, EntriesKept, AlInv
<1> QED BY <1>1, <1>2 DEF AlInv, AlTypeOK, AlViews, Taken, AwaitedToo

\* An input is counted within its bound.
LEMMA AlCounted ==
  ASSUME AlSizes, AlTypeOK, AlInput
  PROVE  alCounts' \in [saves : 0..AlMaxSaves, inputs : 0..AlMaxInputs]
<1>1. alCounts \in [saves : 0..AlMaxSaves, inputs : 0..AlMaxInputs] BY DEF AlTypeOK
<1>2. alCounts.inputs \in 0..AlMaxInputs /\ alCounts.inputs < AlMaxInputs /\ AlMaxInputs \in Nat
  BY <1>1 DEF AlInput, AlSizes
<1>3. alCounts.inputs + 1 \in 0..AlMaxInputs BY <1>2
<1> QED BY <1>1, <1>3 DEF AlInput

\* Reading the registry, whole, in part or not at all, keeps the invariant.
LEMMA AlRegistryStep ==
  ASSUME AlInv, \/ queueDatasetAliasRegistryRefresh \/ refreshDatasetAliasRegistry \/ dedicatedArrives
                \/ dedicatedFails \/ namesArrive \/ bothFail \/ AlMinute \/ AlReload, AlSizes
  PROVE  AlInv'
<1>1. ASSUME alServer' = alServer PROVE AlPublic' = AlPublic BY <1>1 DEF AlPublic
<1>2. CASE queueDatasetAliasRegistryRefresh
  BY <1>1, <1>2, AlCounted DEF queueDatasetAliasRegistryRefresh, StartLoad, AlInv, AlTypeOK, AlViews, EntriesKept
<1>3. CASE refreshDatasetAliasRegistry
  BY <1>1, <1>3, AlCounted DEF refreshDatasetAliasRegistry, Refreshed, StartLoad, AlInv, AlTypeOK, AlViews, EntriesKept
<1>4. CASE dedicatedArrives
 <2>1. ASSUME alRegistry' = Taken(AlPublic, alView.stage = "saving") PROVE AlInv'
   BY <1>4, <2>1, AlTaken, ReadLeadsBack DEF dedicatedArrives
 <2>2. ASSUME NEW public \in Degraded, alRegistry' = Taken(public, TRUE) PROVE AlInv'
   BY <1>4, <2>2, AlTaken, ReadLeadsBack DEF dedicatedArrives
 <2> QED BY <1>4, <2>1, <2>2 DEF dedicatedArrives
<1>5. CASE dedicatedFails BY <1>1, <1>5 DEF dedicatedFails, AlInv, AlTypeOK, AlViews, EntriesKept
<1>6. CASE namesArrive
 <2>1. ASSUME alRegistry' = Taken(AlPublic, alView.stage = "saving") PROVE AlInv'
   BY <1>6, <2>1, AlTaken, ReadLeadsBack DEF namesArrive
 <2>2. ASSUME NEW public \in Degraded \cup {deriveAliasRegistryFromDatasetNames(alServer.sets)},
              alRegistry' = Taken(public, TRUE)
       PROVE AlInv' BY <1>6, <2>2, AlTaken, ReadLeadsBack DEF namesArrive
 <2> QED BY <1>6, <2>1, <2>2 DEF namesArrive
<1>7. CASE bothFail BY <1>1, <1>7, ZenonT(60) DEF bothFail, AwaitedToo, AlInv, AlTypeOK, AlViews, EntriesKept
<1>8. CASE AlMinute BY <1>1, <1>8, AlCounted DEF AlMinute, AlInv, AlTypeOK, AlViews, EntriesKept
<1>9. CASE AlReload
  BY <1>1, <1>9, AlCounted, NamesApart DEF AlReload, AlInv, AlTypeOK, AlViews, EntriesKept, Aliases, NoAlias
<1> QED BY <1>2, <1>3, <1>4, <1>5, <1>6, <1>7, <1>8, <1>9

\* What the view shows of a dataset can be typed.
LEMMA ShownTyped ==
  ASSUME NEW v \in AlViews,
         NEW d \in RawNames, v.entries.public[d] \in Aliases \cup {d}
  PROVE  /\ EntryShown(v, d) \in AlViews
         /\ EntryShown(v, d).open = v.open /\ EntryShown(v, d).entries = v.entries /\ EntryShown(v, d).selected = d
         /\ EntryShown(v, d).stage = v.stage /\ EntryShown(v, d).lost = v.lost
<1>1. v.entries.stored[d] \in Aliases /\ NoAlias \in Aliases BY DEF Aliases, AlViews
<1> QED BY <1>1 DEF EntryShown, AlViews

\* What is done in the view before a save keeps it.
LEMMA AlEdited ==
  ASSUME AlSizes, AlInv,
         \/ openAliasView \/ useCandidate \/ submitAliasChange \/ clearAlias
         \/ (\E d \in RawNames : applySelectedDataset(d)) \/ (\E alias \in Aliases : typeAlias(alias))
  PROVE  AlInv'
<1>1. ASSUME alServer' = alServer PROVE AlPublic' = AlPublic BY <1>1 DEF AlPublic
<1>2. CASE openAliasView
 <2>1. PICK d \in alServer.sets : alView' = EntryShown([alView EXCEPT !.open = TRUE, !.entries = Entries(alServer)], d)
   BY <1>2 DEF openAliasView
 <2>2. UNCHANGED <<alServer, alRegistry, alCounts>> /\ ~alView.open /\ alView.stage = "none"
   BY <1>2 DEF openAliasView
 <2> DEFINE v == [alView EXCEPT !.open = TRUE, !.entries = Entries(alServer)]
 <2>3. d \in RawNames /\ Entries(alServer) \in [stored : [RawNames -> Aliases], public : [RawNames -> Names]]
   BY ServedName DEF AlInv, AlTypeOK, Entries
 <2>4. /\ v \in AlViews
       /\ v.entries = Entries(alServer) /\ v.open /\ v.stage = "none"
   BY <2>2, <2>3 DEF AlInv, AlTypeOK, AlViews
 <2>5. \A e \in RawNames : v.entries.public[e] \in Aliases \cup {e}
   BY <2>4, ReachedBy DEF AlInv, AlTypeOK, Entries
 <2>0. alView' = EntryShown(v, d) BY <2>1
 <2> HIDE DEF v
 <2>6. /\ alView' \in AlViews
       /\ alView'.open /\ alView'.entries = Entries(alServer) /\ alView'.selected = d /\ alView'.stage = "none"
   BY <2>0, <2>3, <2>4, <2>5, ShownTyped
 <2>7. EntriesKept' BY <1>1, <2>2, <2>6 DEF EntriesKept, Entries, AlPublic
 <2> QED BY <1>1, <2>2, <2>4, <2>5, <2>6, <2>7 DEF AlInv, AlTypeOK
<1>3. ASSUME NEW d \in RawNames, applySelectedDataset(d) PROVE AlInv'
 <2>1. /\ alView' \in AlViews
       /\ alView'.open = alView.open /\ alView'.entries = alView.entries /\ alView'.selected = d
       /\ alView'.stage = alView.stage /\ alView'.lost = alView.lost
  <3>1. alView' = EntryShown(alView, d) BY <1>3 DEF applySelectedDataset
  <3>2. alView \in AlViews /\ alView.entries.public[d] \in Aliases \cup {d} BY DEF AlInv, AlTypeOK
  <3> QED BY <3>1, <3>2, ShownTyped
 <2>2. UNCHANGED <<alServer, alRegistry, alCounts>> /\ alView.stage = "none" /\ alView.open /\ d \in alServer.sets
   BY <1>3 DEF applySelectedDataset, Editable
 <2>3. EntriesKept' BY <1>1, <2>1, <2>2 DEF EntriesKept, AlInv
 <2> QED BY <1>1, <2>1, <2>2, <2>3 DEF AlInv, AlTypeOK
<1>4. ASSUME NEW alias \in Aliases, typeAlias(alias) PROVE AlInv'
  BY <1>1, <1>4, AlCounted, ZenonT(60) DEF typeAlias, Editable, EntriesKept, AlInv, AlTypeOK, AlViews
<1>5. CASE useCandidate
 <2>1. alView.selected \in RawNames BY <1>5 DEF useCandidate, Editable, AlInv, AlTypeOK, EntriesKept
 <2>2. Candidate(alView.selected) \in Aliases BY <2>1, NamesApart
 <2> QED BY <1>1, <1>5, <2>2, ZenonT(60) DEF useCandidate, Editable, EntriesKept, AlInv, AlTypeOK, AlViews
<1>6. ASSUME AlTypeOK, alCounts.saves < AlMaxSaves, alCounts' = [alCounts EXCEPT !.saves = @ + 1]
      PROVE  alCounts' \in [saves : 0..AlMaxSaves, inputs : 0..AlMaxInputs]
 <2>1. alCounts \in [saves : 0..AlMaxSaves, inputs : 0..AlMaxInputs] /\ AlMaxSaves \in Nat
   BY <1>6 DEF AlTypeOK, AlSizes
 <2>2. alCounts.saves + 1 \in 0..AlMaxSaves BY <1>6, <2>1
 <2> QED BY <1>6, <2>1, <2>2
<1>7. CASE submitAliasChange
  BY <1>1, <1>6, <1>7, ZenonT(60) DEF submitAliasChange, Editable, EntriesKept, AlInv, AlTypeOK, AlViews
<1>8. CASE clearAlias
 <2>1. NoAlias \in Aliases BY DEF Aliases
 <2> QED BY <1>1, <1>6, <1>8, <2>1, ZenonT(60) DEF clearAlias, Editable, EntriesKept, AlInv, AlTypeOK, AlViews
<1> QED BY <1>2, <1>3, <1>4, <1>5, <1>7, <1>8

\* So does a save, whether it is served, refused or its answer is lost.
LEMMA AlSaving ==
  ASSUME AlInv, AlSaveServed \/ AlSaveFails \/ AlSaved
  PROVE  AlInv'
<1>1. alServer.sets \in SUBSET RawNames /\ alServer.stored \in [RawNames -> Aliases]
        /\ KeepsApart(alServer.sets, alServer.stored) BY DEF AlInv, AlTypeOK
<1>2. alView \in AlViews BY DEF AlInv, AlTypeOK
<1>3. alView.stage # "none" => alView.open /\ alView.selected \in alServer.sets BY DEF AlInv, EntriesKept
<1>4. CASE AlSaveServed
 <2> DEFINE d == alView.selected
            after == [alServer.stored EXCEPT ![d] = alView.input]
 <2>1. d \in alServer.sets /\ alView.input \in Aliases BY <1>2, <1>3, <1>4 DEF AlSaveServed, AlViews
 <2>2. Accepted(d, alView.input) BY <1>4 DEF AlSaveServed
 <2>3. KeepsApart(alServer.sets, after)
         /\ \A e \in RawNames \ {d} : Effective(alServer.sets, after)[e] = AlPublic[e]
   BY <1>1, <2>1, <2>2, StoredApart DEF Accepted, AlPublic
 <2>4. /\ alServer' = [alServer EXCEPT !.stored = after] /\ UNCHANGED alCounts
       /\ alRegistry' = [alRegistry EXCEPT !.outdated = TRUE]
       /\ alView' = [alView EXCEPT !.stage = "saving"] /\ alView.stage = "asked" BY <1>4 DEF AlSaveServed
 <2>5. alServer'.stored = after /\ alServer'.sets = alServer.sets
         /\ alServer' \in [sets : SUBSET RawNames, stored : [RawNames -> Aliases]]
   BY <1>1, <2>1, <2>4 DEF AlInv, AlTypeOK
 <2>6. AlPublic' = Effective(alServer.sets, after) BY <2>5 DEF AlPublic
 <2>7. \A e \in RawNames \ {d} : after[e] = alServer.stored[e] OBVIOUS
 <2> HIDE DEF after
 <2>8. alView' \in AlViews /\ alView'.selected = d /\ alView'.open = alView.open /\ alView'.stage = "saving"
         /\ alView'.entries = alView.entries /\ alView'.lost = alView.lost BY <1>2, <2>4 DEF AlViews
 <2>9. EntriesKept' BY <1>3, <2>1, <2>3, <2>4, <2>5, <2>6, <2>7, <2>8 DEF AlInv, EntriesKept
 <2> QED BY <1>3, <2>3, <2>4, <2>5, <2>8, <2>9 DEF AlInv, AlTypeOK
<1>5. CASE AlSaveFails
 <2>1. UNCHANGED <<alServer, alRegistry, alCounts>>
         /\ alView' = [alView EXCEPT !.stage = "none", !.lost = @ \/ alView.stage = "saving"]
   BY <1>5 DEF AlSaveFails
 <2>2. AlPublic' = AlPublic BY <2>1 DEF AlPublic
 <2>3. EntriesKept' BY <1>2, <2>1, <2>2 DEF AlInv, EntriesKept, AlViews
 <2> QED BY <1>2, <2>1, <2>2, <2>3 DEF AlInv, AlTypeOK, AlViews
<1>6. CASE AlSaved
 <2> DEFINE d == alView.selected
            v == [alView EXCEPT !.entries = NewEntry(alView)]
            w == EntryShown(v, d)
 <2>1. d \in alServer.sets /\ d \in RawNames /\ alView.open /\ alView.stage = "saving"
   BY <1>1, <1>3, <1>6 DEF AlSaved
 <2>2. UNCHANGED <<alServer, alCounts>> /\ alRegistry' = Refreshed(alRegistry)
         /\ alView' = [w EXCEPT !.stage = IF alRegistry.fresh THEN "none" ELSE "refreshing"]
   BY <1>6 DEF AlSaved
 <2>3. AlPublic' = AlPublic BY <2>2 DEF AlPublic
 <2>4. AlPublic \in [RawNames -> Names] /\ \A e \in RawNames : AlPublic[e] \in Aliases \cup {e}
   BY <1>1, ReachedBy, ServedName DEF AlPublic
 <2>5. /\ NewEntry(alView) \in [stored : [RawNames -> Aliases], public : [RawNames -> Names]]
       /\ NewEntry(alView).stored[d] = alServer.stored[d] /\ NewEntry(alView).public[d] = AlPublic[d]
       /\ \A e \in RawNames \ {d} : /\ NewEntry(alView).stored[e] = alView.entries.stored[e]
                                    /\ NewEntry(alView).public[e] = alView.entries.public[e]
   BY <1>1, <1>2, <2>1, <2>4 DEF NewEntry, AlViews
 <2>6. v \in AlViews /\ v.entries = NewEntry(alView) /\ v.open = alView.open /\ v.lost = alView.lost
   BY <1>2, <2>5 DEF AlViews
 <2>7. \A e \in RawNames : NewEntry(alView).public[e] \in Aliases \cup {e} BY <2>4, <2>5 DEF AlInv
 <2> HIDE DEF v
 <2>8. w \in AlViews /\ w.entries = NewEntry(alView) /\ w.open = alView.open /\ w.lost = alView.lost
         /\ w.selected = d BY <2>1, <2>6, <2>7, ShownTyped
 <2> HIDE DEF w
 <2>9. alView' \in AlViews /\ alView'.entries = NewEntry(alView) /\ alView'.open /\ alView'.lost = alView.lost
         /\ alView'.selected = d /\ alView'.stage # "saving" BY <2>1, <2>2, <2>8 DEF AlViews
 <2>10. EntriesKept' BY <2>1, <2>2, <2>3, <2>5, <2>9 DEF AlInv, EntriesKept
 <2> QED BY <2>2, <2>3, <2>7, <2>9, <2>10 DEF AlInv, AlTypeOK, Refreshed, StartLoad
<1> QED BY <1>4, <1>5, <1>6

\* It holds before anything is read.
LEMMA AlStarts == ASSUME AlSizes, AlInit PROVE AlInv
<1>1. PICK sets \in (SUBSET RawNames) \ {{}}, stored \in {NoAlias, "x"} :
        alServer = [sets |-> sets, stored |-> [d \in RawNames |-> IF d = "t" /\ d \in sets THEN stored ELSE NoAlias]]
  BY DEF AlInit
<1>2. alServer.sets = sets /\ alServer.stored \in [RawNames -> Aliases]
        /\ \A d \in RawNames : alServer.stored[d] = IF d = "t" /\ d \in sets THEN stored ELSE NoAlias
  BY <1>1 DEF Aliases
<1>3. KeepsApart(alServer.sets, alServer.stored)
  BY <1>2 DEF KeepsApart, RawNames, Fallback, Itself, Candidate, NoAlias
<1>4. alRegistry = [public |-> Fallback, load |-> "none", started |-> FALSE, fresh |-> FALSE, loaded |-> FALSE, outdated |-> TRUE]
        /\ alCounts = [saves |-> 0, inputs |-> 0] BY DEF AlInit
<1>5. /\ alView \in AlViews /\ ~alView.open /\ alView.stage = "none"
      /\ \A d \in RawNames : alView.entries.public[d] \in Aliases \cup {d}
  BY NamesApart DEF AlInit, AlViews, NoEntries, Itself, Aliases, NoAlias
<1> QED BY <1>1, <1>2, <1>3, <1>4, <1>5, NamesApart DEF AlInv, AlTypeOK, EntriesKept, AlSizes

\* It says nothing of other variables.
LEMMA AlStutters == ASSUME AlInv, UNCHANGED alVars PROVE AlInv'
BY DEF alVars, AlInv, AlTypeOK, EntriesKept, AlPublic

\* The promise of a route: it leads back to its dataset, whatever was stored, read in part or lost.
THEOREM AlLeadsBack == AlSizes => (AlSpec => [](AlTypeOK /\ AlRoutesLeadBack))
<1> SUFFICES ASSUME AlSizes PROVE AlSpec => [](AlTypeOK /\ AlRoutesLeadBack) OBVIOUS
<1>1. AlInit => AlInv BY AlStarts
<1>2. AlInv /\ [AlNext]_alVars => AlInv' BY AlRegistryStep, AlEdited, AlSaving, AlStutters DEF AlNext
<1>3. AlInv => AlTypeOK /\ AlRoutesLeadBack
 <2> SUFFICES ASSUME AlInv PROVE AlTypeOK /\ AlRoutesLeadBack OBVIOUS
 <2>1. alRegistry.loaded => \A d \in alServer.sets : /\ getInternalDatasetName(getPublicDatasetName(d)) = d
                                                     /\ getInternalDatasetName(d) = d BY Translated DEF AlInv
 <2>2. ~alRegistry.outdated => \A d \in alServer.sets : alRegistry.public[d] = AlPublic[d] BY DEF AlInv
 <2>3. ASSUME alView.open, alView.stage # "saving", ~alView.lost
       PROVE  alView.entries = Entries(alServer) /\ alView.selected \in alServer.sets
  <3>1. /\ alView.entries \in [stored : [RawNames -> Aliases], public : [RawNames -> Names]]
        /\ alServer.stored \in [RawNames -> Aliases] /\ AlPublic \in [RawNames -> Names]
    BY ServedName DEF AlInv, AlTypeOK, AlViews, AlPublic
  <3>2. \A d \in RawNames : alView.entries.stored[d] = alServer.stored[d] /\ alView.entries.public[d] = AlPublic[d]
    BY <2>3 DEF AlInv, EntriesKept
  <3>3. alView.entries.stored = alServer.stored /\ alView.entries.public = AlPublic BY <3>1, <3>2
  <3>4. alView.entries = Entries(alServer) BY <3>1, <3>3 DEF Entries, AlPublic
  <3> QED BY <2>3, <3>4 DEF AlInv, EntriesKept
 <2>4. AlTypeOK BY DEF AlInv
 <2> QED BY <2>1, <2>2, <2>3, <2>4 DEF AlRoutesLeadBack
<1> QED BY <1>1, <1>2, <1>3, PTL DEF AlSpec
-----------------------------------------------------------------------------
(* Navigation: at rest the page shown is the one the address names. *)

NvSizes == NvMaxMoves \in Nat /\ NvMaxEntries \in Nat \ {0}

NvRows == {0, 1}
NvQueries == SUBSET {"filter", "article"}
NvEntries == [name : NvViews, row : NvRows, big : BOOLEAN, query : NvQueries]
NvPages == [built : SUBSET NvViews, shown : SUBSET NvViews, selected : NvDatasets, tab : NvDatasets \cup {NoTab}]
NvArticlesSet == [open : [NvDatasets -> NvRows], wanted : [NvDatasets -> NvRows], closing : BOOLEAN]
NvRunSet == [id : Nat, name : NvViews, skip : BOOLEAN, force : BOOLEAN, pc : {"checks", "loading"}]

\* An entry of an article stands on one of its dataset.
NvStacked(entries) ==
  \A i \in DOMAIN entries : entries[i].row # NoRow =>
    entries[i].big /\ i > 1 /\ entries[i - 1].name = entries[i].name

\* The current entry of a history is one of its entries.
NvHistories == [entries : Seq(NvEntries), pos : Nat \ {0}, backs : Nat]
NvWithin(h) == h \in NvHistories /\ h.pos <= Len(h.entries)

NvShape ==
  /\ nvPage \in NvPages
  /\ NvWithin(nvHistory) /\ Len(nvHistory.entries) <= NvMaxEntries
  /\ nvArticles \in NvArticlesSet
  /\ nvParams \in [NvDatasets -> NvQueries]
  /\ nvRuns \subseteq NvRunSet
  /\ nvCounts \in [moves : Nat, spoiled : BOOLEAN]

\* The page is that of a view, and only its article may be open.
NvShowsOnly(page, name) ==
  /\ page.shown = {name} /\ page.tab = NvTabOf(name)
  /\ name \in NvDatasets => page.selected = name
NvOpenOnlyOn(articles, name) == \A d \in NvDatasets : articles.open[d] # NoRow => d = name

\* At rest the address is shown; a traversal asked for waits for it on the article's own entry.
NvResting ==
  nvRuns = {} =>
    /\ NvShowsOnly(nvPage, NvUrl(nvHistory).name)
    /\ NvOpenOnlyOn(nvArticles, NvUrl(nvHistory).name)
    /\ nvHistory.backs = 0 /\ NvUrl(nvHistory).name \in NvDatasets =>
         nvParams[NvUrl(nvHistory).name] = NvUrl(nvHistory).query
    /\ nvHistory.backs > 0 =>
         /\ nvHistory.backs = 1 /\ NvUrl(nvHistory).row # NoRow
         /\ \A d \in NvDatasets : nvArticles.open[d] = NoRow

\* One navigation runs at a time: over the address it is for, or one that will be.
NvUnderWay ==
  \A r \in nvRuns :
    /\ nvRuns = {r} /\ nvHistory.backs = 0
    /\ r.skip \/ r.pc = "loading" => NvUrl(nvHistory).name = r.name
    /\ r.pc = "loading" => nvPage.shown = {}
    /\ NvOpenOnlyOn(nvArticles, r.name)

NvSettled ==
  /\ NvStacked(nvHistory.entries)
  /\ nvArticles.closing <=> nvHistory.backs > 0
  /\ NvResting
  /\ NvUnderWay

NvInv == NvShape /\ (~nvCounts.spoiled => NvSettled)

\* The current entry is one of the history's.
LEMMA NvUrlTyped ==
  ASSUME NEW h, NvWithin(h)
  PROVE  /\ NvUrl(h) \in NvEntries /\ h.pos \in DOMAIN h.entries /\ Len(h.entries) \in Nat
         /\ NvUrl(h) = h.entries[h.pos] BY DEF NvWithin, NvHistories, NvUrl

\* A history with other entries and another current one.
LEMMA HistoryMoved ==
  ASSUME NEW S, NEW P, NEW B, NEW h \in [entries : S, pos : P, backs : B], NEW s \in S, NEW n \in P,
         NEW p, p = [h EXCEPT !.entries = s, !.pos = n]
  PROVE  p \in [entries : S, pos : P, backs : B] /\ p.entries = s /\ p.pos = n /\ p.backs = h.backs OBVIOUS

\* An entry that is pushed is the current one, and the last.
LEMMA PushedEntry ==
  ASSUME NEW h, NvWithin(h), NEW e \in NvEntries, NEW p, p = pushState(h, e)
  PROVE  /\ NvWithin(p) /\ NvUrl(p) = e /\ p.backs = h.backs /\ Len(p.entries) <= Len(h.entries) + 1
         /\ NvStacked(h.entries) /\ (e.row # NoRow => e.big /\ NvUrl(h).name = e.name) => NvStacked(p.entries)
<1>1. h.entries \in Seq(NvEntries) /\ h.pos \in Nat \ {0} /\ h.pos <= Len(h.entries) /\ h.backs \in Nat
  BY DEF NvWithin, NvHistories
<1>2. p \in NvHistories /\ p.entries = Append(SubSeq(h.entries, 1, h.pos), e) /\ p.pos = h.pos + 1 /\ p.backs = h.backs
 <2>1. SubSeq(h.entries, 1, h.pos) \in Seq(NvEntries) BY <1>1
 <2>2. Append(SubSeq(h.entries, 1, h.pos), e) \in Seq(NvEntries) BY <2>1
 <2> DEFINE s == Append(SubSeq(h.entries, 1, h.pos), e)
 <2>3. p = [h EXCEPT !.entries = s, !.pos = h.pos + 1] BY DEF pushState
 <2> HIDE DEF s
 <2>4. h \in NvHistories /\ s \in Seq(NvEntries) BY <2>2 DEF NvWithin, s
 <2>5. h.pos + 1 \in Nat \ {0} BY <1>1
 <2>6. p \in NvHistories /\ p.entries = s /\ p.pos = h.pos + 1 /\ p.backs = h.backs
  <3>1. h \in [entries : Seq(NvEntries), pos : Nat \ {0}, backs : Nat] BY <2>4 DEF NvHistories
  <3>2. p \in [entries : Seq(NvEntries), pos : Nat \ {0}, backs : Nat] /\ p.entries = s /\ p.pos = h.pos + 1 /\ p.backs = h.backs
    BY <2>3, <2>4, <2>5, <3>1, HistoryMoved
  <3> QED BY <3>2 DEF NvHistories
 <2> QED BY <2>6 DEF s
<1>3. /\ Len(p.entries) = h.pos + 1 /\ p.entries[h.pos + 1] = e
      /\ \A i \in 1..h.pos : p.entries[i] = h.entries[i] BY <1>1, <1>2
<1>4. ASSUME NvStacked(h.entries), e.row # NoRow => e.big /\ NvUrl(h).name = e.name
      PROVE  NvStacked(p.entries)
 <2> SUFFICES ASSUME NEW i \in DOMAIN p.entries, p.entries[i].row # NoRow
              PROVE  p.entries[i].big /\ i > 1 /\ p.entries[i - 1].name = p.entries[i].name BY DEF NvStacked
 <2>1. i \in 1..(h.pos + 1) /\ DOMAIN h.entries = 1..Len(h.entries) BY <1>1, <1>2, <1>3 DEF NvHistories
 <2>2. CASE i = h.pos + 1
  <3>1. i - 1 = h.pos /\ i > 1 /\ h.pos \in 1..h.pos BY <1>1, <2>2
  <3>2. p.entries[i] = e /\ p.entries[i - 1] = NvUrl(h) BY <1>3, <2>2, <3>1 DEF NvUrl
  <3> QED BY <1>4, <3>1, <3>2
 <2>3. CASE i # h.pos + 1
  <3>1. i \in 1..h.pos /\ i \in DOMAIN h.entries BY <1>1, <2>1, <2>3
  <3>2. h.entries[i].big /\ i > 1 /\ h.entries[i - 1].name = h.entries[i].name
   <4>1. h.entries[i].row # NoRow BY <1>3, <3>1
   <4> QED BY <1>4, <3>1, <4>1 DEF NvStacked
  <3>3. i - 1 \in 1..h.pos BY <1>1, <3>1, <3>2
  <3>4. p.entries[i] = h.entries[i] /\ p.entries[i - 1] = h.entries[i - 1] BY <1>3, <3>1, <3>3
  <3> QED BY <3>2, <3>4
 <2> QED BY <2>2, <2>3
<1>5. NvWithin(p) /\ NvUrl(p) = e /\ Len(p.entries) <= Len(h.entries) + 1
  BY <1>1, <1>2, <1>3 DEF NvWithin, NvUrl
<1> QED BY <1>2, <1>4, <1>5

\* An entry that replaces another one of its view takes its place.
LEMMA ReplacedEntry ==
  ASSUME NEW h, NvWithin(h), NEW e \in NvEntries, NEW p, p = replaceState(h, e)
  PROVE  /\ NvWithin(p) /\ NvUrl(p) = e /\ p.backs = h.backs /\ Len(p.entries) = Len(h.entries)
         /\ /\ NvStacked(h.entries) /\ NvUrl(h).name = e.name
            /\ e.row # NoRow => e.big /\ NvUrl(h).row # NoRow
            => NvStacked(p.entries)
<1>1. h.entries \in Seq(NvEntries) /\ h.pos \in Nat \ {0} /\ h.pos <= Len(h.entries) /\ h.backs \in Nat
  BY DEF NvWithin, NvHistories
<1>2. p \in NvHistories /\ p.entries = [h.entries EXCEPT ![h.pos] = e] /\ p.pos = h.pos /\ p.backs = h.backs
  BY <1>1 DEF replaceState, NvWithin, NvHistories
<1>3. /\ Len(p.entries) = Len(h.entries) /\ p.entries[h.pos] = e /\ DOMAIN p.entries = DOMAIN h.entries
      /\ \A i \in DOMAIN h.entries \ {h.pos} : p.entries[i] = h.entries[i] BY <1>1, <1>2
<1>4. ASSUME NvStacked(h.entries), NvUrl(h).name = e.name, e.row # NoRow => e.big /\ NvUrl(h).row # NoRow
      PROVE  NvStacked(p.entries)
 <2> SUFFICES ASSUME NEW i \in DOMAIN p.entries, p.entries[i].row # NoRow
              PROVE  p.entries[i].big /\ i > 1 /\ p.entries[i - 1].name = p.entries[i].name BY DEF NvStacked
 <2>1. i \in DOMAIN h.entries /\ DOMAIN h.entries = 1..Len(h.entries) /\ Len(h.entries) \in Nat BY <1>1, <1>3
 <2>2. p.entries[i].big /\ h.entries[i].row # NoRow /\ p.entries[i].name = h.entries[i].name
   BY <1>3, <1>4, <2>1 DEF NvUrl, NvStacked
 <2>3. i > 1 /\ h.entries[i - 1].name = h.entries[i].name BY <1>4, <2>1, <2>2 DEF NvStacked
 <2>4. i - 1 \in DOMAIN h.entries BY <2>1, <2>3
 <2>5. p.entries[i - 1].name = h.entries[i - 1].name BY <1>3, <1>4, <2>4 DEF NvUrl
 <2> QED BY <2>2, <2>3, <2>5
<1>5. NvWithin(p) /\ NvUrl(p) = e BY <1>1, <1>2, <1>3 DEF NvWithin, NvUrl
<1> QED BY <1>2, <1>3, <1>4, <1>5

\* updateURL: the address is the view's, with its parameters.
LEMMA UpdatedUrl ==
  ASSUME NEW h, NvWithin(h), NEW name \in NvViews, NEW query \in NvQueries, NEW p, p = updateURL(h, name, query)
  PROVE  /\ NvWithin(p) /\ p.backs = h.backs /\ Len(p.entries) <= Len(h.entries) + 1
         /\ NvUrl(p).name = name /\ NvUrl(p).query = query
         /\ NvStacked(h.entries) => NvStacked(p.entries)
<1> DEFINE e == NvEntry(name, NoRow, FALSE, query)
           u == NvUrl(h)
<1>1. e \in NvEntries /\ e.name = name /\ e.row = NoRow /\ e.query = query
  BY DEF NvEntry, NvEntries, NvRows, NoRow
<1>2. p = IF u.name = name /\ u.row = NoRow /\ u.query = query THEN replaceState(h, e) ELSE pushState(h, e)
  BY DEF updateURL
<1>3. Len(h.entries) \in Nat BY NvUrlTyped
<1> HIDE DEF e
<1>4. CASE u.name = name /\ u.row = NoRow /\ u.query = query
 <2>1. p = replaceState(h, e) BY <1>2, <1>4
 <2> QED BY <1>1, <1>3, <1>4, <2>1, ReplacedEntry
<1>5. CASE ~(u.name = name /\ u.row = NoRow /\ u.query = query)
 <2>1. p = pushState(h, e) BY <1>2, <1>5
 <2> QED BY <1>1, <2>1, PushedEntry
<1> QED BY <1>4, <1>5

\* An article's address: in the place of its own, or on the one of its dataset.
LEMMA ArticleUrl ==
  ASSUME NEW h, NvWithin(h), NEW e \in NvEntries, e.row # NoRow, e.big,
         NEW p, \/ p = replaceState(h, e) /\ NvUrl(h).row # NoRow
                \/ p = pushState(h, e)
  PROVE  /\ NvWithin(p) /\ NvUrl(p) = e /\ p.backs = h.backs /\ Len(p.entries) <= Len(h.entries) + 1
         /\ NvStacked(h.entries) /\ NvUrl(h).name = e.name => NvStacked(p.entries)
<1>1. Len(h.entries) \in Nat BY NvUrlTyped
<1>2. CASE p = replaceState(h, e) /\ NvUrl(h).row # NoRow
 <2>1. Len(p.entries) = Len(h.entries) /\ NvWithin(p) /\ NvUrl(p) = e /\ p.backs = h.backs
   BY <1>2, ReplacedEntry
 <2>2. NvStacked(h.entries) /\ NvUrl(h).name = e.name => NvStacked(p.entries) BY <1>2, ReplacedEntry
 <2> QED BY <1>1, <2>1, <2>2
<1>3. CASE p = pushState(h, e) BY <1>3, PushedEntry
<1> QED BY <1>2, <1>3

\* The parameters of the address's dataset become the address's.
LEMMA UrlParams ==
  ASSUME NEW params \in [NvDatasets -> NvQueries], NEW u \in NvEntries
  PROVE  /\ useUrlParams(params, u) \in [NvDatasets -> NvQueries]
         /\ u.name \in NvDatasets => useUrlParams(params, u)[u.name] = u.query BY DEF useUrlParams, NvEntries

\* A navigation that is started is one more under way.
LEMMA RunStarted ==
  ASSUME NvShape, NEW name \in NvViews, NEW skip \in BOOLEAN, NEW force \in BOOLEAN
  PROVE  \E r \in NvRunSet : /\ handle_all_navigation(name, skip, force) = nvRuns \cup {r}
                             /\ r.name = name /\ (skip <=> r.skip) /\ r.pc = "checks"
<1> DEFINE r == [id |-> nvCounts.moves, name |-> name, skip |-> skip, force |-> force, pc |-> "checks"]
<1>1. r \in NvRunSet /\ r.name = name /\ (skip <=> r.skip) /\ r.pc = "checks" BY DEF NvShape, NvRunSet
<1>2. handle_all_navigation(name, skip, force) = nvRuns \cup {r} BY DEF handle_all_navigation
<1> QED BY <1>1, <1>2

\* What the rendering shows is the view alone, with its tab, when all were hidden before.
LEMMA PageShown ==
  ASSUME NEW p \in NvPages, NEW name \in NvViews
  PROVE  /\ NvShow(p, name) \in NvPages /\ NvHideAll(p) \in NvPages
         /\ p.shown = {} => NvShowsOnly(NvShow(p, name), name)
         /\ NvShowsOnly(NvShow(NvHideAll(p), name), name) /\ NvHideAll(p).shown = {}
<1> DEFINE sel == IF name \in NvDatasets THEN name ELSE p.selected
<1>1. /\ p.built \in SUBSET NvViews /\ p.shown \in SUBSET NvViews /\ p.selected \in NvDatasets
      /\ NvTabOf(name) \in NvDatasets \cup {NoTab} /\ sel \in NvDatasets BY DEF NvPages, NvTabOf
<1>2. NvHideAll(p) \in NvPages /\ NvHideAll(p).shown = {} /\ NvHideAll(p).built = p.built /\ NvHideAll(p).selected = p.selected
  BY DEF NvHideAll, NvPages
<1>3. \A q \in NvPages : /\ NvShow(q, name) \in NvPages /\ NvShow(q, name).shown = q.shown \cup {name}
                         /\ NvShow(q, name).tab = NvTabOf(name)
                         /\ name \in NvDatasets => NvShow(q, name).selected = name BY <1>1 DEF NvShow, NvPages
<1> QED BY <1>2, <1>3 DEF NvShowsOnly

\* After the listener no article is open and none is being closed; the view of the address is
\* rendered again, or was shown.
LEMMA Popped ==
  ASSUME NvShape, NEW h, NvWithin(h), NvPopstate(h)
  PROVE  /\ nvArticles' \in NvArticlesSet /\ nvRuns' \subseteq NvRunSet
         /\ ~nvArticles'.closing /\ \A d \in NvDatasets : nvArticles'.open[d] = NoRow
         /\ \/ nvRuns' = nvRuns /\ (nvArticles.closing \/ \E d \in NvDatasets : d = NvUrl(h).name /\ nvArticles.open[d] # NoRow)
            \/ \E r \in NvRunSet : nvRuns' = nvRuns \cup {r} /\ r.name = NvUrl(h).name /\ r.skip /\ r.pc = "checks"
<1> DEFINE u == NvUrl(h)
           open == {d \in NvDatasets : nvArticles.open[d] # NoRow}
           closed == [d \in NvDatasets |-> NoRow]
           left == [d \in NvDatasets |-> IF d \in open THEN NoRow ELSE nvArticles.wanted[d]]
           ends == [nvArticles EXCEPT !.open = closed, !.wanted = left]
           Again(force) == \E r \in NvRunSet : nvRuns' = nvRuns \cup {r} /\ r.name = u.name /\ r.skip /\ r.pc = "checks"
<1>1. u \in NvEntries /\ u.name \in NvViews /\ u.row \in NvRows BY NvUrlTyped DEF NvEntries
<1>2. closed \in [NvDatasets -> NvRows] /\ left \in [NvDatasets -> NvRows] /\ nvArticles \in NvArticlesSet
  BY DEF NvShape, NvArticlesSet, NvRows, NoRow
<1>3. /\ \A a \in NvArticlesSet : /\ [a EXCEPT !.open = closed, !.wanted = left] \in NvArticlesSet
                                  /\ [a EXCEPT !.open = closed, !.wanted = left].open = closed
                                  /\ [a EXCEPT !.open = closed, !.wanted = left].closing = a.closing
 <2> HIDE DEF closed, left
 <2> QED BY <1>2 DEF NvArticlesSet
<1>4. ends \in NvArticlesSet /\ ends.open = closed /\ ends.closing = nvArticles.closing BY <1>2, <1>3
<1>5. \A force \in BOOLEAN : handle_all_navigation(u.name, TRUE, force) = nvRuns' =>
         \E r \in NvRunSet : nvRuns' = nvRuns \cup {r} /\ r.name = u.name /\ r.skip /\ r.pc = "checks"
 <2> SUFFICES ASSUME NEW force \in BOOLEAN, handle_all_navigation(u.name, TRUE, force) = nvRuns'
              PROVE  \E r \in NvRunSet : nvRuns' = nvRuns \cup {r} /\ r.name = u.name /\ r.skip /\ r.pc = "checks"
   OBVIOUS
 <2>1. \E r \in NvRunSet : /\ handle_all_navigation(u.name, TRUE, force) = nvRuns \cup {r}
                           /\ r.name = u.name /\ (TRUE <=> r.skip) /\ r.pc = "checks"
  <3> HIDE DEF u
  <3> QED BY <1>1, RunStarted
 <2> QED BY <2>1
<1>6. \A d : restoreDatasetBasePathState(d) <=> nvRuns' = handle_all_navigation(d, TRUE, TRUE) \/ nvRuns' = nvRuns
  BY DEF restoreDatasetBasePathState
<1>7. IF u.row = NoRow /\ u.name \in open
      THEN nvArticles' = [ends EXCEPT !.closing = FALSE] /\ restoreDatasetBasePathState(u.name)
      ELSE IF nvArticles.closing
      THEN /\ nvArticles' = [ends EXCEPT !.closing = FALSE]
           /\ IF u.row = NoRow /\ u.name \in NvDatasets
              THEN restoreDatasetBasePathState(u.name) ELSE UNCHANGED nvRuns
      ELSE /\ nvArticles' = IF u.name \in NvDatasets THEN [ends EXCEPT !.wanted[u.name] = u.row] ELSE ends
           /\ nvRuns' = handle_all_navigation(u.name, TRUE, u.row # NoRow) BY DEF NvPopstate
<1>8. u.name \in open => \E d \in NvDatasets : d = u.name /\ nvArticles.open[d] # NoRow OBVIOUS
<1>9. \A d \in NvDatasets : closed[d] = NoRow OBVIOUS
<1> HIDE DEF ends, closed, open, u, left
<1>10. [ends EXCEPT !.closing = FALSE] \in NvArticlesSet /\ ~[ends EXCEPT !.closing = FALSE].closing
       /\ [ends EXCEPT !.closing = FALSE].open = closed BY <1>4 DEF NvArticlesSet
<1>11. \A n \in NvDatasets : /\ [ends EXCEPT !.wanted[n] = u.row] \in NvArticlesSet
                             /\ [ends EXCEPT !.wanted[n] = u.row].closing = ends.closing
                             /\ [ends EXCEPT !.wanted[n] = u.row].open = closed
  BY <1>1, <1>4 DEF NvArticlesSet
<1>12. nvRuns \subseteq NvRunSet /\ nvArticles.closing \in BOOLEAN BY DEF NvShape, NvArticlesSet
<1>13. CASE u.row = NoRow /\ u.name \in open
 <2>1. nvArticles' = [ends EXCEPT !.closing = FALSE] /\ (nvRuns' = handle_all_navigation(u.name, TRUE, TRUE) \/ nvRuns' = nvRuns)
   BY <1>6, <1>7, <1>13
 <2>2. nvRuns' \subseteq NvRunSet BY <1>5, <1>12, <2>1
 <2>3. \/ nvRuns' = nvRuns /\ \E d \in NvDatasets : d = u.name /\ nvArticles.open[d] # NoRow
       \/ \E r \in NvRunSet : nvRuns' = nvRuns \cup {r} /\ r.name = u.name /\ r.skip /\ r.pc = "checks"
   BY <1>5, <1>8, <1>13, <2>1
 <2> QED BY <1>9, <1>10, <2>1, <2>2, <2>3 DEF u
<1>14. CASE ~(u.row = NoRow /\ u.name \in open) /\ nvArticles.closing
 <2>1. nvArticles' = [ends EXCEPT !.closing = FALSE] /\ (nvRuns' = handle_all_navigation(u.name, TRUE, TRUE) \/ nvRuns' = nvRuns)
   BY <1>6, <1>7, <1>14
 <2> QED BY <1>5, <1>9, <1>10, <1>12, <1>14, <2>1 DEF u
<1>15. CASE ~(u.row = NoRow /\ u.name \in open) /\ ~nvArticles.closing
 <2>1. nvArticles' = (IF u.name \in NvDatasets THEN [ends EXCEPT !.wanted[u.name] = u.row] ELSE ends)
       /\ nvRuns' = handle_all_navigation(u.name, TRUE, u.row # NoRow) BY <1>7, <1>15
 <2>2. nvArticles' \in NvArticlesSet /\ ~nvArticles'.closing /\ nvArticles'.open = closed
   BY <1>4, <1>11, <1>15, <2>1
 <2>3. \E r \in NvRunSet : nvRuns' = nvRuns \cup {r} /\ r.name = u.name /\ r.skip /\ r.pc = "checks"
   BY <1>5, <2>1
 <2> QED BY <1>9, <1>12, <2>2, <2>3 DEF u
<1> QED BY <1>13, <1>14, <1>15

\* A move is counted, and what it spoils stays spoiled.
LEMMA Counted ==
  ASSUME NvShape, NEW spoils \in BOOLEAN, NvCount(spoils)
  PROVE  /\ nvCounts' \in [moves : Nat, spoiled : BOOLEAN]
         /\ ~nvCounts'.spoiled => ~nvCounts.spoiled /\ ~spoils BY DEF NvShape, NvCount

\* The first view is shown under its address.
LEMMA NvStarts == NvSizes /\ NvInit => NvInv
<1> SUFFICES ASSUME NvSizes, NvInit PROVE NvInv OBVIOUS
<1> DEFINE e == NvEntry("a", NoRow, FALSE, {})
           entries == <<e>>
<1>1. e \in NvEntries /\ e.name = "a" /\ e.row = NoRow /\ e.query = {}
  BY DEF NvEntry, NvEntries, NvRows, NoRow, NvViews, NvDatasets, NvQueries
<1>2. nvHistory = [entries |-> entries, pos |-> 1, backs |-> 0] BY DEF NvInit
<1> HIDE DEF e
<1>3. entries \in Seq(NvEntries) /\ Len(entries) = 1 /\ entries[1] = e /\ DOMAIN entries = {1} BY <1>1
<1>4. NvWithin(nvHistory) /\ NvUrl(nvHistory) = e /\ nvHistory.entries = entries
 <2> HIDE DEF entries
 <2>1. nvHistory.entries = entries /\ nvHistory.pos = 1 BY <1>2
 <2> QED BY <1>2, <1>3, <2>1 DEF NvWithin, NvHistories, NvUrl
<1>5. NvStacked(nvHistory.entries) BY <1>1, <1>3, <1>4 DEF NvStacked
<1>6. NvShape
 <2>1. nvPage \in NvPages /\ nvArticles \in NvArticlesSet /\ nvParams \in [NvDatasets -> NvQueries]
   BY DEF NvInit, NvPages, NvArticlesSet, NvViews, NvDatasets, NvRows, NoRow, NvQueries
 <2>2. nvRuns \subseteq NvRunSet /\ nvCounts \in [moves : Nat, spoiled : BOOLEAN] BY DEF NvInit
 <2>3. Len(nvHistory.entries) <= NvMaxEntries BY <1>3, <1>4 DEF NvSizes
 <2> QED BY <1>4, <2>1, <2>2, <2>3 DEF NvShape
<1>7. NvSettled
 <2>1. nvHistory.backs = 0 /\ nvRuns = {} /\ nvArticles.closing = FALSE BY DEF NvInit
 <2>2. NvShowsOnly(nvPage, "a") BY DEF NvInit, NvShowsOnly, NvTabOf, NvDatasets
 <2>3. NvOpenOnlyOn(nvArticles, "a") /\ nvParams["a"] = {} BY DEF NvInit, NvOpenOnlyOn, NvDatasets
 <2> QED BY <1>1, <1>4, <1>5, <2>1, <2>2, <2>3 DEF NvSettled, NvResting, NvUnderWay
<1> QED BY <1>6, <1>7 DEF NvInv

\* A tab is pressed: the only navigation under way, if nothing is spoiled.
LEMMA TabOpened ==
  ASSUME NvInv, NEW name \in NvViews, openNavTab(name)
  PROVE  NvInv'
<1> DEFINE spoils == NvOverlaps \/ nvHistory.backs > 0 \/ \E d \in NvDatasets \ {name} : nvArticles.open[d] # NoRow
<1>1. NvShape /\ spoils \in BOOLEAN /\ NvCount(spoils) BY DEF NvInv, openNavTab
<1>2. nvCounts' \in [moves : Nat, spoiled : BOOLEAN] /\ (~nvCounts'.spoiled => ~nvCounts.spoiled /\ ~spoils)
 <2> HIDE DEF spoils
 <2> QED BY <1>1, Counted
<1>3. nvRuns' = handle_all_navigation(name, FALSE, FALSE) /\ UNCHANGED <<nvPage, nvHistory, nvArticles, nvParams>>
  BY DEF openNavTab
<1>4. PICK r \in NvRunSet : nvRuns' = nvRuns \cup {r} /\ r.name = name /\ ~r.skip /\ r.pc = "checks"
  BY <1>1, <1>3, RunStarted
<1>5. NvShape' BY <1>1, <1>2, <1>3, <1>4 DEF NvShape, NvWithin
<1>6. ASSUME ~nvCounts'.spoiled PROVE NvSettled'
 <2>1. NvSettled /\ nvRuns = {} /\ nvHistory.backs = 0 /\ NvOpenOnlyOn(nvArticles, name)
  <3>1. nvHistory.backs \in Nat BY <1>1 DEF NvShape, NvWithin, NvHistories
  <3> QED BY <1>2, <1>6, <3>1 DEF NvInv, NvOverlaps, NvOpenOnlyOn
 <2>2. nvRuns' = {r} BY <1>4, <2>1
 <2>3. NvUnderWay' /\ NvResting' BY <1>3, <1>4, <2>1, <2>2 DEF NvUnderWay, NvResting
 <2> QED BY <1>3, <2>1, <2>3 DEF NvSettled
<1> QED BY <1>5, <1>6 DEF NvInv

\* Refused, or not loaded: the promise is given up.
LEMMA Refused ==
  ASSUME NvInv, NEW r \in nvRuns, NvRefused(r) \/ NvLoadFails(r)
  PROVE  NvInv'
<1>1. NvShape BY DEF NvInv
<1>2. /\ nvRuns' = nvRuns \ {r} /\ nvParams' = useUrlParams(nvParams, NvUrl(nvHistory))
      /\ nvCounts' = [nvCounts EXCEPT !.spoiled = TRUE] /\ UNCHANGED <<nvHistory, nvArticles>>
      /\ nvPage' = nvPage \/ nvPage' = [nvPage EXCEPT !.tab = NvTabOf(r.name)] BY DEF NvRefused, NvLoadFails
<1>3. r \in NvRunSet /\ r.name \in NvViews /\ NvTabOf(r.name) \in NvDatasets \cup {NoTab}
  BY <1>1 DEF NvShape, NvRunSet, NvTabOf
<1>4. nvPage' \in NvPages BY <1>1, <1>2, <1>3 DEF NvShape, NvPages
<1>5. nvParams' \in [NvDatasets -> NvQueries] BY <1>1, <1>2, NvUrlTyped, UrlParams DEF NvShape
<1>6. nvCounts' \in [moves : Nat, spoiled : BOOLEAN] /\ nvCounts'.spoiled BY <1>1, <1>2 DEF NvShape
<1> QED BY <1>1, <1>2, <1>4, <1>5, <1>6 DEF NvInv, NvShape, NvWithin

\* The address becomes the view's, which is shown or being loaded.
LEMMA Rendered ==
  ASSUME NvSizes, NvInv, NEW r \in nvRuns, viewRenderStage(r)
  PROVE  NvInv'
<1> DEFINE query == IF r.name \in NvDatasets THEN nvParams[r.name] ELSE {}
           h == IF r.skip THEN nvHistory ELSE updateURL(nvHistory, r.name, query)
           ready == r.name \in nvPage.built /\ ~r.force
           loading == [r EXCEPT !.pc = "loading"]
<1>1. NvShape /\ r \in NvRunSet /\ r.name \in NvViews /\ r.pc = "checks" /\ Len(nvHistory.entries) \in Nat
  BY NvUrlTyped DEF NvInv, NvShape, NvRunSet, viewRenderStage
<1>2. /\ nvHistory' = h
      /\ nvParams' = IF ready THEN useUrlParams(nvParams, NvUrl(h)) ELSE nvParams
      /\ nvPage' = IF ready THEN NvShow(NvHideAll(nvPage), r.name) ELSE NvHideAll(nvPage)
      /\ nvRuns' = (nvRuns \ {r}) \cup (IF ready THEN {} ELSE {loading})
      /\ nvArticles' = nvArticles /\ nvCounts' = nvCounts
      /\ r.skip \/ Len(nvHistory.entries) < NvMaxEntries BY DEF viewRenderStage
<1>3. query \in NvQueries BY <1>1 DEF NvShape, NvQueries
<1>4. /\ NvWithin(h) /\ h.backs = nvHistory.backs
      /\ NvStacked(nvHistory.entries) => NvStacked(h.entries)
      /\ ~r.skip => NvUrl(h).name = r.name
      /\ Len(h.entries) <= Len(nvHistory.entries) + 1 /\ (r.skip => h = nvHistory)
 <2> HIDE DEF query
 <2> QED BY <1>1, <1>3, UpdatedUrl DEF NvShape
<1>5. loading \in NvRunSet /\ loading.name = r.name /\ loading.pc = "loading" BY <1>1 DEF NvRunSet
<1> HIDE DEF h, query, loading
<1>6. Len(h.entries) <= NvMaxEntries
 <2>1. Len(h.entries) \in Nat BY <1>4, NvUrlTyped
 <2>2. CASE r.skip BY <1>1, <1>4, <2>2 DEF NvShape
 <2>3. CASE ~r.skip
  <3>1. Len(nvHistory.entries) < NvMaxEntries /\ Len(nvHistory.entries) <= NvMaxEntries
    BY <1>1, <1>2, <2>3 DEF NvShape
  <3>2. NvMaxEntries \in Nat BY DEF NvSizes
  <3> QED BY <1>1, <1>4, <2>1, <3>1, <3>2
 <2> QED BY <2>2, <2>3
<1>7. NvShape'
 <2>1. nvPage' \in NvPages BY <1>1, <1>2, PageShown DEF NvShape
 <2>2. nvParams' \in [NvDatasets -> NvQueries] BY <1>1, <1>2, <1>4, NvUrlTyped, UrlParams DEF NvShape
 <2>3. nvRuns' \subseteq NvRunSet BY <1>1, <1>2, <1>5 DEF NvShape
 <2>4. NvWithin(nvHistory') /\ Len(nvHistory'.entries) <= NvMaxEntries BY <1>2, <1>4, <1>6
 <2> QED BY <1>1, <1>2, <2>1, <2>2, <2>3, <2>4 DEF NvShape, NvWithin
<1>8. ASSUME ~nvCounts'.spoiled PROVE NvSettled'
 <2>1. /\ NvStacked(nvHistory.entries) /\ nvRuns = {r} /\ nvHistory.backs = 0 /\ ~nvArticles.closing
       /\ r.skip => NvUrl(nvHistory).name = r.name
       /\ NvOpenOnlyOn(nvArticles, r.name) BY <1>2, <1>8 DEF NvInv, NvSettled, NvUnderWay
 <2>2. NvStacked(nvHistory'.entries) /\ nvHistory'.backs = 0 /\ NvUrl(nvHistory').name = r.name /\ NvUrl(h) \in NvEntries
   BY <1>2, <1>4, <2>1, NvUrlTyped
 <2>3. CASE ready
  <3>1. nvRuns' = {} /\ nvPage' = NvShow(NvHideAll(nvPage), r.name) /\ nvParams' = useUrlParams(nvParams, NvUrl(h))
    BY <1>2, <2>1, <2>3
  <3>2. NvShowsOnly(nvPage', r.name) BY <1>1, <3>1, PageShown DEF NvShape
  <3>3. NvUrl(nvHistory').name \in NvDatasets => nvParams'[NvUrl(nvHistory').name] = NvUrl(nvHistory').query
    BY <1>1, <1>2, <2>2, <3>1, UrlParams DEF NvShape
  <3>4. NvResting' BY <1>2, <2>1, <2>2, <3>2, <3>3 DEF NvResting
  <3>5. NvUnderWay' BY <3>1 DEF NvUnderWay
  <3> QED BY <1>2, <2>1, <2>2, <3>4, <3>5 DEF NvSettled
 <2>4. CASE ~ready
  <3>1. nvRuns' = {loading} /\ nvPage' = NvHideAll(nvPage) BY <1>2, <2>1, <2>4
  <3>2. nvPage'.shown = {} BY <1>1, <3>1, PageShown DEF NvShape
  <3>3. NvUnderWay' BY <1>2, <1>5, <2>1, <2>2, <3>1, <3>2 DEF NvUnderWay
  <3>4. NvResting' BY <3>1 DEF NvResting
  <3> QED BY <1>2, <2>1, <2>2, <3>3, <3>4 DEF NvSettled
 <2> QED BY <2>3, <2>4
<1> QED BY <1>7, <1>8 DEF NvInv

\* A view that was loaded is shown, with the article that its address asks for.
LEMMA Loaded ==
  ASSUME NvInv, NEW r \in nvRuns, NvLoaded(r)
  PROVE  NvInv'
<1> DEFINE row == IF r.name \in NvDatasets THEN nvArticles.wanted[r.name] ELSE NoRow
           params == IF row = NoRow THEN nvParams ELSE buildRowArticleQueryString(nvParams, r.name)
           query == IF row = NoRow THEN {} ELSE params[r.name]
           e == NvEntry(r.name, row, TRUE, query)
           h == IF row = NoRow THEN nvHistory
                ELSE IF NvUrl(nvHistory).name = r.name /\ NvUrl(nvHistory).row = row
                     THEN replaceState(nvHistory, e) ELSE pushState(nvHistory, e)
<1>1. NvShape /\ r \in NvRunSet /\ r.name \in NvViews /\ r.pc = "loading"
  BY DEF NvInv, NvShape, NvRunSet, NvLoaded
<1>2. /\ nvHistory' = h /\ (row = NoRow \/ Len(h.entries) <= NvMaxEntries)
      /\ nvArticles' = IF row = NoRow THEN nvArticles ELSE [nvArticles EXCEPT !.open[r.name] = row]
      /\ nvParams' = useUrlParams(nvParams, NvUrl(h))
      /\ nvPage' = NvShow(nvPage, r.name) /\ nvRuns' = nvRuns \ {r} /\ nvCounts' = nvCounts BY DEF NvLoaded
<1>3. row \in NvRows /\ query \in NvQueries /\ (row # NoRow => r.name \in NvDatasets)
  BY <1>1 DEF NvShape, NvArticlesSet, NvRows, NoRow, NvQueries, buildRowArticleQueryString
<1> HIDE DEF row, query, params
<1>4. /\ NvWithin(h) /\ h.backs = nvHistory.backs
      /\ NvStacked(nvHistory.entries) /\ NvUrl(nvHistory).name = r.name => NvStacked(h.entries) /\ NvUrl(h).name = r.name
      /\ row = NoRow => h = nvHistory
 <2>1. NvWithin(nvHistory) BY <1>1 DEF NvShape
 <2>2. CASE row = NoRow BY <2>1, <2>2
 <2>3. CASE row # NoRow
  <3>1. row \in NvRows \ {NoRow} BY <1>3, <2>3
  <3>2. h = IF NvUrl(nvHistory).name = r.name /\ NvUrl(nvHistory).row = row
            THEN replaceState(nvHistory, e) ELSE pushState(nvHistory, e) BY <2>3
  <3>3. e \in NvEntries /\ e.name = r.name /\ e.row = row /\ e.row # NoRow /\ e.big
    BY <1>1, <1>3, <3>1 DEF NvEntry, NvEntries
  <3> HIDE DEF e, h
  <3>4. (h = replaceState(nvHistory, e) /\ NvUrl(nvHistory).row # NoRow) \/ h = pushState(nvHistory, e)
    BY <2>3, <3>2
  <3>5. /\ NvWithin(h) /\ NvUrl(h) = e /\ h.backs = nvHistory.backs
        /\ NvStacked(nvHistory.entries) /\ NvUrl(nvHistory).name = r.name => NvStacked(h.entries)
    BY <2>1, <3>3, <3>4, ArticleUrl
  <3> QED BY <2>3, <3>3, <3>5
 <2> QED BY <2>2, <2>3
<1> HIDE DEF h
<1>5. NvShape'
 <2>1. nvPage' \in NvPages BY <1>1, <1>2, PageShown DEF NvShape
 <2>2. nvParams' \in [NvDatasets -> NvQueries] BY <1>1, <1>2, <1>4, NvUrlTyped, UrlParams DEF NvShape
 <2>3. NvWithin(nvHistory') /\ Len(nvHistory'.entries) <= NvMaxEntries BY <1>1, <1>2, <1>4 DEF NvShape
 <2>4. nvArticles' \in NvArticlesSet BY <1>1, <1>2, <1>3 DEF NvShape, NvArticlesSet
 <2> QED BY <1>1, <1>2, <2>1, <2>2, <2>3, <2>4 DEF NvShape, NvWithin
<1>6. ASSUME ~nvCounts'.spoiled PROVE NvSettled'
 <2>1. /\ NvStacked(nvHistory.entries) /\ nvRuns = {r} /\ nvHistory.backs = 0 /\ ~nvArticles.closing
       /\ NvUrl(nvHistory).name = r.name /\ nvPage.shown = {}
       /\ NvOpenOnlyOn(nvArticles, r.name) BY <1>1, <1>2, <1>6 DEF NvInv, NvSettled, NvUnderWay
 <2>2. NvStacked(nvHistory'.entries) /\ nvHistory'.backs = 0 /\ NvUrl(nvHistory').name = r.name /\ NvUrl(h) \in NvEntries
   BY <1>2, <1>4, <2>1, NvUrlTyped
 <2>3. NvShowsOnly(nvPage', r.name) BY <1>1, <1>2, <2>1, PageShown DEF NvShape
 <2>4. NvUrl(nvHistory').name \in NvDatasets => nvParams'[NvUrl(nvHistory').name] = NvUrl(nvHistory').query
   BY <1>1, <1>2, <2>2, UrlParams DEF NvShape
 <2>5. NvOpenOnlyOn(nvArticles', r.name) /\ ~nvArticles'.closing
   BY <1>1, <1>2, <1>3, <2>1 DEF NvOpenOnlyOn, NvShape, NvArticlesSet
 <2>6. nvRuns' = {} BY <1>2, <2>1
 <2>7. NvResting' BY <2>2, <2>3, <2>4, <2>5 DEF NvResting
 <2>8. NvUnderWay' BY <2>6 DEF NvUnderWay
 <2> QED BY <2>2, <2>5, <2>7, <2>8 DEF NvSettled
<1> QED BY <1>5, <1>6 DEF NvInv

\* A filter goes into the parameters and the address of the view alike.
LEMMA ParamsSet ==
  ASSUME NvInv, setParams
  PROVE  NvInv'
<1> DEFINE s == nvPage.selected
           e == NvEntry(s, NoRow, FALSE, nvParams'[s])
<1>1. NvShape /\ s \in NvDatasets /\ NvCount(FALSE) /\ Len(nvHistory.entries) \in Nat
  BY NvUrlTyped DEF NvInv, NvShape, NvPages, setParams
<1>2. /\ nvRuns = {} /\ nvHistory.backs = 0 /\ NvUrl(nvHistory).name = s /\ NvUrl(nvHistory).row = NoRow
      /\ nvParams' = [nvParams EXCEPT ![s] = @ \cup {"filter"}]
      /\ nvHistory' = replaceState(nvHistory, e)
      /\ UNCHANGED <<nvPage, nvArticles, nvRuns>> BY DEF setParams
<1>3. nvParams' \in [NvDatasets -> NvQueries] /\ nvParams'[s] \in NvQueries
  BY <1>1, <1>2 DEF NvShape, NvQueries
<1>4. e \in NvEntries /\ e.name = s /\ e.row = NoRow /\ e.query = nvParams'[s]
  BY <1>1, <1>3 DEF NvEntry, NvEntries, NvRows, NoRow, NvViews
<1>5. nvCounts' \in [moves : Nat, spoiled : BOOLEAN] /\ (~nvCounts'.spoiled => ~nvCounts.spoiled)
  BY <1>1, Counted
<1> HIDE DEF e, s
<1>6. /\ NvWithin(nvHistory') /\ NvUrl(nvHistory') = e /\ nvHistory'.backs = 0
      /\ Len(nvHistory'.entries) = Len(nvHistory.entries)
      /\ NvStacked(nvHistory.entries) => NvStacked(nvHistory'.entries)
 <2>1. NvWithin(nvHistory) /\ nvHistory' = replaceState(nvHistory, e) BY <1>1, <1>2 DEF NvShape
 <2> QED BY <1>2, <1>4, <2>1, ReplacedEntry
<1>7. NvShape' BY <1>1, <1>2, <1>3, <1>5, <1>6 DEF NvShape, NvWithin
<1>8. ASSUME ~nvCounts'.spoiled PROVE NvSettled'
 <2>1. NvStacked(nvHistory.entries) /\ ~nvArticles.closing /\ NvShowsOnly(nvPage, s) /\ NvOpenOnlyOn(nvArticles, s)
   BY <1>2, <1>5, <1>8 DEF NvInv, NvSettled, NvResting
 <2>2. NvUrl(nvHistory').name = s /\ NvUrl(nvHistory').query = nvParams'[s] BY <1>4, <1>6
 <2>3. NvResting' BY <1>2, <1>6, <2>1, <2>2 DEF NvResting
 <2>4. NvUnderWay' BY <1>2 DEF NvUnderWay
 <2> QED BY <1>2, <1>6, <2>1, <2>3, <2>4 DEF NvSettled
<1> QED BY <1>7, <1>8 DEF NvInv

\* An article's entry stands on the one of its dataset.
LEMMA ArticleOpened ==
  ASSUME NvSizes, NvInv, NEW d \in NvDatasets, openRowArticleView(d)
  PROVE  NvInv'
<1> DEFINE e == NvEntry(d, 1, TRUE, nvParams'[d])
           spoils == NvOverlaps \/ nvHistory.backs > 0
<1>1. NvShape /\ NvCount(spoils) /\ spoils \in BOOLEAN /\ d \in NvViews /\ Len(nvHistory.entries) \in Nat
  BY NvUrlTyped DEF NvInv, NvShape, NvViews, openRowArticleView
<1>2. /\ Len(nvHistory.entries) < NvMaxEntries /\ d \in nvPage.shown
      /\ nvArticles' = [nvArticles EXCEPT !.open[d] = 1, !.wanted[d] = 1]
      /\ nvParams' = [nvParams EXCEPT ![d] = @ \cup {"article"}]
      /\ nvHistory' = IF NvUrl(nvHistory).name = d /\ NvUrl(nvHistory).row = 1
                      THEN replaceState(nvHistory, e) ELSE pushState(nvHistory, e)
      /\ UNCHANGED <<nvPage, nvRuns>> BY DEF openRowArticleView, buildRowArticleQueryString
<1>3. nvParams' \in [NvDatasets -> NvQueries] /\ nvParams'[d] \in NvQueries
  BY <1>1, <1>2 DEF NvShape, NvQueries
<1>4. nvCounts' \in [moves : Nat, spoiled : BOOLEAN] /\ (~nvCounts'.spoiled => ~nvCounts.spoiled /\ ~spoils)
 <2> HIDE DEF spoils
 <2> QED BY <1>1, Counted
<1>5. 1 \in NvRows \ {NoRow} BY DEF NvRows, NoRow
<1>6. /\ NvWithin(nvHistory') /\ NvUrl(nvHistory').name = d /\ NvUrl(nvHistory').query = nvParams'[d]
      /\ nvHistory'.backs = nvHistory.backs /\ Len(nvHistory'.entries) <= Len(nvHistory.entries) + 1
      /\ NvStacked(nvHistory.entries) /\ NvUrl(nvHistory).name = d => NvStacked(nvHistory'.entries)
 <2> DEFINE query == nvParams'[d]
 <2>1. query \in NvQueries /\ NvWithin(nvHistory) BY <1>1, <1>3 DEF NvShape
 <2>2. e \in NvEntries /\ e.name = d /\ e.row # NoRow /\ e.query = query /\ e.big
   BY <1>1, <1>3, <1>5 DEF NvEntry, NvEntries, NoRow, NvRows
 <2>3. (nvHistory' = replaceState(nvHistory, e) /\ NvUrl(nvHistory).row # NoRow) \/ nvHistory' = pushState(nvHistory, e)
   BY <1>2, <1>5
 <2> HIDE DEF query, e, spoils
 <2>4. /\ NvWithin(nvHistory') /\ NvUrl(nvHistory') = e
       /\ nvHistory'.backs = nvHistory.backs /\ Len(nvHistory'.entries) <= Len(nvHistory.entries) + 1
       /\ NvStacked(nvHistory.entries) /\ NvUrl(nvHistory).name = d => NvStacked(nvHistory'.entries)
   BY <2>1, <2>2, <2>3, ArticleUrl
 <2> QED BY <2>2, <2>4 DEF query
<1>7. NvShape'
 <2>1. nvArticles' \in NvArticlesSet BY <1>1, <1>2, <1>5 DEF NvShape, NvArticlesSet
 <2>2. Len(nvHistory'.entries) \in Nat BY <1>6, NvUrlTyped
 <2>3. Len(nvHistory'.entries) <= NvMaxEntries
  <3>1. /\ Len(nvHistory.entries) \in Nat /\ Len(nvHistory.entries) < NvMaxEntries
        /\ Len(nvHistory'.entries) <= Len(nvHistory.entries) + 1 /\ NvMaxEntries \in Nat
    BY <1>1, <1>2, <1>6 DEF NvSizes
  <3> QED BY <2>2, <3>1
 <2> QED BY <1>1, <1>2, <1>3, <1>4, <1>6, <2>1, <2>3 DEF NvShape, NvWithin
<1>8. ASSUME ~nvCounts'.spoiled PROVE NvSettled'
 <2>1. nvRuns = {} /\ nvHistory.backs = 0
  <3>1. nvHistory.backs \in Nat BY <1>1 DEF NvShape, NvWithin, NvHistories
  <3> QED BY <1>4, <1>8, <3>1 DEF NvOverlaps
 <2>2. /\ NvStacked(nvHistory.entries) /\ ~nvArticles.closing /\ NvShowsOnly(nvPage, NvUrl(nvHistory).name)
       /\ NvOpenOnlyOn(nvArticles, NvUrl(nvHistory).name) BY <1>4, <1>8, <2>1 DEF NvInv, NvSettled, NvResting
 <2>3. NvUrl(nvHistory).name = d BY <1>2, <2>2 DEF NvShowsOnly
 <2>4. NvOpenOnlyOn(nvArticles', d) /\ ~nvArticles'.closing
   BY <1>1, <1>2, <2>2, <2>3 DEF NvOpenOnlyOn, NvShape, NvArticlesSet
 <2>5. NvResting'
  <3>1. NvShowsOnly(nvPage', d) /\ NvOpenOnlyOn(nvArticles', d) /\ nvHistory'.backs = 0
    BY <1>2, <1>6, <2>1, <2>2, <2>3, <2>4
  <3>2. NvUrl(nvHistory').name = d /\ nvParams'[d] = NvUrl(nvHistory').query BY <1>6
  <3> QED BY <3>1, <3>2 DEF NvResting
 <2>6. NvUnderWay' BY <1>2, <2>1 DEF NvUnderWay
 <2> QED BY <1>6, <2>1, <2>2, <2>3, <2>4, <2>5, <2>6 DEF NvSettled
<1> QED BY <1>7, <1>8 DEF NvInv

\* An article is closed with the step back that takes its entry away.
LEMMA ArticleClosed ==
  ASSUME NvInv, NEW d \in NvDatasets, closeBigCard(d)
  PROVE  NvInv'
<1> DEFINE u == NvUrl(nvHistory)
           onRow == u.name = d /\ u.row # NoRow
           e == NvEntry(d, NoRow, FALSE, {})
           spoils == NvOverlaps \/ nvHistory.backs > 0
<1>1. NvShape /\ NvCount(spoils) /\ spoils \in BOOLEAN /\ Len(nvHistory.entries) \in Nat /\ u \in NvEntries
  BY NvUrlTyped DEF NvInv, NvShape, closeBigCard
<1>2. /\ d \in nvPage.shown /\ nvArticles.open[d] # NoRow
      /\ nvArticles' = [nvArticles EXCEPT !.open[d] = NoRow, !.wanted[d] = NoRow, !.closing = @ \/ (onRow /\ u.big)]
      /\ nvHistory' = IF ~onRow THEN nvHistory
                      ELSE IF u.big THEN [nvHistory EXCEPT !.backs = @ + 1] ELSE replaceState(nvHistory, e)
      /\ UNCHANGED <<nvPage, nvParams, nvRuns>> BY DEF closeBigCard
<1>3. nvCounts' \in [moves : Nat, spoiled : BOOLEAN] /\ (~nvCounts'.spoiled => ~nvCounts.spoiled /\ ~spoils)
 <2> HIDE DEF spoils
 <2> QED BY <1>1, Counted
<1>4. e \in NvEntries /\ e.name = d BY DEF NvEntry, NvEntries, NvRows, NoRow, NvViews, NvQueries
<1>5. nvArticles' \in NvArticlesSet
 <2>1. (nvArticles.closing \/ (onRow /\ u.big)) \in BOOLEAN /\ NoRow \in NvRows BY DEF NoRow, NvRows
 <2> QED BY <1>1, <1>2, <2>1 DEF NvShape, NvArticlesSet
<1>6. NvWithin([nvHistory EXCEPT !.backs = @ + 1]) /\ [nvHistory EXCEPT !.backs = @ + 1].entries = nvHistory.entries
      /\ [nvHistory EXCEPT !.backs = @ + 1].pos = nvHistory.pos /\ [nvHistory EXCEPT !.backs = @ + 1].backs = nvHistory.backs + 1
  BY <1>1 DEF NvShape, NvWithin, NvHistories
<1>7. NvShape'
 <2> HIDE DEF e, u
 <2>1. NvWithin(nvHistory') /\ Len(nvHistory'.entries) = Len(nvHistory.entries)
   BY <1>1, <1>2, <1>4, <1>6, ReplacedEntry DEF NvShape
 <2> QED BY <1>1, <1>2, <1>3, <1>5, <2>1 DEF NvShape, NvWithin
<1>8. ASSUME ~nvCounts'.spoiled PROVE NvSettled'
 <2>1. nvRuns = {} /\ nvHistory.backs = 0
  <3>1. nvHistory.backs \in Nat BY <1>1 DEF NvShape, NvWithin, NvHistories
  <3> QED BY <1>3, <1>8, <3>1 DEF NvOverlaps
 <2>2. /\ NvStacked(nvHistory.entries) /\ ~nvArticles.closing /\ NvShowsOnly(nvPage, u.name)
       /\ NvOpenOnlyOn(nvArticles, u.name) /\ (u.name \in NvDatasets => nvParams[u.name] = u.query)
   BY <1>3, <1>8, <2>1 DEF NvInv, NvSettled, NvResting
 <2>3. u.name = d BY <1>2, <2>2 DEF NvShowsOnly
 <2>4. \A c \in NvDatasets : nvArticles'.open[c] = NoRow
   BY <1>1, <1>2, <2>2, <2>3 DEF NvOpenOnlyOn, NvShape, NvArticlesSet
 <2>5. CASE ~onRow
  <3>1. nvHistory' = nvHistory /\ ~nvArticles'.closing BY <1>1, <1>2, <2>2, <2>5 DEF NvShape, NvArticlesSet
  <3>2. NvOpenOnlyOn(nvArticles', u.name) BY <2>4 DEF NvOpenOnlyOn
  <3>3. NvResting'
   <4>1. NvShowsOnly(nvPage', u.name) /\ (u.name \in NvDatasets => nvParams'[u.name] = u.query)
         /\ nvHistory'.backs = 0 /\ NvUrl(nvHistory') = u BY <1>2, <2>1, <2>2, <3>1
   <4> HIDE DEF u
   <4> QED BY <3>2, <4>1 DEF NvResting
  <3>4. NvUnderWay' BY <1>2, <2>1 DEF NvUnderWay
  <3> QED BY <2>1, <2>2, <3>1, <3>3, <3>4 DEF NvSettled
 <2>6. CASE onRow
  <3>1. u.big BY <1>1, <2>2, <2>6, NvUrlTyped DEF NvStacked, NvShape
  <3>2. nvHistory' = [nvHistory EXCEPT !.backs = @ + 1] /\ nvArticles'.closing
    BY <1>1, <1>2, <2>6, <3>1 DEF NvShape, NvArticlesSet
  <3>3. nvHistory'.backs = 1 /\ NvUrl(nvHistory') = u /\ nvHistory'.entries = nvHistory.entries
    BY <1>6, <2>1, <3>2 DEF NvUrl
  <3>4. NvOpenOnlyOn(nvArticles', u.name) BY <2>4 DEF NvOpenOnlyOn
  <3>5. NvResting' BY <1>2, <2>1, <2>2, <2>4, <2>6, <3>3, <3>4 DEF NvResting
  <3>6. NvUnderWay' BY <1>2, <2>1 DEF NvUnderWay
  <3> QED BY <2>1, <2>2, <3>2, <3>3, <3>5, <3>6 DEF NvSettled
 <2> QED BY <2>5, <2>6
<1> QED BY <1>7, <1>8 DEF NvInv

\* After a step in the history, of which nothing else is under way, the address is shown or on its way.
LEMMA Stepped ==
  ASSUME NvShape, NvSettled, nvRuns = {}, UNCHANGED nvPage,
         NvWithin(nvHistory'), nvHistory'.entries = nvHistory.entries, nvHistory'.backs = 0,
         NvPopstate(nvHistory'), nvParams' = useUrlParams(nvParams, NvUrl(nvHistory')),
         nvArticles.closing \/ (\E d \in NvDatasets : d = NvUrl(nvHistory').name /\ nvArticles.open[d] # NoRow)
           => NvUrl(nvHistory').name = NvUrl(nvHistory).name
  PROVE  NvSettled'
<1>1. /\ ~nvArticles'.closing /\ \A d \in NvDatasets : nvArticles'.open[d] = NoRow
      /\ \/ nvRuns' = {} /\ (nvArticles.closing \/ \E d \in NvDatasets : d = NvUrl(nvHistory').name /\ nvArticles.open[d] # NoRow)
         \/ \E r \in NvRunSet : nvRuns' = {r} /\ r.name = NvUrl(nvHistory').name /\ r.skip /\ r.pc = "checks"
 <2>1. /\ ~nvArticles'.closing /\ \A d \in NvDatasets : nvArticles'.open[d] = NoRow
       /\ \/ nvRuns' = nvRuns /\ (nvArticles.closing \/ \E d \in NvDatasets : d = NvUrl(nvHistory').name /\ nvArticles.open[d] # NoRow)
          \/ \E r \in NvRunSet : nvRuns' = nvRuns \cup {r} /\ r.name = NvUrl(nvHistory').name /\ r.skip /\ r.pc = "checks"
   BY Popped
 <2> QED BY <2>1
<1>2. NvStacked(nvHistory'.entries) /\ NvShowsOnly(nvPage', NvUrl(nvHistory).name) BY DEF NvSettled, NvResting
<1>3. NvOpenOnlyOn(nvArticles', NvUrl(nvHistory').name) /\ \A r \in NvRunSet : NvOpenOnlyOn(nvArticles', r.name)
  BY <1>1 DEF NvOpenOnlyOn
<1>4. NvUrl(nvHistory').name \in NvDatasets => nvParams'[NvUrl(nvHistory').name] = NvUrl(nvHistory').query
  BY NvUrlTyped, UrlParams DEF NvShape
<1>5. CASE nvRuns' = {} /\ (nvArticles.closing \/ \E d \in NvDatasets : d = NvUrl(nvHistory').name /\ nvArticles.open[d] # NoRow)
 <2>1. NvShowsOnly(nvPage', NvUrl(nvHistory').name) BY <1>2, <1>5
 <2>2. NvResting' BY <1>3, <1>4, <2>1 DEF NvResting
 <2>3. NvUnderWay' BY <1>5 DEF NvUnderWay
 <2> QED BY <1>1, <1>2, <2>2, <2>3 DEF NvSettled
<1>6. CASE \E r \in NvRunSet : nvRuns' = {r} /\ r.name = NvUrl(nvHistory').name /\ r.skip /\ r.pc = "checks"
 <2>1. PICK r \in NvRunSet : nvRuns' = {r} /\ r.name = NvUrl(nvHistory').name /\ r.skip /\ r.pc = "checks"
   BY <1>6
 <2>2. NvUnderWay' BY <1>3, <2>1 DEF NvUnderWay
 <2>3. NvResting' BY <2>1 DEF NvResting
 <2> QED BY <1>1, <1>2, <2>2, <2>3 DEF NvSettled
<1> QED BY <1>1, <1>5, <1>6

\* The step back of an article leads to the entry below it, of the same dataset.
LEMMA WentBack ==
  ASSUME NvInv, NvBack
  PROVE  NvInv'
<1> DEFINE h == [nvHistory EXCEPT !.pos = IF nvHistory.pos > 1 THEN nvHistory.pos - 1 ELSE nvHistory.pos,
                                  !.backs = nvHistory.backs - 1]
<1>1. NvShape BY DEF NvInv
<1>2. nvHistory.backs > 0 /\ nvHistory.backs \in Nat /\ nvHistory.pos \in Nat \ {0} /\ nvHistory.pos <= Len(nvHistory.entries)
      /\ nvHistory.entries \in Seq(NvEntries) BY <1>1 DEF NvBack, NvShape, NvWithin, NvHistories
<1>3. /\ nvHistory' = h /\ NvPopstate(h) /\ nvParams' = useUrlParams(nvParams, NvUrl(h))
      /\ nvCounts' = [nvCounts EXCEPT !.spoiled = @ \/ NvOverlaps] /\ UNCHANGED nvPage BY DEF NvBack
<1>4. /\ h.entries = nvHistory.entries /\ h.backs = nvHistory.backs - 1
      /\ h.pos = IF nvHistory.pos > 1 THEN nvHistory.pos - 1 ELSE nvHistory.pos
      /\ h \in [entries : {nvHistory.entries}, pos : {h.pos}, backs : {h.backs}]
  BY <1>1 DEF NvShape, NvWithin, NvHistories
<1> HIDE DEF h
<1>5. h \in NvHistories /\ NvWithin(h)
 <2>1. h.pos \in Nat \ {0} /\ h.backs \in Nat /\ h.pos <= Len(h.entries) /\ h.entries \in Seq(NvEntries)
   BY <1>2, <1>4
 <2>2. h \in NvHistories BY <1>4, <2>1 DEF NvHistories
 <2> QED BY <2>1, <2>2 DEF NvWithin
<1>6. NvOverlaps \in BOOLEAN BY DEF NvOverlaps
<1>7. nvCounts' \in [moves : Nat, spoiled : BOOLEAN] /\ (~nvCounts'.spoiled => ~nvCounts.spoiled /\ ~NvOverlaps)
  BY <1>1, <1>3, <1>6 DEF NvShape
<1>8. nvArticles' \in NvArticlesSet /\ nvRuns' \subseteq NvRunSet BY <1>1, <1>3, <1>5, Popped
<1>9. nvParams' \in [NvDatasets -> NvQueries] BY <1>1, <1>3, <1>5, NvUrlTyped, UrlParams DEF NvShape
<1>10. NvShape' BY <1>1, <1>3, <1>4, <1>5, <1>7, <1>8, <1>9 DEF NvShape, NvWithin
<1>11. ASSUME ~nvCounts'.spoiled PROVE NvSettled'
 <2>1. NvSettled /\ nvRuns = {} BY <1>7, <1>11 DEF NvInv, NvOverlaps
 <2>2. nvHistory.backs = 1 /\ NvUrl(nvHistory).row # NoRow /\ NvStacked(nvHistory.entries)
   BY <1>2, <2>1 DEF NvSettled, NvResting
 <2>3. nvHistory.pos > 1 /\ nvHistory.entries[nvHistory.pos - 1].name = NvUrl(nvHistory).name
  <3>1. nvHistory.pos \in DOMAIN nvHistory.entries BY <1>2
  <3> QED BY <2>2, <3>1 DEF NvUrl, NvStacked
 <2>4. NvUrl(h).name = NvUrl(nvHistory).name /\ h.backs = 0 BY <1>4, <2>2, <2>3 DEF NvUrl
 <2> QED BY <1>1, <1>3, <1>4, <1>5, <2>1, <2>4, Stepped
<1> QED BY <1>10, <1>11 DEF NvInv

\* A step of the user's own, when no other is under way.
LEMMA Traversed ==
  ASSUME NvInv, NvTraverse
  PROVE  NvInv'
<1> DEFINE spoils == NvOverlaps \/ nvHistory.backs > 0 \/ \E d \in NvDatasets \ nvPage.shown : nvArticles.open[d] # NoRow
<1>1. NvShape BY DEF NvInv
<1>2. PICK step \in {-2, -1, 1} :
        /\ nvHistory.pos + step \in DOMAIN nvHistory.entries
        /\ nvHistory' = [nvHistory EXCEPT !.pos = nvHistory.pos + step]
        /\ NvPopstate(nvHistory') /\ nvParams' = useUrlParams(nvParams, NvUrl(nvHistory')) /\ NvCount(spoils)
  BY DEF NvTraverse
<1>3. UNCHANGED nvPage /\ spoils \in BOOLEAN BY DEF NvTraverse
<1>4. NvWithin(nvHistory') /\ nvHistory'.entries = nvHistory.entries /\ nvHistory'.backs = nvHistory.backs
      /\ nvHistory.backs \in Nat
 <2>1. nvHistory.pos \in Nat /\ nvHistory.entries \in Seq(NvEntries) /\ nvHistory \in NvHistories
   BY <1>1 DEF NvShape, NvWithin, NvHistories
 <2>2. nvHistory.pos + step \in Nat \ {0} /\ nvHistory.pos + step <= Len(nvHistory.entries) BY <1>2, <2>1
 <2> QED BY <1>2, <2>1, <2>2 DEF NvWithin, NvHistories
<1>5. nvCounts' \in [moves : Nat, spoiled : BOOLEAN] /\ (~nvCounts'.spoiled => ~nvCounts.spoiled /\ ~spoils)
 <2> HIDE DEF spoils
 <2> QED BY <1>1, <1>2, <1>3, Counted
<1>6. nvArticles' \in NvArticlesSet /\ nvRuns' \subseteq NvRunSet BY <1>1, <1>2, <1>4, Popped
<1>7. nvParams' \in [NvDatasets -> NvQueries] BY <1>1, <1>2, <1>4, NvUrlTyped, UrlParams DEF NvShape
<1>8. NvShape' BY <1>1, <1>3, <1>4, <1>5, <1>6, <1>7 DEF NvShape, NvWithin
<1>9. ASSUME ~nvCounts'.spoiled PROVE NvSettled'
 <2>1. NvSettled /\ nvRuns = {} /\ nvHistory.backs = 0 BY <1>4, <1>5, <1>9 DEF NvInv, NvOverlaps
 <2>2. ~nvArticles.closing /\ NvOpenOnlyOn(nvArticles, NvUrl(nvHistory).name)
   BY <2>1 DEF NvSettled, NvResting
 <2>3. nvArticles.closing \/ (\E d \in NvDatasets : d = NvUrl(nvHistory').name /\ nvArticles.open[d] # NoRow)
          => NvUrl(nvHistory').name = NvUrl(nvHistory).name BY <2>2 DEF NvOpenOnlyOn
 <2> HIDE DEF spoils
 <2> QED BY <1>1, <1>2, <1>3, <1>4, <2>1, <2>3, Stepped
<1> QED BY <1>8, <1>9 DEF NvInv

\* Every step keeps the invariant.
LEMMA NvStep == NvSizes /\ NvInv /\ [NvNext]_nvVars => NvInv'
<1> SUFFICES ASSUME NvSizes, NvInv, [NvNext]_nvVars PROVE NvInv' OBVIOUS
<1>1. CASE UNCHANGED nvVars BY <1>1 DEF nvVars, NvInv, NvShape, NvWithin, NvSettled, NvResting, NvUnderWay
<1>2. CASE \E name \in NvViews : openNavTab(name) BY <1>2, TabOpened
<1>3. CASE \E r \in nvRuns : NvRefused(r) \/ viewRenderStage(r) \/ NvLoaded(r) \/ NvLoadFails(r)
  BY <1>3, Refused, Rendered, Loaded
<1>4. CASE \E d \in NvDatasets : openRowArticleView(d) \/ closeBigCard(d)
  BY <1>4, ArticleOpened, ArticleClosed
<1>5. CASE setParams \/ NvBack \/ NvTraverse BY <1>5, ParamsSet, WentBack, Traversed
<1> QED BY <1>1, <1>2, <1>3, <1>4, <1>5 DEF NvNext

\* The page shown at rest is the one the address names, for any number of moves and any length of
\* the history (navigation_handler.js, history_navigation_handler.js, navigation_pipeline.js).
THEOREM NvUrlIsShown == NvSizes => (NvSpec => [](NvTypeOK /\ NvAtRestUrlIsShown))
<1> SUFFICES ASSUME NvSizes PROVE NvSpec => [](NvTypeOK /\ NvAtRestUrlIsShown) OBVIOUS
<1>1. NvInit => NvInv BY NvStarts
<1>2. NvInv /\ [NvNext]_nvVars => NvInv' BY NvStep
<1>3. NvInv => NvTypeOK
 <2> SUFFICES ASSUME NvInv PROVE NvTypeOK OBVIOUS
 <2>1. nvPage.shown \subseteq NvViews /\ nvPage.built \subseteq NvViews /\ nvPage.selected \in NvDatasets
   BY DEF NvInv, NvShape, NvPages
 <2>2. /\ nvHistory.pos \in DOMAIN nvHistory.entries /\ Len(nvHistory.entries) <= NvMaxEntries
       /\ \A i \in DOMAIN nvHistory.entries : nvHistory.entries[i] \in NvEntries
   BY DEF NvInv, NvShape, NvWithin, NvHistories
 <2>3. nvParams \in [NvDatasets -> NvQueries] /\ nvRuns \subseteq NvRunSet BY DEF NvInv, NvShape
 <2> QED BY <2>1, <2>2, <2>3 DEF NvTypeOK, NvEntries, NvRunSet, NvQueries
<1>4. NvInv => NvAtRestUrlIsShown
 <2> SUFFICES ASSUME NvInv, nvRuns = {}, nvHistory.backs = 0, ~nvCounts.spoiled
              PROVE  LET u == NvUrl(nvHistory)
                     IN  /\ nvPage.shown = {u.name} /\ nvPage.tab = NvTabOf(u.name)
                         /\ u.name \in NvDatasets => nvPage.selected = u.name /\ nvParams[u.name] = u.query
   BY DEF NvAtRestUrlIsShown
 <2> QED BY DEF NvInv, NvSettled, NvResting, NvShowsOnly
<1> QED BY <1>1, <1>2, <1>3, <1>4, PTL DEF NvSpec

-----------------------------------------------------------------------------
(* The open article: what is shown is stored, and a primary image stays. *)

AmSizes == AmMaxOps \in Nat /\ AmMaxRequests \in Nat /\ AmMaxFiles \in Nat

AmRows == [gallery : SUBSET AmIds, primary : SUBSET AmIds, attachments : SUBSET AmIds,
           kids : SUBSET {1}, comments : SUBSET AmOps]
AmRequests == [key : AmKeys, pc : {"asked", "served", "failed"}, snap : AmRows]
AmSectionSet == [rows : SUBSET AmIds, primary : SUBSET AmIds]
AmOnMedia == {"upload_gallery", "upload_attachments", "delete_gallery", "delete_attachments", "primary", "save"}
AmOnComments == {"comment", "uncomment", "read"}
AmOpSet == [pc : {"idle", "done", "calling", "clearing", "changed", "asked", "attachments", "comments", "comments_got"},
            do : AmOnMedia \cup AmOnComments \cup {"delete_kids", "none"},
            row : Nat, clear : SUBSET AmIds, left : 0..AmMaxFiles, req : Nat, gen : Nat, got : SUBSET AmOps]
AmTabSet == [on : BOOLEAN, gen : Nat, loaded : BOOLEAN, load : Nat, rows : SUBSET {1}, comments : SUBSET AmOps]

\* What every variable holds, with the requests that are pointed at among those made.
AmShape ==
  /\ amDb \in AmRows /\ amOpen \in BOOLEAN
  /\ amReq \in Seq(AmRequests) /\ amCache \in [AmKeys -> 0..Len(amReq)]
  /\ amHydrate \in [pc : {"frame", "asked", "attachments", "tabs", "done"}, req : 0..Len(amReq)]
  /\ amHydrate.pc \notin {"frame", "done"} => amHydrate.req # 0
  /\ amOp \in [AmOps -> AmOpSet]
  /\ amSections \in [AmMedia -> Seq(AmSectionSet)]
  /\ amTabs \in AmTabSet /\ amTabs.load \in 0..Len(amReq)
  /\ amSolo \in BOOLEAN /\ amMixed \in BOOLEAN

\* What a step of an operation asks for: which steps are those of which operation, and with which request.
AmOpFits(op) ==
  /\ op.req \in 0..Len(amReq)
  /\ op.pc = "clearing" => op.do = "primary" /\ op.clear # {}
  /\ op.pc \in {"calling", "clearing"} => op.do \notin {"none", "read"}
  /\ op.pc \in {"changed", "asked"} => op.do \in AmOnMedia \cup {"delete_kids"}
  /\ op.pc = "attachments" => op.do \in AmOnMedia
  /\ op.pc \in {"comments", "comments_got"} => op.do \in AmOnComments
  /\ op.do = "comment" => op.row \in AmOps
  /\ op.do # "primary" => op.clear = {}
  /\ op.left # 0 => op.do \in {"upload_gallery", "upload_attachments"}
  /\ op.pc \in {"asked", "attachments"} => op.req # 0

\* At most one activity: the hydration, a load of a tab, or one operation.
AmAlone ==
  /\ AmHydrating => amTabs.load = 0 /\ \A o \in AmOps : ~AmBusy(o)
  /\ amTabs.load # 0 => \A o \in AmOps : ~AmBusy(o)
  /\ \A o, p \in AmOps : AmBusy(o) /\ AmBusy(p) => o = p

\* A section on the page shows the rows that are stored.
AmSectionStored(m) ==
  amSections[m] # <<>> =>
    /\ amSections[m][1].rows = amDb[m]
    /\ m = "gallery" => amSections[m][1].primary = amDb.primary
AmDoing(dos, pcs) == \E o \in AmOps : amOp[o].do \in dos /\ amOp[o].pc \in pcs
AmCalls == {"calling", "clearing"}

\* Each section is as stored, but for what the one operation has changed and not shown yet.
AmSectionsStored ==
  /\ AmSectionStored("gallery") \/ AmDoing(AmOnMedia, AmCalls \cup {"changed", "asked"})
  /\ AmSectionStored("attachments") \/ AmDoing(AmOnMedia, AmCalls \cup {"changed", "asked", "attachments"})
AmTabsStored ==
  /\ (amTabs.loaded => amTabs.rows = amDb.kids) \/ AmDoing({"delete_kids"}, {"changed", "asked"})
  /\ amTabs.comments \in {{}, amDb.comments} \/ AmDoing({"comment", "uncomment"}, {"comments", "comments_got"})

\* An answer that is waited for or cached is one of the rows as they are.
AmAnswersFresh ==
  /\ \A q \in DOMAIN amReq : amReq[q].pc # "failed"
  /\ amHydrate.pc = "frame" => amCache["all"] = 0
  /\ amHydrate.pc \notin {"frame", "done"} => amReq[amHydrate.req].snap = amDb
  /\ amCache["tab"] # 0 => amReq[amCache["tab"]].snap.kids = amDb.kids \/ AmDoing({"delete_kids"}, {"changed"})
  /\ amTabs.load # 0 => amReq[amTabs.load].snap.kids = amDb.kids
  /\ \A o \in AmOps :
       /\ amOp[o].pc \in {"asked", "attachments"} => amReq[amOp[o].req].snap = amDb
       /\ AmBusy(o) /\ amOp[o].do \in AmOnComments \cup {"delete_kids"} => amOp[o].gen = amTabs.gen
       /\ amOp[o].pc = "comments_got" => amOp[o].got = amDb.comments

AmSettled == AmAlone /\ AmSectionsStored /\ AmTabsStored /\ AmAnswersFresh

\* One operation at a time: the new primary image is one of the gallery, and stays when the old ones are cleared.
AmPrimaryStays ==
  /\ amDb.primary # {}
  /\ \A o, p \in AmOps : AmBusy(o) /\ AmBusy(p) => o = p
  /\ \A q \in DOMAIN amReq : amReq[q].snap.gallery \subseteq amDb.gallery
  /\ \A n \in DOMAIN amSections["gallery"] : amSections["gallery"][n].rows \subseteq amDb.gallery
  /\ \A o \in AmOps : AmBusy(o) =>
       /\ amOp[o].do # "delete_gallery"
       /\ amOp[o].do = "primary" => amOp[o].row \in amDb.gallery \ amOp[o].clear
       /\ amOp[o].pc = "clearing" => amOp[o].row \in amDb.primary

\* The inductive invariant.
AmInv ==
  /\ AmShape
  /\ \A o \in AmOps : AmOpFits(amOp[o])
  /\ amSolo /\ amOpen => AmSettled
  /\ ~amMixed => AmPrimaryStays

\* The ids are numbers, and the first two are always among them.
LEMMA AmIdsAre == AmSizes => AmIds \subseteq Nat /\ 1 \in AmIds /\ 2 \in AmIds
<1> SUFFICES ASSUME AmSizes PROVE AmIds \subseteq Nat /\ 1 \in AmIds /\ 2 \in AmIds OBVIOUS
<1>1. AmMaxOps * AmMaxFiles \in Nat BY DEF AmSizes
<1> QED BY <1>1 DEF AmIds

\* The id of an uploaded file is one of the ids.
LEMMA AmNewId ==
  ASSUME AmSizes, NEW o \in AmOps, NEW left \in 0..AmMaxFiles
  PROVE  2 + (o - 1) * AmMaxFiles + left \in AmIds
<1>1. o \in Nat /\ o >= 1 /\ o <= AmMaxOps /\ AmMaxOps \in Nat /\ AmMaxFiles \in Nat /\ left \in Nat /\ left <= AmMaxFiles
  BY DEF AmOps, AmSizes
<1>2. (o - 1) * AmMaxFiles \in Nat
 <2>1. o - 1 \in Nat BY <1>1
 <2> QED BY <2>1, <1>1
<1>3. (o - 1) * AmMaxFiles + AmMaxFiles <= AmMaxOps * AmMaxFiles
 <2>1. PICK k \in Nat : AmMaxOps = o + k
  <3>1. AmMaxOps - o \in Nat /\ AmMaxOps = o + (AmMaxOps - o) BY <1>1
  <3> QED BY <3>1
 <2>2. k * AmMaxFiles \in Nat BY <1>1, <2>1
 <2>3. (o + k) * AmMaxFiles = (o - 1) * AmMaxFiles + AmMaxFiles + k * AmMaxFiles BY <1>1, <2>1
 <2> QED BY <2>1, <2>2, <2>3, <1>1, <1>2
<1>4. AmMaxOps * AmMaxFiles \in Nat BY <1>1
<1> QED BY <1>1, <1>2, <1>3, <1>4 DEF AmIds

\* What a request of the load session gives: the cached one, or a new one of the rows as they are.
AmAsked(ask, key, forced) ==
  /\ ask.req \in Seq(AmRequests) /\ ask.cache \in [AmKeys -> 0..Len(ask.req)]
  /\ Len(ask.req) \in Nat /\ Len(amReq) <= Len(ask.req) /\ DOMAIN ask.req = 1..Len(ask.req)
  /\ ask.id \in DOMAIN ask.req
  /\ \A q \in DOMAIN amReq : q \in DOMAIN ask.req /\ ask.req[q] = amReq[q]
  /\ \A q \in DOMAIN ask.req \ DOMAIN amReq : ask.req[q].pc = "asked" /\ ask.req[q].snap = amDb
  /\ ask.cache[key] = ask.id
  /\ \A k \in AmKeys \ {key} : ask.cache[k] = (IF forced THEN 0 ELSE amCache[k])
  /\ \/ ask.id = amCache[key] /\ ~forced
     \/ ask.id \notin DOMAIN amReq

\* A request that fetchDynamicChildren answers with is a cached one, or a new one of the rows as they are.
LEMMA AmAsking ==
  ASSUME AmShape, NEW key \in AmKeys, NEW forced \in BOOLEAN, NEW ask, ask = fetchDynamicChildren(key, forced)
  PROVE  AmAsked(ask, key, forced)
<1>z. amReq \in Seq(AmRequests) /\ amCache \in [AmKeys -> 0..Len(amReq)] /\ amDb \in AmRows BY DEF AmShape
<1> DEFINE new == [key |-> key, pc |-> "asked", snap |-> amDb]
<1>0. new \in AmRequests BY <1>z DEF AmRequests
<1>a. Len(amReq) \in Nat /\ DOMAIN amReq = 1..Len(amReq) BY <1>z
<1>1. CASE ~forced /\ amCache[key] # 0
 <2>1. ask.req = amReq /\ ask.cache = amCache /\ ask.id = amCache[key] BY <1>1 DEF fetchDynamicChildren
 <2>2. amCache[key] \in 1..Len(amReq) BY <1>1, <1>a, <1>z
 <2> QED BY <2>1, <2>2, <1>1, <1>a, <1>z DEF AmAsked
<1>2. CASE forced \/ amCache[key] = 0
 <2> DEFINE kept == IF forced THEN [k \in AmKeys |-> 0] ELSE amCache
 <2>1. ask.req = Append(amReq, new) /\ ask.cache = [kept EXCEPT ![key] = Len(amReq) + 1] /\ ask.id = Len(amReq) + 1
   BY <1>2 DEF fetchDynamicChildren
 <2>2. kept \in [AmKeys -> 0..Len(amReq)] /\ \A k \in AmKeys : kept[k] = (IF forced THEN 0 ELSE amCache[k])
   BY <1>a, <1>z
 <2> HIDE DEF kept
 <2>3. ask.cache[key] = Len(amReq) + 1 /\ (\A k \in AmKeys \ {key} : ask.cache[k] = kept[k])
       /\ ask.cache \in [AmKeys -> 0..(Len(amReq) + 1)] BY <2>1, <2>2, <1>a
 <2> HIDE DEF new
 <2>4. ask.req \in Seq(AmRequests) /\ Len(ask.req) = Len(amReq) + 1 /\ DOMAIN ask.req = 1..(Len(amReq) + 1)
       /\ (\A q \in DOMAIN amReq : ask.req[q] = amReq[q]) /\ ask.req[Len(amReq) + 1] = new
   BY <2>1, <1>0, <1>a, <1>z
 <2>5. new.pc = "asked" /\ new.snap = amDb BY DEF new
 <2>6. \A q \in DOMAIN ask.req \ DOMAIN amReq : ask.req[q].pc = "asked" /\ ask.req[q].snap = amDb
   BY <2>4, <2>5, <1>a
 <2> QED BY <2>1, <2>2, <2>3, <2>4, <2>6, <1>a DEF AmAsked
<1> QED BY <1>1, <1>2

\* What an operation of the user is when it starts.
AmStartable(op) ==
  /\ op \in AmOpSet /\ op.req = 0 /\ op.do # "none"
  /\ op.do = "comment" => op.row \in AmOps
  /\ op.do # "primary" => op.clear = {}
  /\ op.left # 0 => op.do \in {"upload_gallery", "upload_attachments"}
  /\ op.do \in AmOnComments \cup {"delete_kids"} => op.gen = amTabs.gen
  /\ op.do = "primary" => \E n \in DOMAIN amSections["gallery"] :
       op.row \in amSections["gallery"][n].rows /\ op.clear = amSections["gallery"][n].primary /\ op.row \notin op.clear

AmStarts(o) ==
  \/ uploadImages(o) \/ uploadAttachments(o) \/ deleteImageRow(o)
  \/ deleteAttachment(o) \/ setImageAsPrimary(o)
  \/ saveRow(o) \/ saveImageMetadata(o) \/ saveAttachmentMetadata(o)
  \/ deleteRelatedRecord(o) \/ createComment(o) \/ deleteComment(o) \/ load_comments(o)

\* What an operation is before it starts and after it ends.
LEMMA AmIdleIs ==
  ASSUME AmSizes
  PROVE  /\ AmIdle \in AmOpSet /\ AmIdle.req = 0 /\ AmIdle.clear = {} /\ AmIdle.left = 0 /\ AmIdle.pc = "idle" /\ AmIdle.do = "none"
         /\ [AmIdle EXCEPT !.pc = "done"] \in AmOpSet
         /\ [AmIdle EXCEPT !.pc = "done"].pc = "done" /\ [AmIdle EXCEPT !.pc = "done"].do = "none"
         /\ [AmIdle EXCEPT !.pc = "done"].req = 0 /\ [AmIdle EXCEPT !.pc = "done"].clear = {}
         /\ [AmIdle EXCEPT !.pc = "done"].left = 0 BY DEF AmSizes, AmIdle, AmOpSet, AmOnMedia, AmOnComments

\* The rows that carry buttons are ids.
LEMMA AmRowsShown ==
  ASSUME AmSizes, AmShape, NEW m \in AmMedia, NEW n \in DOMAIN amSections[m]
  PROVE  amSections[m][n] \in AmSectionSet /\ \A r \in amSections[m][n].rows : r \in AmIds /\ r \in Nat
<1>1. amSections[m] \in Seq(AmSectionSet) BY DEF AmShape
<1>2. amSections[m][n] \in AmSectionSet BY <1>1
<1> QED BY <1>2, AmIdsAre DEF AmSectionSet

\* Whatever the user starts, the operation is one of AmStartable.
LEMMA AmStartsAre ==
  ASSUME AmSizes, AmShape, NEW o \in AmOps, AmStarts(o)
  PROVE  \E op : AmStartable(op) /\ AmStart(o, op)
<1>0. AmMaxFiles \in Nat /\ AmMaxOps \in Nat /\ AmOps \subseteq Nat /\ "gallery" \in AmMedia /\ "attachments" \in AmMedia
  BY DEF AmSizes, AmOps, AmMedia
<1>a. amTabs.gen \in Nat /\ amTabs.rows \subseteq {1} /\ amTabs.comments \subseteq AmOps
  BY DEF AmShape, AmTabSet
<1> USE DEF AmOnMedia, AmOnComments
<1>2. CASE uploadImages(o)
 <2>1. PICK n \in 1..AmMaxFiles : AmStart(o, [AmIdle EXCEPT !.do = "upload_gallery", !.left = n])
   BY <1>2 DEF uploadImages
 <2> DEFINE op == [AmIdle EXCEPT !.do = "upload_gallery", !.left = n]
 <2>2. n \in 0..AmMaxFiles BY <1>0
 <2>6. op \in AmOpSet BY AmIdleIs, <1>0, <2>2 DEF AmOpSet
 <2>7. AmStartable(op) BY <2>6, <1>0 DEF AmStartable, AmIdle
 <2> QED BY <2>1, <2>7
<1>3. CASE uploadAttachments(o)
 <2>1. PICK n \in 1..AmMaxFiles : AmStart(o, [AmIdle EXCEPT !.do = "upload_attachments", !.left = n])
   BY <1>3 DEF uploadAttachments
 <2> DEFINE op == [AmIdle EXCEPT !.do = "upload_attachments", !.left = n]
 <2>2. n \in 0..AmMaxFiles BY <1>0
 <2>6. op \in AmOpSet BY AmIdleIs, <1>0, <2>2 DEF AmOpSet
 <2>7. AmStartable(op) BY <2>6, <1>0 DEF AmStartable, AmIdle
 <2> QED BY <2>1, <2>7
<1>4. CASE deleteImageRow(o)
 <2>1. PICK r \in AmThumbnails : AmStart(o, [AmIdle EXCEPT !.do = "delete_gallery", !.row = r])
   BY <1>4 DEF deleteImageRow
 <2>3. r \in Nat BY <2>1, <1>0, AmRowsShown DEF AmThumbnails
 <2> DEFINE op == [AmIdle EXCEPT !.do = "delete_gallery", !.row = r]
 <2>6. op \in AmOpSet BY AmIdleIs, <1>0, <2>3 DEF AmOpSet
 <2>7. AmStartable(op) BY <2>6, <1>0, <2>3 DEF AmStartable, AmIdle
 <2> QED BY <2>1, <2>7
<1>5. CASE deleteAttachment(o)
 <2>1. PICK r \in AmAttachmentRows : AmStart(o, [AmIdle EXCEPT !.do = "delete_attachments", !.row = r])
   BY <1>5 DEF deleteAttachment
 <2>3. r \in Nat BY <2>1, <1>0, AmRowsShown DEF AmAttachmentRows
 <2> DEFINE op == [AmIdle EXCEPT !.do = "delete_attachments", !.row = r]
 <2>6. op \in AmOpSet BY AmIdleIs, <1>0, <2>3 DEF AmOpSet
 <2>7. AmStartable(op) BY <2>6, <1>0, <2>3 DEF AmStartable, AmIdle
 <2> QED BY <2>1, <2>7
<1>6. CASE setImageAsPrimary(o)
 <2>1. PICK n \in DOMAIN amSections["gallery"] :
         \E r \in amSections["gallery"][n].rows \ amSections["gallery"][n].primary :
           AmStart(o, [AmIdle EXCEPT !.do = "primary", !.row = r, !.clear = amSections["gallery"][n].primary])
   BY <1>6 DEF setImageAsPrimary
 <2>2. PICK r \in amSections["gallery"][n].rows \ amSections["gallery"][n].primary :
         AmStart(o, [AmIdle EXCEPT !.do = "primary", !.row = r, !.clear = amSections["gallery"][n].primary])
   BY <2>1
 <2>4. r \in Nat /\ amSections["gallery"][n].primary \in SUBSET AmIds BY <1>0, AmRowsShown DEF AmSectionSet
 <2> DEFINE op == [AmIdle EXCEPT !.do = "primary", !.row = r, !.clear = amSections["gallery"][n].primary]
 <2>6. op \in AmOpSet BY AmIdleIs, <1>0, <2>2, <2>4 DEF AmOpSet
 <2>7. AmStartable(op) BY <2>6, <1>0, <2>2, <2>4 DEF AmStartable, AmIdle
 <2> QED BY <2>2, <2>7
<1>7. CASE saveRow(o)
 <2>1. AmStart(o, [AmIdle EXCEPT !.do = "save"]) BY <1>7 DEF saveRow
 <2> DEFINE op == [AmIdle EXCEPT !.do = "save"]
 <2>6. op \in AmOpSet BY AmIdleIs, <1>0 DEF AmOpSet
 <2>7. AmStartable(op) BY <2>6, <1>0 DEF AmStartable, AmIdle
 <2> QED BY <2>1, <2>7
<1>8. CASE saveImageMetadata(o)
 <2>1. PICK r \in AmThumbnails : AmStart(o, [AmIdle EXCEPT !.do = "save", !.row = r])
   BY <1>8 DEF saveImageMetadata
 <2>3. r \in Nat BY <2>1, <1>0, AmRowsShown DEF AmThumbnails
 <2> DEFINE op == [AmIdle EXCEPT !.do = "save", !.row = r]
 <2>6. op \in AmOpSet BY AmIdleIs, <1>0, <2>3 DEF AmOpSet
 <2>7. AmStartable(op) BY <2>6, <1>0, <2>3 DEF AmStartable, AmIdle
 <2> QED BY <2>1, <2>7
<1>9. CASE saveAttachmentMetadata(o)
 <2>1. PICK r \in AmAttachmentRows : AmStart(o, [AmIdle EXCEPT !.do = "save", !.row = r])
   BY <1>9 DEF saveAttachmentMetadata
 <2>3. r \in Nat BY <2>1, <1>0, AmRowsShown DEF AmAttachmentRows
 <2> DEFINE op == [AmIdle EXCEPT !.do = "save", !.row = r]
 <2>6. op \in AmOpSet BY AmIdleIs, <1>0, <2>3 DEF AmOpSet
 <2>7. AmStartable(op) BY <2>6, <1>0, <2>3 DEF AmStartable, AmIdle
 <2> QED BY <2>1, <2>7
<1>10. CASE deleteRelatedRecord(o)
 <2>1. PICK r \in amTabs.rows : AmStart(o, [AmIdle EXCEPT !.do = "delete_kids", !.row = r, !.gen = amTabs.gen])
   BY <1>10 DEF deleteRelatedRecord
 <2>3. r \in Nat BY <1>a
 <2> DEFINE op == [AmIdle EXCEPT !.do = "delete_kids", !.row = r, !.gen = amTabs.gen]
 <2>6. op \in AmOpSet BY AmIdleIs, <1>0, <2>3, <1>a DEF AmOpSet
 <2>7. AmStartable(op) BY <2>6, <1>0, <2>3, <1>a DEF AmStartable, AmIdle
 <2> QED BY <2>1, <2>7
<1>11. CASE createComment(o)
 <2>1. AmStart(o, [AmIdle EXCEPT !.do = "comment", !.row = o, !.gen = amTabs.gen]) BY <1>11 DEF createComment
 <2> DEFINE op == [AmIdle EXCEPT !.do = "comment", !.row = o, !.gen = amTabs.gen]
 <2>6. op \in AmOpSet BY AmIdleIs, <1>0, <1>a DEF AmOpSet
 <2>7. AmStartable(op) BY <2>6, <1>0, <1>a DEF AmStartable, AmIdle
 <2> QED BY <2>1, <2>7
<1>12. CASE deleteComment(o)
 <2>1. PICK r \in amTabs.comments : AmStart(o, [AmIdle EXCEPT !.do = "uncomment", !.row = r, !.gen = amTabs.gen])
   BY <1>12 DEF deleteComment
 <2>3. r \in Nat BY <1>0, <1>a
 <2> DEFINE op == [AmIdle EXCEPT !.do = "uncomment", !.row = r, !.gen = amTabs.gen]
 <2>6. op \in AmOpSet BY AmIdleIs, <1>0, <2>3, <1>a DEF AmOpSet
 <2>7. AmStartable(op) BY <2>6, <1>0, <2>3, <1>a DEF AmStartable, AmIdle
 <2> QED BY <2>1, <2>7
<1>13. CASE load_comments(o)
 <2>1. AmStart(o, [AmIdle EXCEPT !.do = "read", !.gen = amTabs.gen]) BY <1>13 DEF load_comments
 <2> DEFINE op == [AmIdle EXCEPT !.do = "read", !.gen = amTabs.gen]
 <2>6. op \in AmOpSet BY AmIdleIs, <1>0, <1>a DEF AmOpSet
 <2>7. AmStartable(op) BY <2>6, <1>0, <1>a DEF AmStartable, AmIdle
 <2> QED BY <2>1, <2>7
<1> QED BY <1>2, <1>3, <1>4, <1>5, <1>6, <1>7, <1>8, <1>9, <1>10, <1>11, <1>12, <1>13 DEF AmStarts

\* What AmInv says, and that nothing is under way but one operation.
AmFits == AmShape /\ (\A x \in AmOps : AmOpFits(amOp[x])) /\ (amSolo /\ amOpen => AmSettled) /\ (~amMixed => AmPrimaryStays)
AmOnly(o) == AmBusy(o) /\ amHydrate.pc = "done" /\ amTabs.load = 0 /\ \A p \in AmOps : p # o => amOp[p].pc \in {"idle", "done"}

\* A request that is waited for or cached is one of those made.
AmRefer ==
  /\ Len(amReq) \in Nat /\ DOMAIN amReq = 1..Len(amReq) /\ \A x \in DOMAIN amReq : amReq[x] \in AmRequests
  /\ amHydrate.pc \notin {"frame", "done"} => amHydrate.req \in DOMAIN amReq
  /\ amTabs.load # 0 => amTabs.load \in DOMAIN amReq
  /\ \A k \in AmKeys : amCache[k] # 0 => amCache[k] \in DOMAIN amReq
  /\ \A x \in AmOps : amOp[x] \in AmOpSet /\ (amOp[x].pc \in {"asked", "attachments"} => amOp[x].req \in DOMAIN amReq)
  /\ "all" \in AmKeys /\ "tab" \in AmKeys /\ "gallery" \in AmMedia /\ "attachments" \in AmMedia
LEMMA AmRefs == ASSUME AmShape, \A x \in AmOps : AmOpFits(amOp[x]) PROVE AmRefer
<1>1. Len(amReq) \in Nat /\ DOMAIN amReq = 1..Len(amReq) /\ \A x \in DOMAIN amReq : amReq[x] \in AmRequests
  BY DEF AmShape
<1>2. amHydrate.req \in 0..Len(amReq) /\ (amHydrate.pc \notin {"frame", "done"} => amHydrate.req # 0)
  BY DEF AmShape
<1>3. amTabs.load \in 0..Len(amReq) BY DEF AmShape
<1>4. \A k \in AmKeys : amCache[k] \in 0..Len(amReq) BY DEF AmShape
<1>5. \A o \in AmOps : amOp[o] \in AmOpSet /\ amOp[o].req \in 0..Len(amReq) /\ (amOp[o].pc \in {"asked", "attachments"} => amOp[o].req # 0)
  BY DEF AmShape, AmOpFits
<1> QED BY <1>1, <1>2, <1>3, <1>4, <1>5 DEF AmRefer, AmKeys, AmMedia

\* One element of a sequence is replaced.
LEMMA AmPut ==
  ASSUME NEW S, NEW s \in Seq(S), NEW q \in DOMAIN s, NEW v \in S, NEW t, t = [s EXCEPT ![q] = v]
  PROVE  t \in Seq(S) /\ Len(t) = Len(s) /\ DOMAIN t = DOMAIN s /\ t[q] = v /\ \A p \in DOMAIN s : p # q => t[p] = s[p]
OBVIOUS

\* The same for a step that takes what was asked for.
AmAskedStep(id, key, forced) ==
  /\ amReq' \in Seq(AmRequests) /\ amCache' \in [AmKeys -> 0..Len(amReq')]
  /\ Len(amReq') \in Nat /\ Len(amReq) <= Len(amReq') /\ DOMAIN amReq' = 1..Len(amReq')
  /\ id \in DOMAIN amReq'
  /\ \A q \in DOMAIN amReq : q \in DOMAIN amReq' /\ amReq'[q] = amReq[q]
  /\ \A q \in DOMAIN amReq' \ DOMAIN amReq : amReq'[q].pc = "asked" /\ amReq'[q].snap = amDb
  /\ amCache'[key] = id
  /\ \A k \in AmKeys \ {key} : amCache'[k] = (IF forced THEN 0 ELSE amCache[k])
  /\ \/ id = amCache[key] /\ ~forced
     \/ id \notin DOMAIN amReq

\* The same of the step that stores what fetchDynamicChildren gives.
LEMMA AmAskingStep ==
  ASSUME AmShape, NEW key \in AmKeys, NEW forced \in BOOLEAN,
         amReq' = fetchDynamicChildren(key, forced).req, amCache' = fetchDynamicChildren(key, forced).cache
  PROVE  AmAskedStep(fetchDynamicChildren(key, forced).id, key, forced)
<1> DEFINE ask == fetchDynamicChildren(key, forced)
<1>1. AmAsked(ask, key, forced) BY AmAsking
<1> HIDE DEF ask
<1>2. amReq' = ask.req /\ amCache' = ask.cache BY DEF ask
<1>3. AmAskedStep(ask.id, key, forced) BY <1>1, <1>2 DEF AmAsked, AmAskedStep
<1> QED BY <1>3 DEF ask

\* One operation is replaced.
LEMMA AmOpPut ==
  ASSUME AmShape, NEW o \in AmOps, NEW v \in AmOpSet, amOp' = [amOp EXCEPT ![o] = v]
  PROVE  amOp' \in [AmOps -> AmOpSet] /\ amOp'[o] = v /\ \A p \in AmOps : p # o => amOp'[p] = amOp[p]
BY DEF AmShape

\* An operation that ends.
LEMMA AmEndsIs ==
  ASSUME AmSizes, AmShape, NEW o \in AmOps, amOp' = [amOp EXCEPT ![o] = [AmIdle EXCEPT !.pc = "done"]]
  PROVE  /\ amOp' \in [AmOps -> AmOpSet] /\ \A p \in AmOps : p # o => amOp'[p] = amOp[p]
         /\ amOp'[o].pc = "done" /\ amOp'[o].do = "none" /\ amOp'[o].req = 0 /\ amOp'[o].clear = {} /\ amOp'[o].left = 0
<1> DEFINE v == [AmIdle EXCEPT !.pc = "done"]
<1>1. v \in AmOpSet /\ v.pc = "done" /\ v.do = "none" /\ v.req = 0 /\ v.clear = {} /\ v.left = 0 BY AmIdleIs
<1> HIDE DEF v
<1>2. amOp' = [amOp EXCEPT ![o] = v] BY DEF v
<1> QED BY <1>1, <1>2, AmOpPut

\* A request is served with the rows as they are.
LEMMA AmServedKeeps ==
  ASSUME AmSizes, AmInv, NEW q \in DOMAIN amReq, AmRequestServed(q)
  PROVE  AmInv'
<1> USE DEF AmRefer, AmFits
<1>a. AmFits BY DEF AmInv
<1>r. AmRefer BY <1>a, AmRefs
<1>b. amDb' = amDb /\ amOpen' = amOpen /\ amCache' = amCache /\ amHydrate' = amHydrate /\ amOp' = amOp /\ amSections' = amSections /\ amTabs' = amTabs /\ amSolo' = amSolo /\ amMixed' = amMixed
  BY DEF AmRequestServed
<1>c. /\ Len(amReq') = Len(amReq) /\ DOMAIN amReq' = DOMAIN amReq /\ amReq' \in Seq(AmRequests)
      /\ \A p \in DOMAIN amReq : amReq'[p] = amReq[p] \/ (amReq'[p].pc = "served" /\ amReq'[p].snap = amDb)
 <2> DEFINE v == [amReq[q] EXCEPT !.pc = "served", !.snap = amDb]
 <2>1. amReq' = [amReq EXCEPT ![q] = v] BY DEF AmRequestServed
 <2>2. v \in AmRequests BY <1>a, <1>r DEF AmRequests, AmShape
 <2>3. v.pc = "served" /\ v.snap = amDb BY <1>r DEF AmRequests
 <2> HIDE DEF v
 <2>4. amReq \in Seq(AmRequests) BY <1>a DEF AmShape
 <2> QED BY <2>1, <2>2, <2>3, <2>4, <1>r, AmPut
<1>1. AmShape' BY <1>a, <1>r, <1>b, <1>c DEF AmShape, AmTabSet
<1>2. \A p \in AmOps : AmOpFits(amOp[p])' BY <1>a, <1>r, <1>b, <1>c DEF AmShape, AmOpFits
<1>3. ASSUME amSolo', amOpen' PROVE AmSettled'
 <2>0. AmAlone /\ AmSectionsStored /\ AmTabsStored /\ AmAnswersFresh
   BY <1>a, <1>r, <1>b, <1>c, <1>3 DEF AmSettled
 <2>1. AmAlone' BY <1>a, <1>r, <1>b, <1>c, <1>3, <2>0 DEF AmAlone, AmHydrating, AmBusy
 <2>2. AmSectionsStored'
   BY <1>a, <1>r, <1>b, <1>c, <1>3, <2>0 DEF AmSectionsStored, AmSectionStored, AmDoing, AmCalls
 <2>3. AmTabsStored' BY <1>a, <1>r, <1>b, <1>c, <1>3, <2>0 DEF AmTabsStored, AmDoing
 <2>4. AmAnswersFresh' BY <1>a, <1>r, <1>b, <1>c, <1>3, <2>0 DEF AmAnswersFresh, AmDoing, AmBusy
 <2> QED BY <2>1, <2>2, <2>3, <2>4 DEF AmSettled
<1>4. ASSUME ~amMixed' PROVE AmPrimaryStays'
 <2>1. AmPrimaryStays' BY <1>a, <1>r, <1>b, <1>c, <1>4 DEF AmPrimaryStays, AmBusy
 <2> QED BY <2>1
<1> QED BY <1>1, <1>2, <1>3, <1>4 DEF AmInv

\* A failed request leaves the cache.
LEMMA AmFailsKeeps ==
  ASSUME AmSizes, AmInv, NEW q \in DOMAIN amReq, AmRequestFails(q)
  PROVE  AmInv'
<1> USE DEF AmRefer, AmFits
<1>a. AmFits BY DEF AmInv
<1>r. AmRefer BY <1>a, AmRefs
<1>b. amDb' = amDb /\ amOpen' = amOpen /\ amHydrate' = amHydrate /\ amOp' = amOp /\ amSections' = amSections /\ amTabs' = amTabs /\ amMixed' = amMixed /\ amSolo' = FALSE
  BY DEF AmRequestFails
<1>c. /\ Len(amReq') = Len(amReq) /\ DOMAIN amReq' = DOMAIN amReq /\ amReq' \in Seq(AmRequests)
      /\ \A p \in DOMAIN amReq : amReq'[p].snap = amReq[p].snap
 <2> DEFINE v == [amReq[q] EXCEPT !.pc = "failed"]
 <2>1. amReq' = [amReq EXCEPT ![q] = v] BY DEF AmRequestFails
 <2>2. v \in AmRequests BY <1>a, <1>r DEF AmRequests, AmShape
 <2>3. v.snap = amReq[q].snap BY <1>r DEF AmRequests
 <2> HIDE DEF v
 <2>4. amReq \in Seq(AmRequests) BY <1>a DEF AmShape
 <2> QED BY <2>1, <2>2, <2>3, <2>4, <1>r, AmPut
<1>d. amCache' \in [AmKeys -> 0..Len(amReq)]
  BY <1>a, <1>r DEF AmRequestFails, AmShape, evictFailed, AmRequests
<1>1. AmShape' BY <1>a, <1>r, <1>b, <1>c, <1>d DEF AmShape, AmTabSet
<1>2. \A p \in AmOps : AmOpFits(amOp[p])' BY <1>a, <1>r, <1>b, <1>c, <1>d DEF AmShape, AmOpFits
<1>3. amSolo' /\ amOpen' => AmSettled' BY <1>a, <1>r, <1>b, <1>c, <1>d
<1>4. ASSUME ~amMixed' PROVE AmPrimaryStays'
 <2>1. AmPrimaryStays' BY <1>a, <1>r, <1>b, <1>c, <1>d, <1>4 DEF AmPrimaryStays, AmBusy
 <2> QED BY <2>1
<1> QED BY <1>1, <1>2, <1>3, <1>4 DEF AmInv

\* The article is closed.
LEMMA AmCloseKeeps ==
  ASSUME AmSizes, AmInv, AmClose
  PROVE  AmInv'
<1> USE DEF AmRefer, AmFits
<1>a. AmFits BY DEF AmInv
<1>r. AmRefer BY <1>a, AmRefs
<1>b. amDb' = amDb /\ amReq' = amReq /\ amCache' = amCache /\ amHydrate' = amHydrate /\ amOp' = amOp /\ amSections' = amSections /\ amTabs' = amTabs /\ amSolo' = amSolo /\ amMixed' = amMixed /\ amOpen' = FALSE
  BY DEF AmClose
<1>1. AmShape' BY <1>a, <1>r, <1>b DEF AmShape, AmTabSet
<1>2. \A p \in AmOps : AmOpFits(amOp[p])' BY <1>a, <1>r, <1>b DEF AmShape, AmOpFits
<1>3. amSolo' /\ amOpen' => AmSettled' BY <1>a, <1>r, <1>b
<1>4. ASSUME ~amMixed' PROVE AmPrimaryStays'
 <2>1. AmPrimaryStays' BY <1>a, <1>r, <1>b, <1>4 DEF AmPrimaryStays, AmBusy
 <2> QED BY <2>1
<1> QED BY <1>1, <1>2, <1>3, <1>4 DEF AmInv

\* A hydration that failed, or came too late.
LEMMA AmHydrateEndsKeeps ==
  ASSUME AmSizes, AmInv, AmHydrateEnds
  PROVE  AmInv'
<1> USE DEF AmRefer, AmFits
<1>a. AmFits BY DEF AmInv
<1>r. AmRefer BY <1>a, AmRefs
<1>b. amDb' = amDb /\ amOpen' = amOpen /\ amReq' = amReq /\ amCache' = amCache /\ amOp' = amOp /\ amSections' = amSections /\ amTabs' = amTabs /\ amMixed' = amMixed /\ amSolo' = FALSE /\ amHydrate' = [pc |-> "done", req |-> 0]
  BY DEF AmHydrateEnds
<1>c. amHydrate' \in [pc : {"frame", "asked", "attachments", "tabs", "done"}, req : 0..Len(amReq)]
  BY <1>b, <1>r
<1>1. AmShape' BY <1>a, <1>r, <1>b, <1>c DEF AmShape, AmTabSet
<1>2. \A p \in AmOps : AmOpFits(amOp[p])' BY <1>a, <1>r, <1>b, <1>c DEF AmShape, AmOpFits
<1>3. amSolo' /\ amOpen' => AmSettled' BY <1>a, <1>r, <1>b, <1>c
<1>4. ASSUME ~amMixed' PROVE AmPrimaryStays'
 <2>1. AmPrimaryStays' BY <1>a, <1>r, <1>b, <1>c, <1>4 DEF AmPrimaryStays, AmBusy
 <2> QED BY <2>1
<1> QED BY <1>1, <1>2, <1>3, <1>4 DEF AmInv

\* The rows of a tab arrive.
LEMMA AmTabLoadedKeeps ==
  ASSUME AmSizes, AmInv, AmTabLoaded
  PROVE  AmInv'
<1> USE DEF AmRefer, AmFits
<1>a. AmFits BY DEF AmInv
<1>r. AmRefer BY <1>a, AmRefs
<1>b. amDb' = amDb /\ amOpen' = amOpen /\ amReq' = amReq /\ amCache' = amCache /\ amHydrate' = amHydrate /\ amOp' = amOp /\ amSections' = amSections /\ amSolo' = amSolo /\ amMixed' = amMixed
  BY DEF AmTabLoaded
<1>c. amTabs.load # 0 /\ amTabs.load \in DOMAIN amReq BY <1>a DEF AmTabLoaded, AmServed, AmFailed, AmShape
<1>d. amTabs' \in AmTabSet /\ amTabs'.load = 0 /\ amTabs'.gen = amTabs.gen /\ amTabs'.comments = amTabs.comments
 <2>1. amReq[amTabs.load].snap.kids \in SUBSET {1} BY <1>r, <1>c DEF AmRequests, AmRows
 <2> QED BY <1>a, <2>1 DEF AmTabLoaded, AmShape, AmTabSet
<1>e. AmServed(amTabs.load) => amTabs'.loaded /\ amTabs'.rows = amReq[amTabs.load].snap.kids
  BY <1>a DEF AmTabLoaded, AmShape, AmTabSet
<1>1. AmShape' BY <1>a, <1>r, <1>b, <1>c, <1>d, <1>e DEF AmShape, AmTabSet
<1>2. \A p \in AmOps : AmOpFits(amOp[p])' BY <1>a, <1>r, <1>b, <1>c, <1>d, <1>e DEF AmShape, AmOpFits
<1>3. ASSUME amSolo', amOpen' PROVE AmSettled'
 <2>0. AmAlone /\ AmSectionsStored /\ AmTabsStored /\ AmAnswersFresh
   BY <1>a, <1>r, <1>b, <1>c, <1>d, <1>e, <1>3 DEF AmSettled
 <2>1. AmAlone' BY <1>a, <1>r, <1>b, <1>c, <1>d, <1>e, <1>3, <2>0 DEF AmAlone, AmHydrating, AmBusy
 <2>2. AmSectionsStored'
   BY <1>a, <1>r, <1>b, <1>c, <1>d, <1>e, <1>3, <2>0 DEF AmSectionsStored, AmSectionStored, AmDoing, AmCalls
 <2>3. AmTabsStored'
  <3>1. AmServed(amTabs.load) BY <1>c, <2>0 DEF AmTabLoaded, AmServed, AmFailed, AmAnswersFresh
  <3> QED BY <1>a, <1>b, <1>c, <1>d, <1>e, <2>0, <3>1 DEF AmTabsStored, AmAnswersFresh, AmDoing
 <2>4. AmAnswersFresh' BY <1>a, <1>r, <1>b, <1>c, <1>d, <1>e, <1>3, <2>0 DEF AmAnswersFresh, AmDoing, AmBusy
 <2> QED BY <2>1, <2>2, <2>3, <2>4 DEF AmSettled
<1>4. ASSUME ~amMixed' PROVE AmPrimaryStays'
 <2>1. AmPrimaryStays' BY <1>a, <1>r, <1>b, <1>c, <1>d, <1>e, <1>4 DEF AmPrimaryStays, AmBusy
 <2> QED BY <2>1
<1> QED BY <1>1, <1>2, <1>3, <1>4 DEF AmInv

\* The hydration asks for all children.
LEMMA AmHydrateAsks ==
  ASSUME AmSizes, AmInv, hydrateRelatedSections
  PROVE  AmInv'
<1> USE DEF AmRefer, AmFits
<1>a. AmFits BY DEF AmInv
<1>r. AmRefer BY <1>a, AmRefs
<1>b. amDb' = amDb /\ amOpen' = amOpen /\ amOp' = amOp /\ amSections' = amSections /\ amTabs' = amTabs /\ amSolo' = amSolo /\ amMixed' = amMixed /\ amHydrate.pc = "frame"
  BY DEF hydrateRelatedSections
<1>c. PICK id : AmAskedStep(id, "all", FALSE) /\ amHydrate' = [pc |-> "asked", req |-> id]
 <2>1. amReq' = fetchDynamicChildren("all", FALSE).req /\ amCache' = fetchDynamicChildren("all", FALSE).cache
       /\ amHydrate' = [pc |-> "asked", req |-> fetchDynamicChildren("all", FALSE).id]
   BY DEF hydrateRelatedSections
 <2> QED BY <2>1, <1>a, <1>r, AmAskingStep
<1>d. amHydrate' \in [pc : {"frame", "asked", "attachments", "tabs", "done"}, req : 0..Len(amReq')]
  BY <1>c DEF AmAskedStep
<1>e. AmAskedStep(id, "all", FALSE) BY <1>c
<1>1. AmShape' BY <1>a, <1>r, <1>b, <1>c, <1>d, <1>e DEF AmShape, AmTabSet, AmAskedStep
<1>2. \A p \in AmOps : AmOpFits(amOp[p])'
  BY <1>a, <1>r, <1>b, <1>c, <1>d, <1>e DEF AmShape, AmOpFits, AmAskedStep
<1>3. ASSUME amSolo', amOpen' PROVE AmSettled'
 <2>0. AmAlone /\ AmSectionsStored /\ AmTabsStored /\ AmAnswersFresh
   BY <1>a, <1>r, <1>b, <1>c, <1>d, <1>e, <1>3 DEF AmSettled
 <2>1. AmAlone'
   BY <1>a, <1>r, <1>b, <1>c, <1>d, <1>e, <1>3, <2>0 DEF AmAlone, AmHydrating, AmBusy, AmAskedStep
 <2>2. AmSectionsStored'
   BY <1>a, <1>r, <1>b, <1>c, <1>d, <1>e, <1>3, <2>0 DEF AmSectionsStored, AmSectionStored, AmDoing, AmCalls, AmAskedStep
 <2>3. AmTabsStored' BY <1>a, <1>r, <1>b, <1>c, <1>d, <1>e, <1>3, <2>0 DEF AmTabsStored, AmDoing, AmAskedStep
 <2>4. AmAnswersFresh'
   BY <1>a, <1>r, <1>b, <1>c, <1>d, <1>e, <1>3, <2>0 DEF AmAnswersFresh, AmDoing, AmBusy, AmAskedStep
 <2> QED BY <2>1, <2>2, <2>3, <2>4 DEF AmSettled
<1>4. ASSUME ~amMixed' PROVE AmPrimaryStays'
 <2>1. AmPrimaryStays' BY <1>a, <1>r, <1>b, <1>c, <1>d, <1>e, <1>4 DEF AmPrimaryStays, AmBusy, AmAskedStep
 <2> QED BY <2>1
<1> QED BY <1>1, <1>2, <1>3, <1>4 DEF AmInv

\* The hydration appends the section of the gallery.
LEMMA AmHydrateGallery ==
  ASSUME AmSizes, AmInv, AmHydrateSection("gallery")
  PROVE  AmInv'
<1> USE DEF AmRefer, AmFits
<1>a. AmFits BY DEF AmInv
<1>r. AmRefer BY <1>a, AmRefs
<1>b. amDb' = amDb /\ amOpen' = amOpen /\ amReq' = amReq /\ amCache' = amCache /\ amOp' = amOp /\ amTabs' = amTabs /\ amSolo' = amSolo /\ amMixed' = amMixed /\ amHydrate.pc = "asked"
  BY DEF AmHydrateSection
<1>c. amHydrate' \in [pc : {"frame", "asked", "attachments", "tabs", "done"}, req : 0..Len(amReq)] /\ amHydrate'.pc = "attachments" /\ amHydrate'.req = amHydrate.req /\ amHydrate.req \in DOMAIN amReq
  BY <1>a, <1>r DEF AmHydrateSection, AmShape, AmServed
<1>d. AmSection("gallery", amHydrate.req) \in AmSectionSet /\ AmSection("gallery", amHydrate.req).rows = amReq[amHydrate.req].snap.gallery /\ AmSection("gallery", amHydrate.req).primary = amReq[amHydrate.req].snap.primary
  BY <1>r, <1>c DEF AmSection, buildImageGallery, buildAttachmentList, AmSectionSet, AmRequests, AmRows
<1>e. /\ amSections' \in [AmMedia -> Seq(AmSectionSet)] /\ \A k \in AmMedia \ {"gallery"} : amSections'[k] = amSections[k]
      /\ amSections'["gallery"] # <<>> /\ DOMAIN amSections["gallery"] = 1..Len(amSections["gallery"]) /\ Len(amSections["gallery"]) \in Nat
      /\ DOMAIN amSections'["gallery"] = 1..(Len(amSections["gallery"]) + 1)
      /\ amSections'["gallery"][Len(amSections["gallery"]) + 1] = AmSection("gallery", amHydrate.req)
      /\ \A n \in DOMAIN amSections["gallery"] : amSections'["gallery"][n] = amSections["gallery"][n]
      /\ amSections["gallery"] = <<>> => Len(amSections["gallery"]) = 0
      /\ amSections["gallery"] # <<>> => 1 \in DOMAIN amSections["gallery"]
 <2> DEFINE new == AmSection("gallery", amHydrate.req)
            old == amSections["gallery"]
 <2>1. amSections' = [amSections EXCEPT !["gallery"] = Append(old, new)] BY DEF AmHydrateSection
 <2>2. amSections \in [AmMedia -> Seq(AmSectionSet)] /\ old \in Seq(AmSectionSet) /\ new \in AmSectionSet
   BY <1>a, <1>r, <1>d DEF AmShape
 <2> HIDE DEF new
 <2>3. amSections'["gallery"] = Append(old, new) /\ amSections' \in [AmMedia -> Seq(AmSectionSet)]
       /\ \A k \in AmMedia \ {"gallery"} : amSections'[k] = amSections[k] BY <2>1, <2>2, <1>r
 <2> HIDE DEF old
 <2>4. /\ Append(old, new) # <<>> /\ Len(old) \in Nat /\ DOMAIN old = 1..Len(old)
       /\ DOMAIN Append(old, new) = 1..(Len(old) + 1) /\ Append(old, new)[Len(old) + 1] = new
       /\ \A n \in DOMAIN old : Append(old, new)[n] = old[n]
       /\ old = <<>> => Len(old) = 0
       /\ old # <<>> => 1 \in DOMAIN old BY <2>2
 <2> QED BY <2>3, <2>4 DEF old, new
<1>f. "gallery" # "attachments" /\ AmMedia = {"gallery", "attachments"} BY DEF AmMedia
<1>1. AmShape' BY <1>a, <1>r, <1>b, <1>c, <1>d, <1>e, <1>f DEF AmShape, AmTabSet
<1>2. \A p \in AmOps : AmOpFits(amOp[p])' BY <1>a, <1>r, <1>b, <1>c, <1>d, <1>e, <1>f DEF AmShape, AmOpFits
<1>3. ASSUME amSolo', amOpen' PROVE AmSettled'
 <2>0. AmAlone /\ AmSectionsStored /\ AmTabsStored /\ AmAnswersFresh
   BY <1>a, <1>r, <1>b, <1>c, <1>d, <1>e, <1>f, <1>3 DEF AmSettled
 <2>1. AmAlone' BY <1>a, <1>r, <1>b, <1>c, <1>d, <1>e, <1>f, <1>3, <2>0 DEF AmAlone, AmHydrating, AmBusy
 <2>2. AmSectionsStored'
  <3>1. amReq[amHydrate.req].snap = amDb BY <1>b, <2>0 DEF AmAnswersFresh
  <3>2. AmSectionStored("gallery") => AmSectionStored("gallery")'
    BY <1>b, <1>d, <1>e, <1>f, <3>1 DEF AmSectionStored
  <3>3. AmSectionStored("attachments")' <=> AmSectionStored("attachments")
    BY <1>b, <1>e, <1>f DEF AmSectionStored
  <3>4. \A dos, pcs : AmDoing(dos, pcs)' <=> AmDoing(dos, pcs) BY <1>b DEF AmDoing
  <3> QED BY <2>0, <3>2, <3>3, <3>4 DEF AmSectionsStored
 <2>3. AmTabsStored' BY <1>a, <1>r, <1>b, <1>c, <1>d, <1>e, <1>f, <1>3, <2>0 DEF AmTabsStored, AmDoing
 <2>4. AmAnswersFresh'
   BY <1>a, <1>r, <1>b, <1>c, <1>d, <1>e, <1>f, <1>3, <2>0 DEF AmAnswersFresh, AmDoing, AmBusy
 <2> QED BY <2>1, <2>2, <2>3, <2>4 DEF AmSettled
<1>4. ASSUME ~amMixed' PROVE AmPrimaryStays'
 <2>1. AmPrimaryStays'
  <3>1. AmPrimaryStays BY <1>a, <1>b, <1>4
  <3>2. \A n \in DOMAIN amSections'["gallery"] : amSections'["gallery"][n].rows \subseteq amDb.gallery
   <4>1. AmSection("gallery", amHydrate.req).rows \subseteq amDb.gallery
     BY <1>c, <1>d, <3>1 DEF AmPrimaryStays
   <4> QED BY <4>1, <1>e, <3>1 DEF AmPrimaryStays
  <3> QED BY <1>b, <3>1, <3>2 DEF AmPrimaryStays, AmBusy
 <2> QED BY <2>1
<1> QED BY <1>1, <1>2, <1>3, <1>4 DEF AmInv

\* The hydration appends the section of the attachments.
LEMMA AmHydrateAttachments ==
  ASSUME AmSizes, AmInv, AmHydrateSection("attachments")
  PROVE  AmInv'
<1> USE DEF AmRefer, AmFits
<1>a. AmFits BY DEF AmInv
<1>r. AmRefer BY <1>a, AmRefs
<1>b. amDb' = amDb /\ amOpen' = amOpen /\ amReq' = amReq /\ amCache' = amCache /\ amOp' = amOp /\ amTabs' = amTabs /\ amSolo' = amSolo /\ amMixed' = amMixed /\ amHydrate.pc = "attachments"
  BY DEF AmHydrateSection
<1>c. amHydrate' \in [pc : {"frame", "asked", "attachments", "tabs", "done"}, req : 0..Len(amReq)] /\ amHydrate'.pc = "tabs" /\ amHydrate'.req = amHydrate.req /\ amHydrate.req \in DOMAIN amReq
  BY <1>a, <1>r DEF AmHydrateSection, AmShape, AmServed
<1>d. AmSection("attachments", amHydrate.req) \in AmSectionSet /\ AmSection("attachments", amHydrate.req).rows = amReq[amHydrate.req].snap.attachments
  BY <1>r, <1>c DEF AmSection, buildImageGallery, buildAttachmentList, AmSectionSet, AmRequests, AmRows
<1>e. /\ amSections' \in [AmMedia -> Seq(AmSectionSet)] /\ \A k \in AmMedia \ {"attachments"} : amSections'[k] = amSections[k]
      /\ amSections'["attachments"] # <<>> /\ DOMAIN amSections["attachments"] = 1..Len(amSections["attachments"]) /\ Len(amSections["attachments"]) \in Nat
      /\ DOMAIN amSections'["attachments"] = 1..(Len(amSections["attachments"]) + 1)
      /\ amSections'["attachments"][Len(amSections["attachments"]) + 1] = AmSection("attachments", amHydrate.req)
      /\ \A n \in DOMAIN amSections["attachments"] : amSections'["attachments"][n] = amSections["attachments"][n]
      /\ amSections["attachments"] = <<>> => Len(amSections["attachments"]) = 0
      /\ amSections["attachments"] # <<>> => 1 \in DOMAIN amSections["attachments"]
 <2> DEFINE new == AmSection("attachments", amHydrate.req)
            old == amSections["attachments"]
 <2>1. amSections' = [amSections EXCEPT !["attachments"] = Append(old, new)] BY DEF AmHydrateSection
 <2>2. amSections \in [AmMedia -> Seq(AmSectionSet)] /\ old \in Seq(AmSectionSet) /\ new \in AmSectionSet
   BY <1>a, <1>r, <1>d DEF AmShape
 <2> HIDE DEF new
 <2>3. amSections'["attachments"] = Append(old, new) /\ amSections' \in [AmMedia -> Seq(AmSectionSet)]
       /\ \A k \in AmMedia \ {"attachments"} : amSections'[k] = amSections[k] BY <2>1, <2>2, <1>r
 <2> HIDE DEF old
 <2>4. /\ Append(old, new) # <<>> /\ Len(old) \in Nat /\ DOMAIN old = 1..Len(old)
       /\ DOMAIN Append(old, new) = 1..(Len(old) + 1) /\ Append(old, new)[Len(old) + 1] = new
       /\ \A n \in DOMAIN old : Append(old, new)[n] = old[n]
       /\ old = <<>> => Len(old) = 0
       /\ old # <<>> => 1 \in DOMAIN old BY <2>2
 <2> QED BY <2>3, <2>4 DEF old, new
<1>f. "gallery" # "attachments" /\ AmMedia = {"gallery", "attachments"} BY DEF AmMedia
<1>1. AmShape' BY <1>a, <1>r, <1>b, <1>c, <1>d, <1>e, <1>f DEF AmShape, AmTabSet
<1>2. \A p \in AmOps : AmOpFits(amOp[p])' BY <1>a, <1>r, <1>b, <1>c, <1>d, <1>e, <1>f DEF AmShape, AmOpFits
<1>3. ASSUME amSolo', amOpen' PROVE AmSettled'
 <2>0. AmAlone /\ AmSectionsStored /\ AmTabsStored /\ AmAnswersFresh
   BY <1>a, <1>r, <1>b, <1>c, <1>d, <1>e, <1>f, <1>3 DEF AmSettled
 <2>1. AmAlone' BY <1>a, <1>r, <1>b, <1>c, <1>d, <1>e, <1>f, <1>3, <2>0 DEF AmAlone, AmHydrating, AmBusy
 <2>2. AmSectionsStored'
  <3>1. amReq[amHydrate.req].snap = amDb BY <1>b, <2>0 DEF AmAnswersFresh
  <3>2. AmSectionStored("attachments") => AmSectionStored("attachments")'
    BY <1>b, <1>d, <1>e, <1>f, <3>1 DEF AmSectionStored
  <3>3. AmSectionStored("gallery")' <=> AmSectionStored("gallery") BY <1>b, <1>e, <1>f DEF AmSectionStored
  <3>4. \A dos, pcs : AmDoing(dos, pcs)' <=> AmDoing(dos, pcs) BY <1>b DEF AmDoing
  <3> QED BY <2>0, <3>2, <3>3, <3>4 DEF AmSectionsStored
 <2>3. AmTabsStored' BY <1>a, <1>r, <1>b, <1>c, <1>d, <1>e, <1>f, <1>3, <2>0 DEF AmTabsStored, AmDoing
 <2>4. AmAnswersFresh'
   BY <1>a, <1>r, <1>b, <1>c, <1>d, <1>e, <1>f, <1>3, <2>0 DEF AmAnswersFresh, AmDoing, AmBusy
 <2> QED BY <2>1, <2>2, <2>3, <2>4 DEF AmSettled
<1>4. ASSUME ~amMixed' PROVE AmPrimaryStays'
 <2>1. AmPrimaryStays' BY <1>a, <1>r, <1>b, <1>c, <1>d, <1>e, <1>f, <1>4 DEF AmPrimaryStays, AmBusy
 <2> QED BY <2>1
<1> QED BY <1>1, <1>2, <1>3, <1>4 DEF AmInv

\* A tab asks for its rows, or has none to ask for.
AmTabAsked(id) ==
  /\ amReq' \in Seq(AmRequests) /\ amCache' \in [AmKeys -> 0..Len(amReq')]
  /\ Len(amReq') \in Nat /\ Len(amReq) <= Len(amReq') /\ DOMAIN amReq' = 1..Len(amReq') /\ id \in 0..Len(amReq')
  /\ \A q \in DOMAIN amReq : q \in DOMAIN amReq' /\ amReq'[q] = amReq[q]
  /\ \A q \in DOMAIN amReq' \ DOMAIN amReq : amReq'[q].pc = "asked" /\ amReq'[q].snap = amDb
  /\ id # 0 => id = amCache["tab"] \/ id \notin DOMAIN amReq
  /\ amCache'["all"] = amCache["all"] /\ amCache'["tab"] \in {amCache["tab"], id}

\* A tab that asks for its rows shares the cached request or makes a new one.
LEMMA AmTabAsks ==
  ASSUME AmShape, \A x \in AmOps : AmOpFits(amOp[x]), NEW id, AmAskedStep(id, "tab", FALSE)
  PROVE  AmTabAsked(id)
<1>1. "all" \in AmKeys \ {"tab"} BY DEF AmKeys
<1> QED BY <1>1 DEF AmAskedStep, AmTabAsked

\* A tab with nothing to ask for leaves the requests alone.
LEMMA AmTabAsksNot ==
  ASSUME AmShape, \A x \in AmOps : AmOpFits(amOp[x]), UNCHANGED <<amReq, amCache>>
  PROVE  AmTabAsked(0)
<1>1. amReq' = amReq /\ amCache' = amCache OBVIOUS
<1>2. amReq \in Seq(AmRequests) /\ amCache \in [AmKeys -> 0..Len(amReq)] BY DEF AmShape
<1> QED BY <1>1, <1>2, AmRefs DEF AmTabAsked, AmRefer

\* Building the related tabs leaves them empty, with at most one request under way.
LEMMA AmBuilds ==
  ASSUME AmShape, \A x \in AmOps : AmOpFits(amOp[x]), NEW kids \in SUBSET {1}, NEW gen \in Nat, buildRelatedTabs(kids, gen)
  PROVE  \E id : /\ AmTabAsked(id)
                 /\ amTabs' = [on |-> TRUE, gen |-> gen, loaded |-> FALSE, load |-> id, rows |-> {}, comments |-> {}]
<1> DEFINE ask == fetchDynamicChildren("tab", FALSE)
<1>1. CASE kids = {}
 <2>1. amTabs' = [AmNoTabs EXCEPT !.on = TRUE, !.gen = gen, !.load = 0] /\ UNCHANGED <<amReq, amCache>>
   BY <1>1 DEF buildRelatedTabs
 <2>2. amTabs' = [on |-> TRUE, gen |-> gen, loaded |-> FALSE, load |-> 0, rows |-> {}, comments |-> {}]
   BY <2>1 DEF AmNoTabs
 <2> QED BY <2>1, <2>2, AmTabAsksNot
<1>2. CASE kids # {}
 <2>1. amTabs' = [AmNoTabs EXCEPT !.on = TRUE, !.gen = gen, !.load = ask.id] /\ amReq' = ask.req /\ amCache' = ask.cache
   BY <1>2 DEF buildRelatedTabs
 <2>2. amTabs' = [on |-> TRUE, gen |-> gen, loaded |-> FALSE, load |-> ask.id, rows |-> {}, comments |-> {}]
  <3> HIDE DEF ask
  <3> QED BY <2>1 DEF AmNoTabs
 <2>3. AmAskedStep(ask.id, "tab", FALSE) BY <2>1, AmAskingStep, AmRefs DEF AmRefer
 <2> HIDE DEF ask
 <2> QED BY <2>2, <2>3, AmTabAsks
<1> QED BY <1>1, <1>2

\* A click loads the rows of a tab.
LEMMA AmClickTabKeeps ==
  ASSUME AmSizes, AmInv, AmClickTab
  PROVE  AmInv'
<1> USE DEF AmRefer, AmFits
<1>a. AmFits BY DEF AmInv
<1>r. AmRefer BY <1>a, AmRefs
<1>b. amDb' = amDb /\ amOpen' = amOpen /\ amHydrate' = amHydrate /\ amOp' = amOp /\ amSections' = amSections /\ amMixed' = amMixed /\ amSolo' = (amSolo /\ AmQuiet) /\ ~amTabs.loaded /\ amTabs.load = 0
  BY DEF AmClickTab
<1>c. PICK id : AmTabAsked(id) /\ amTabs' = [amTabs EXCEPT !.load = id]
 <2>1. /\ amReq' = fetchDynamicChildren("tab", FALSE).req /\ amCache' = fetchDynamicChildren("tab", FALSE).cache
       /\ amTabs' = [amTabs EXCEPT !.load = fetchDynamicChildren("tab", FALSE).id] BY DEF AmClickTab
 <2>2. AmAskedStep(fetchDynamicChildren("tab", FALSE).id, "tab", FALSE) BY <2>1, <1>a, <1>r, AmAskingStep
 <2> QED BY <2>1, <2>2, <1>a, AmTabAsks
<1>d. amTabs' \in AmTabSet /\ amTabs'.load = id /\ amTabs'.gen = amTabs.gen /\ amTabs'.loaded = amTabs.loaded /\ amTabs'.rows = amTabs.rows /\ amTabs'.comments = amTabs.comments
 <2>1. id \in Nat BY <1>c DEF AmTabAsked
 <2> QED BY <2>1, <1>a, <1>c DEF AmShape, AmTabSet
<1>e. AmTabAsked(id) BY <1>c
<1>f. amHydrate' \in [pc : {"frame", "asked", "attachments", "tabs", "done"}, req : 0..Len(amReq')]
 <2>1. Len(amReq) <= Len(amReq') /\ Len(amReq') \in Nat BY <1>c DEF AmTabAsked
 <2> QED BY <2>1, <1>a, <1>b, <1>r DEF AmShape
<1>g. (amSolo' => amSolo /\ AmQuiet) /\ amSolo' \in BOOLEAN BY <1>a, <1>b DEF AmShape
<1>1. AmShape' BY <1>a, <1>r, <1>b, <1>c, <1>d, <1>e, <1>f, <1>g DEF AmShape, AmTabSet, AmTabAsked
<1>2. \A p \in AmOps : AmOpFits(amOp[p])'
  BY <1>a, <1>r, <1>b, <1>c, <1>d, <1>e, <1>f, <1>g DEF AmShape, AmOpFits, AmTabAsked
<1>3. ASSUME amSolo', amOpen' PROVE AmSettled'
 <2>0. AmAlone /\ AmSectionsStored /\ AmTabsStored /\ AmAnswersFresh
   BY <1>a, <1>r, <1>b, <1>c, <1>d, <1>e, <1>f, <1>g, <1>3 DEF AmSettled
 <2>1. AmAlone'
   BY <1>a, <1>r, <1>b, <1>c, <1>d, <1>e, <1>f, <1>g, <1>3, <2>0 DEF AmAlone, AmHydrating, AmBusy, AmQuiet
 <2>2. AmSectionsStored'
   BY <1>a, <1>r, <1>b, <1>c, <1>d, <1>e, <1>f, <1>g, <1>3, <2>0 DEF AmSectionsStored, AmSectionStored, AmDoing, AmCalls, AmTabAsked
 <2>3. AmTabsStored'
   BY <1>a, <1>r, <1>b, <1>c, <1>d, <1>e, <1>f, <1>g, <1>3, <2>0 DEF AmTabsStored, AmDoing, AmTabAsked
 <2>4. AmAnswersFresh'
  <3>1. \A dos, pcs : AmDoing(dos, pcs)' <=> AmDoing(dos, pcs) BY <1>b DEF AmDoing
  <3>2. ~AmDoing({"delete_kids"}, {"changed"}) BY <1>3, <1>g DEF AmQuiet, AmDoing, AmBusy
  <3> QED BY <1>r, <1>b, <1>d, <1>e, <2>0, <3>1, <3>2 DEF AmAnswersFresh, AmTabAsked, AmBusy
 <2> QED BY <2>1, <2>2, <2>3, <2>4 DEF AmSettled
<1>4. ASSUME ~amMixed' PROVE AmPrimaryStays'
 <2>1. AmPrimaryStays'
   BY <1>a, <1>r, <1>b, <1>c, <1>d, <1>e, <1>f, <1>g, <1>4 DEF AmPrimaryStays, AmBusy, AmTabAsked
 <2> QED BY <2>1
<1> QED BY <1>1, <1>2, <1>3, <1>4 DEF AmInv

\* The hydration ends with the tabs.
LEMMA AmHydrateTabsKeeps ==
  ASSUME AmSizes, AmInv, AmHydrateTabs
  PROVE  AmInv'
<1> USE DEF AmRefer, AmFits
<1>a. AmFits BY DEF AmInv
<1>r. AmRefer BY <1>a, AmRefs
<1>b. amDb' = amDb /\ amOpen' = amOpen /\ amOp' = amOp /\ amSections' = amSections /\ amSolo' = amSolo /\ amMixed' = amMixed /\ amHydrate.pc = "tabs" /\ amHydrate' = [pc |-> "done", req |-> 0]
  BY DEF AmHydrateTabs
<1>c. PICK id : /\ AmTabAsked(id)
                /\ amTabs' = IF amOpen THEN [on |-> TRUE, gen |-> 1, loaded |-> FALSE, load |-> id, rows |-> {}, comments |-> {}] ELSE amTabs
 <2>1. CASE amOpen
  <3>1. amReq[amHydrate.req].snap.kids \in SUBSET {1} BY <1>b, <1>r DEF AmRequests, AmRows
  <3> QED BY <2>1, <3>1, <1>a, AmBuilds DEF AmHydrateTabs
 <2>2. CASE ~amOpen BY <2>2, <1>a, AmTabAsksNot DEF AmHydrateTabs
 <2> QED BY <2>1, <2>2, <1>a DEF AmShape
<1>d. AmTabAsked(id) BY <1>c
<1>e. amHydrate' \in [pc : {"frame", "asked", "attachments", "tabs", "done"}, req : 0..Len(amReq')] /\ amHydrate'.pc = "done"
  BY <1>b, <1>d DEF AmTabAsked
<1>f. amTabs' \in AmTabSet /\ amTabs'.load \in 0..Len(amReq')
 <2>1. id \in Nat /\ id \in 0..Len(amReq') /\ Len(amReq) <= Len(amReq') /\ Len(amReq') \in Nat
   BY <1>d DEF AmTabAsked
 <2>2. amTabs \in AmTabSet /\ amTabs.load \in 0..Len(amReq') BY <1>a, <1>r, <2>1 DEF AmShape, AmTabSet
 <2>3. [on |-> TRUE, gen |-> 1, loaded |-> FALSE, load |-> id, rows |-> {}, comments |-> {}] \in AmTabSet
   BY <2>1 DEF AmTabSet
 <2> QED BY <1>c, <2>1, <2>2, <2>3
<1>g. amOpen => amTabs'.load = id /\ amTabs'.loaded = FALSE /\ amTabs'.comments = {} BY <1>c
<1>1. AmShape' BY <1>a, <1>r, <1>b, <1>c, <1>d, <1>e, <1>f, <1>g DEF AmShape, AmTabSet, AmTabAsked
<1>2. \A p \in AmOps : AmOpFits(amOp[p])'
  BY <1>a, <1>r, <1>b, <1>c, <1>d, <1>e, <1>f, <1>g DEF AmShape, AmOpFits, AmTabAsked
<1>3. ASSUME amSolo', amOpen' PROVE AmSettled'
 <2>0. AmAlone /\ AmSectionsStored /\ AmTabsStored /\ AmAnswersFresh
   BY <1>a, <1>r, <1>b, <1>c, <1>d, <1>e, <1>f, <1>g, <1>3 DEF AmSettled
 <2>1. AmAlone'
   BY <1>a, <1>r, <1>b, <1>c, <1>d, <1>e, <1>f, <1>g, <1>3, <2>0 DEF AmAlone, AmHydrating, AmBusy, AmTabAsked
 <2>2. AmSectionsStored'
   BY <1>a, <1>r, <1>b, <1>c, <1>d, <1>e, <1>f, <1>g, <1>3, <2>0 DEF AmSectionsStored, AmSectionStored, AmDoing, AmCalls, AmTabAsked
 <2>3. AmTabsStored'
   BY <1>a, <1>r, <1>b, <1>c, <1>d, <1>e, <1>f, <1>g, <1>3, <2>0 DEF AmTabsStored, AmDoing, AmTabAsked
 <2>4. AmAnswersFresh'
  <3>1. \A dos, pcs : AmDoing(dos, pcs)' <=> AmDoing(dos, pcs) BY <1>b DEF AmDoing
  <3>2. \A o \in AmOps : ~AmBusy(o) BY <1>b, <2>0 DEF AmAlone, AmHydrating
  <3>3. ~AmDoing({"delete_kids"}, {"changed"}) /\ (\A o \in AmOps : amOp[o].pc \in {"idle", "done"})
    BY <3>2 DEF AmDoing, AmBusy
  <3> QED BY <1>r, <1>b, <1>d, <1>e, <1>g, <1>3, <2>0, <3>1, <3>2, <3>3 DEF AmAnswersFresh, AmTabAsked, AmBusy
 <2> QED BY <2>1, <2>2, <2>3, <2>4 DEF AmSettled
<1>4. ASSUME ~amMixed' PROVE AmPrimaryStays'
 <2>1. AmPrimaryStays'
   BY <1>a, <1>r, <1>b, <1>c, <1>d, <1>e, <1>f, <1>g, <1>4 DEF AmPrimaryStays, AmBusy, AmTabAsked
 <2> QED BY <2>1
<1> QED BY <1>1, <1>2, <1>3, <1>4 DEF AmInv

\* An operation starts.
LEMMA AmStartKeeps ==
  ASSUME AmSizes, AmInv, NEW o \in AmOps, NEW op, AmStartable(op), AmStart(o, op)
  PROVE  AmInv'
<1> USE DEF AmRefer, AmFits
<1>a. AmFits BY DEF AmInv
<1>r. AmRefer BY <1>a, AmRefs
<1>b. amDb' = amDb /\ amOpen' = amOpen /\ amReq' = amReq /\ amCache' = amCache /\ amHydrate' = amHydrate /\ amSections' = amSections /\ amTabs' = amTabs /\ amSolo' = (amSolo /\ AmQuiet)
      /\ amMixed' = (amMixed \/ ~AmQuiet \/ op.do = "delete_gallery") BY DEF AmStart
<1>c. /\ amOp' \in [AmOps -> AmOpSet] /\ \A p \in AmOps : p # o => amOp'[p] = amOp[p]
      /\ amOp'[o].pc = (IF op.do = "read" THEN "comments" ELSE "calling") /\ amOp'[o].do = op.do /\ amOp'[o].row = op.row
      /\ amOp'[o].clear = op.clear /\ amOp'[o].gen = op.gen /\ amOp'[o].left = op.left /\ amOp'[o].req = 0
 <2> DEFINE v == [op EXCEPT !.pc = IF op.do = "read" THEN "comments" ELSE "calling"]
 <2>1. amOp' = [amOp EXCEPT ![o] = v] BY DEF AmStart
 <2>2. v \in AmOpSet /\ v.pc = (IF op.do = "read" THEN "comments" ELSE "calling") /\ v.do = op.do /\ v.row = op.row
       /\ v.clear = op.clear /\ v.gen = op.gen /\ v.left = op.left /\ v.req = 0 BY DEF AmStartable, AmOpSet
 <2> HIDE DEF v
 <2> QED BY <2>1, <2>2, <1>a, AmOpPut
<1>d. AmQuiet => amHydrate.pc = "done" /\ amTabs.load = 0 /\ \A p \in AmOps : amOp[p].pc \in {"idle", "done"}
  BY DEF AmQuiet, AmHydrating, AmBusy
<1>e. (amSolo' => amSolo /\ AmQuiet) /\ (~amMixed' => ~amMixed /\ AmQuiet /\ op.do # "delete_gallery") /\ amSolo' \in BOOLEAN /\ amMixed' \in BOOLEAN
  BY <1>a, <1>b DEF AmShape
<1>1. AmShape' BY <1>a, <1>r, <1>b, <1>c, <1>d, <1>e DEF AmShape, AmTabSet
<1>2. \A p \in AmOps : AmOpFits(amOp[p])'
  BY <1>a, <1>r, <1>b, <1>c, <1>d, <1>e DEF AmShape, AmOpFits, AmStartable, AmOnComments
<1>3. ASSUME amSolo', amOpen' PROVE AmSettled'
 <2>0. AmAlone /\ AmSectionsStored /\ AmTabsStored /\ AmAnswersFresh
   BY <1>a, <1>r, <1>b, <1>c, <1>d, <1>e, <1>3 DEF AmSettled
 <2>1. AmAlone' BY <1>a, <1>r, <1>b, <1>c, <1>d, <1>e, <1>3, <2>0 DEF AmAlone, AmHydrating, AmBusy
 <2>2. AmSectionsStored'
  <3>1. ~AmDoing(AmOnMedia, AmCalls \cup {"changed", "asked"}) /\ ~AmDoing(AmOnMedia, AmCalls \cup {"changed", "asked", "attachments"})
    BY <1>d, <1>e, <1>3 DEF AmDoing, AmCalls
  <3> QED BY <1>b, <2>0, <3>1 DEF AmSectionsStored, AmSectionStored
 <2>3. AmTabsStored'
  <3>1. ~AmDoing({"delete_kids"}, {"changed", "asked"}) /\ ~AmDoing({"comment", "uncomment"}, {"comments", "comments_got"})
    BY <1>d, <1>e, <1>3 DEF AmDoing
  <3> QED BY <1>b, <2>0, <3>1 DEF AmTabsStored
 <2>4. AmAnswersFresh'
  <3>1. ~AmDoing({"delete_kids"}, {"changed"}) BY <1>d, <1>e, <1>3 DEF AmDoing
  <3> QED BY <1>b, <1>c, <1>d, <1>e, <1>3, <2>0, <3>1 DEF AmAnswersFresh, AmBusy, AmStartable
 <2> QED BY <2>1, <2>2, <2>3, <2>4 DEF AmSettled
<1>4. ASSUME ~amMixed' PROVE AmPrimaryStays'
 <2>1. AmPrimaryStays'
  <3>1. AmPrimaryStays /\ AmQuiet BY <1>a, <1>e, <1>4
  <3>2. op.do = "primary" => op.row \in amDb.gallery \ op.clear BY <3>1 DEF AmStartable, AmPrimaryStays
  <3> QED BY <1>b, <1>c, <1>d, <1>e, <1>4, <3>1, <3>2 DEF AmPrimaryStays, AmBusy
 <2> QED BY <2>1
<1> QED BY <1>1, <1>2, <1>3, <1>4 DEF AmInv

\* What a call does to the rows.
LEMMA AmEffectIs ==
  ASSUME AmSizes, AmShape, NEW o \in AmOps, AmOpFits(amOp[o]), amOp[o].pc \in AmCalls, NEW db, db = AmEffect(o)
  PROVE  /\ db \in AmRows
         /\ amOp[o].do # "delete_kids" => db.kids = amDb.kids
         /\ amOp[o].do \notin {"comment", "uncomment"} => db.comments = amDb.comments
         /\ amOp[o].do \notin AmOnMedia =>
              db.gallery = amDb.gallery /\ db.primary = amDb.primary /\ db.attachments = amDb.attachments
         /\ amOp[o].do # "delete_gallery" => amDb.gallery \subseteq db.gallery
         /\ amOp[o].do \notin {"delete_gallery", "primary"} => db.primary = amDb.primary
         /\ amOp[o].do = "primary" /\ amOp[o].pc = "calling" => db.primary = amDb.primary \cup ({amOp[o].row} \cap amDb.gallery)
         /\ amOp[o].pc = "clearing" => db.primary = amDb.primary \ {CHOOSE r \in amOp[o].clear : TRUE}
<1> DEFINE op == amOp[o]
           new == 2 + (o - 1) * AmMaxFiles + op.left
<1>1. op \in AmOpSet /\ amDb \in AmRows BY DEF AmShape
<1>2. new \in AmIds BY <1>1, AmNewId DEF AmOpSet
<1>3. op.pc \in {"calling", "clearing"} /\ (op.pc = "clearing" => op.do = "primary") /\ (op.do = "comment" => op.row \in AmOps)
  BY DEF AmCalls, AmOpFits
<1> HIDE DEF new
<1>4. CASE op.do = "upload_gallery"
 <2>1. db = [amDb EXCEPT !.gallery = @ \cup {new}] BY <1>4 DEF AmEffect, new
 <2> QED BY <1>1, <1>2, <1>3, <1>4, <2>1 DEF AmRows, AmOnMedia
<1>5. CASE op.do = "upload_attachments"
 <2>1. db = [amDb EXCEPT !.attachments = @ \cup {new}] BY <1>5 DEF AmEffect, new
 <2> QED BY <1>1, <1>2, <1>3, <1>5, <2>1 DEF AmRows, AmOnMedia
<1>6. CASE op.do = "delete_gallery"
 <2>1. db = [amDb EXCEPT !.gallery = @ \ {op.row}, !.primary = @ \ {op.row}] BY <1>6 DEF AmEffect
 <2> QED BY <1>1, <1>3, <1>6, <2>1 DEF AmRows, AmOnMedia
<1>7. CASE op.do = "delete_attachments"
 <2>1. db = [amDb EXCEPT !.attachments = @ \ {op.row}] BY <1>7 DEF AmEffect
 <2> QED BY <1>1, <1>3, <1>7, <2>1 DEF AmRows, AmOnMedia
<1>8. CASE op.do = "delete_kids"
 <2>1. db = [amDb EXCEPT !.kids = @ \ {op.row}] BY <1>8 DEF AmEffect
 <2> QED BY <1>1, <1>3, <1>8, <2>1 DEF AmRows, AmOnMedia
<1>9. CASE op.do = "primary" /\ op.pc = "calling"
 <2>1. db = [amDb EXCEPT !.primary = @ \cup ({op.row} \cap amDb.gallery)] BY <1>9 DEF AmEffect
 <2> QED BY <1>1, <1>3, <1>9, <2>1 DEF AmRows, AmOnMedia
<1>10. CASE op.do = "primary" /\ op.pc = "clearing"
 <2> DEFINE r == CHOOSE r \in op.clear : TRUE
 <2>1. db = [amDb EXCEPT !.primary = @ \ {r}] BY <1>10 DEF AmEffect
 <2> HIDE DEF r
 <2>2. db.primary = amDb.primary \ {r} BY <1>1, <2>1 DEF AmRows
 <2>3. db \in AmRows /\ db.kids = amDb.kids /\ db.comments = amDb.comments /\ db.gallery = amDb.gallery
   BY <1>1, <2>1 DEF AmRows
 <2> QED BY <1>3, <1>10, <2>2, <2>3 DEF AmOnMedia, r
<1>11. CASE op.do = "comment"
 <2>1. db = [amDb EXCEPT !.comments = @ \cup {op.row}] BY <1>11 DEF AmEffect
 <2> QED BY <1>1, <1>3, <1>11, <2>1 DEF AmRows, AmOnMedia
<1>12. CASE op.do = "uncomment"
 <2>1. db = [amDb EXCEPT !.comments = @ \ {op.row}] BY <1>12 DEF AmEffect
 <2> QED BY <1>1, <1>3, <1>12, <2>1 DEF AmRows, AmOnMedia
<1>13. CASE op.do \in {"save", "read", "none"}
 <2>1. db = amDb BY <1>13 DEF AmEffect
 <2> QED BY <1>1, <1>3, <1>13, <2>1
<1> QED BY <1>1, <1>3, <1>4, <1>5, <1>6, <1>7, <1>8, <1>9, <1>10, <1>11, <1>12, <1>13 DEF AmOpSet, AmOnMedia, AmOnComments

\* What an operation is after a call: the next file, the next image to clear, the comments or the refresh.
LEMMA AmCallThen ==
  ASSUME AmSizes, AmShape, NEW o \in AmOps, AmOpFits(amOp[o]), AmCallAnswered(o)
  PROVE  /\ amOp' \in [AmOps -> AmOpSet] /\ \A p \in AmOps : p # o => amOp'[p] = amOp[p]
         /\ amOp'[o].do = amOp[o].do /\ amOp'[o].row = amOp[o].row /\ amOp'[o].gen = amOp[o].gen /\ amOp'[o].req = amOp[o].req
         /\ amOp'[o].clear \subseteq amOp[o].clear /\ (amOp'[o].left # 0 => amOp[o].left # 0)
         /\ \/ amOp[o].left # 0 /\ amOp'[o].pc = amOp[o].pc /\ amOp'[o].clear = amOp[o].clear
            \/ /\ amOp'[o].pc = "clearing" /\ amOp'[o].clear # {}
               /\ amOp[o].pc = "clearing" => amOp'[o].clear = amOp[o].clear \ {CHOOSE r \in amOp[o].clear : TRUE}
            \/ amOp'[o].pc = "comments" /\ amOp[o].do \in {"comment", "uncomment"}
            \/ amOp'[o].pc = "changed" /\ amOp[o].do \notin {"comment", "uncomment"}
<1> DEFINE op == amOp[o]
           rest == IF op.pc = "clearing" THEN op.clear \ {CHOOSE r \in op.clear : TRUE} ELSE op.clear
           fewer == [op EXCEPT !.left = @ - 1]
           next == [op EXCEPT !.pc = "clearing", !.clear = rest]
           read == [op EXCEPT !.pc = "comments"]
           changed == [op EXCEPT !.pc = "changed", !.clear = {}]
<1>1. op \in AmOpSet /\ rest \in SUBSET AmIds /\ rest \subseteq op.clear
      /\ (op.pc = "clearing" => rest = op.clear \ {CHOOSE r \in op.clear : TRUE}) BY DEF AmShape, AmOpSet
<1>3. /\ op.left \in 0..AmMaxFiles /\ AmMaxFiles \in Nat /\ (op.clear # {} => op.do = "primary")
      /\ op.left # 0 => op.do \in {"upload_gallery", "upload_attachments"}
  BY <1>1 DEF AmOpSet, AmSizes, AmOpFits
<1>2. amOp' = [amOp EXCEPT ![o] = IF op.left > 1 THEN fewer ELSE IF rest # {} THEN next
                                   ELSE IF op.do \in {"comment", "uncomment"} THEN read ELSE changed]
 <2> DEFINE then == CASE op.left > 1 -> fewer [] rest # {} -> next
                      [] op.do \in {"comment", "uncomment"} -> read [] OTHER -> changed
 <2>1. amOp' = [amOp EXCEPT ![o] = then] BY DEF AmCallAnswered
 <2> HIDE DEF fewer, next, read, changed, rest
 <2>2. then = IF op.left > 1 THEN fewer ELSE IF rest # {} THEN next
              ELSE IF op.do \in {"comment", "uncomment"} THEN read ELSE changed BY <1>1, <1>3
 <2> HIDE DEF then
 <2> QED BY <2>1, <2>2
<1> HIDE DEF rest, fewer, next, read, changed
<1>4. CASE op.left > 1
 <2>1. fewer \in AmOpSet /\ fewer.do = op.do /\ fewer.row = op.row /\ fewer.gen = op.gen /\ fewer.req = op.req
       /\ fewer.clear = op.clear /\ fewer.pc = op.pc BY <1>1, <1>3, <1>4 DEF AmOpSet, fewer
 <2>2. amOp' = [amOp EXCEPT ![o] = fewer] BY <1>2, <1>4
 <2>3. amOp' \in [AmOps -> AmOpSet] /\ amOp'[o] = fewer /\ \A p \in AmOps : p # o => amOp'[p] = amOp[p]
   BY <2>1, <2>2, AmOpPut
 <2> QED BY <2>1, <2>3, <1>3, <1>4
<1>5. CASE ~(op.left > 1) /\ rest # {}
 <2>1. next \in AmOpSet /\ next.do = op.do /\ next.row = op.row /\ next.gen = op.gen /\ next.req = op.req
       /\ next.clear = rest /\ next.pc = "clearing" /\ next.left = op.left BY <1>1 DEF AmOpSet, next
 <2>2. amOp' = [amOp EXCEPT ![o] = next] BY <1>2, <1>5
 <2>3. amOp' \in [AmOps -> AmOpSet] /\ amOp'[o] = next /\ \A p \in AmOps : p # o => amOp'[p] = amOp[p]
   BY <2>1, <2>2, AmOpPut
 <2> QED BY <2>1, <2>3, <1>1, <1>5
<1>6. CASE ~(op.left > 1) /\ rest = {} /\ op.do \in {"comment", "uncomment"}
 <2>1. read \in AmOpSet /\ read.do = op.do /\ read.row = op.row /\ read.gen = op.gen /\ read.req = op.req
       /\ read.clear = op.clear /\ read.pc = "comments" /\ read.left = op.left BY <1>1 DEF AmOpSet, read
 <2>2. amOp' = [amOp EXCEPT ![o] = read] BY <1>2, <1>6
 <2>3. amOp' \in [AmOps -> AmOpSet] /\ amOp'[o] = read /\ \A p \in AmOps : p # o => amOp'[p] = amOp[p]
   BY <2>1, <2>2, AmOpPut
 <2> QED BY <2>1, <2>3, <1>6
<1>7. CASE ~(op.left > 1) /\ rest = {} /\ op.do \notin {"comment", "uncomment"}
 <2>1. changed \in AmOpSet /\ changed.do = op.do /\ changed.row = op.row /\ changed.gen = op.gen /\ changed.req = op.req
       /\ changed.clear = {} /\ changed.pc = "changed" /\ changed.left = op.left BY <1>1 DEF AmOpSet, changed
 <2>2. amOp' = [amOp EXCEPT ![o] = changed] BY <1>2, <1>7
 <2>3. amOp' \in [AmOps -> AmOpSet] /\ amOp'[o] = changed /\ \A p \in AmOps : p # o => amOp'[p] = amOp[p]
   BY <2>1, <2>2, AmOpPut
 <2> QED BY <2>1, <2>3, <1>7
<1> QED BY <1>4, <1>5, <1>6, <1>7

\* A call succeeds.
LEMMA AmCallAnsweredKeeps ==
  ASSUME AmSizes, AmInv, NEW o \in AmOps, AmCallAnswered(o)
  PROVE  AmInv'
<1> USE DEF AmRefer, AmFits, AmOnly
<1>a. AmFits BY DEF AmInv
<1>r. AmRefer BY <1>a, AmRefs
<1>b. amOpen' = amOpen /\ amReq' = amReq /\ amCache' = amCache /\ amHydrate' = amHydrate /\ amSections' = amSections /\ amTabs' = amTabs /\ amSolo' = amSolo /\ amMixed' = amMixed /\ amOp[o].pc \in AmCalls
  BY DEF AmCallAnswered, AmCalls
<1>c. /\ amDb' \in AmRows
      /\ amOp[o].do # "delete_kids" => amDb'.kids = amDb.kids
      /\ amOp[o].do \notin {"comment", "uncomment"} => amDb'.comments = amDb.comments
      /\ amOp[o].do \notin AmOnMedia =>
           amDb'.gallery = amDb.gallery /\ amDb'.primary = amDb.primary /\ amDb'.attachments = amDb.attachments
      /\ amOp[o].do # "delete_gallery" => amDb.gallery \subseteq amDb'.gallery
      /\ amOp[o].do \notin {"delete_gallery", "primary"} => amDb'.primary = amDb.primary
      /\ amOp[o].do = "primary" /\ amOp[o].pc = "calling" => amDb'.primary = amDb.primary \cup ({amOp[o].row} \cap amDb.gallery)
      /\ amOp[o].pc = "clearing" => amDb'.primary = amDb.primary \ {CHOOSE r \in amOp[o].clear : TRUE}
 <2>1. amDb' = AmEffect(o) BY DEF AmCallAnswered, AmPerform
 <2> QED BY <2>1, <1>a, <1>b, AmEffectIs
<1>d. /\ amOp' \in [AmOps -> AmOpSet] /\ \A p \in AmOps : p # o => amOp'[p] = amOp[p]
      /\ amOp'[o].do = amOp[o].do /\ amOp'[o].row = amOp[o].row /\ amOp'[o].gen = amOp[o].gen /\ amOp'[o].req = amOp[o].req
      /\ amOp'[o].clear \subseteq amOp[o].clear /\ (amOp'[o].left # 0 => amOp[o].left # 0)
      /\ \/ amOp[o].left # 0 /\ amOp'[o].pc = amOp[o].pc /\ amOp'[o].clear = amOp[o].clear
         \/ /\ amOp'[o].pc = "clearing" /\ amOp'[o].clear # {}
            /\ amOp[o].pc = "clearing" => amOp'[o].clear = amOp[o].clear \ {CHOOSE r \in amOp[o].clear : TRUE}
         \/ amOp'[o].pc = "comments" /\ amOp[o].do \in {"comment", "uncomment"}
         \/ amOp'[o].pc = "changed" /\ amOp[o].do \notin {"comment", "uncomment"} BY <1>a, AmCallThen
<1>e. amOp[o].pc \in {"calling", "clearing"} /\ amOp'[o].pc \in {"calling", "clearing", "comments", "changed"}
  BY <1>b, <1>d DEF AmCalls
<1>1. AmShape' BY <1>a, <1>r, <1>b, <1>c, <1>d, <1>e DEF AmShape, AmTabSet
<1>2. \A p \in AmOps : AmOpFits(amOp[p])'
 <2>1. AmOpFits(amOp[o])' BY <1>a, <1>b, <1>d, <1>e DEF AmOpFits, AmShape, AmOpSet, AmOnMedia, AmOnComments
 <2>2. \A p \in AmOps : p # o => AmOpFits(amOp[p])' BY <1>a, <1>b, <1>d DEF AmOpFits
 <2> QED BY <2>1, <2>2
<1>3. ASSUME amSolo', amOpen' PROVE AmSettled'
 <2>0. AmAlone /\ AmSectionsStored /\ AmTabsStored /\ AmAnswersFresh
   BY <1>a, <1>r, <1>b, <1>c, <1>d, <1>e, <1>3 DEF AmSettled
 <2>1. AmAlone' BY <1>a, <1>r, <1>b, <1>c, <1>d, <1>e, <1>3, <2>0 DEF AmAlone, AmHydrating, AmBusy
 <2>2. AmSectionsStored'
  <3>1. AmOnly(o) BY <1>b, <2>0 DEF AmAlone, AmBusy, AmHydrating, AmCalls
  <3>2. CASE amOp[o].do \in AmOnMedia BY <1>d, <1>e, <3>2 DEF AmSectionsStored, AmDoing, AmCalls, AmOnMedia
  <3>3. CASE amOp[o].do \notin AmOnMedia
   <4>1. ~AmDoing(AmOnMedia, AmCalls \cup {"changed", "asked"}) /\ ~AmDoing(AmOnMedia, AmCalls \cup {"changed", "asked", "attachments"})
     BY <3>1, <3>3 DEF AmDoing, AmCalls
   <4> QED BY <1>b, <1>c, <2>0, <3>3, <4>1 DEF AmSectionsStored, AmSectionStored
  <3> QED BY <3>2, <3>3
 <2>3. AmTabsStored'
  <3>1. AmOnly(o) BY <1>b, <2>0 DEF AmAlone, AmBusy, AmHydrating, AmCalls
  <3>2. ~AmDoing({"delete_kids"}, {"changed", "asked"}) /\ ~AmDoing({"comment", "uncomment"}, {"comments", "comments_got"})
    BY <3>1, <1>e DEF AmDoing
  <3>3. (amOp[o].do = "delete_kids" => amOp'[o].pc = "changed") /\ (amOp[o].do \in {"comment", "uncomment"} => amOp'[o].pc = "comments")
    BY <1>a, <1>d DEF AmOpFits, AmOnMedia
  <3> QED BY <1>b, <1>c, <1>d, <2>0, <3>2, <3>3 DEF AmTabsStored, AmDoing
 <2>4. AmAnswersFresh'
  <3>1. AmOnly(o) BY <1>b, <2>0 DEF AmAlone, AmBusy, AmHydrating, AmCalls
  <3>2. ~AmDoing({"delete_kids"}, {"changed"}) BY <3>1, <1>e DEF AmDoing
  <3>3. amOp[o].do = "delete_kids" => AmDoing({"delete_kids"}, {"changed"})'
    BY <1>a, <1>d DEF AmOpFits, AmOnMedia, AmDoing
  <3> QED BY <1>r, <1>b, <1>c, <1>d, <1>e, <2>0, <3>1, <3>2, <3>3 DEF AmAnswersFresh, AmBusy
 <2> QED BY <2>1, <2>2, <2>3, <2>4 DEF AmSettled
<1>4. ASSUME ~amMixed' PROVE AmPrimaryStays'
 <2>1. AmPrimaryStays'
  <3>1. AmPrimaryStays BY <1>a, <1>b, <1>4
  <3>2. AmBusy(o) /\ amOp[o].do # "delete_gallery" /\ (amOp[o].do = "primary" => amOp[o].row \in amDb.gallery \ amOp[o].clear)
        /\ (amOp[o].pc = "clearing" => amOp[o].row \in amDb.primary)
    BY <1>e, <3>1 DEF AmPrimaryStays, AmBusy
  <3>3. (amOp[o].pc = "clearing" => amOp[o].do = "primary" /\ (CHOOSE r \in amOp[o].clear : TRUE) \in amOp[o].clear)
        /\ (amOp[o].left # 0 => amOp[o].do \in {"upload_gallery", "upload_attachments"}) /\ (amOp'[o].pc = "clearing" => amOp'[o].do = "primary")
    BY <1>a, <1>2 DEF AmOpFits
  <3>4. amDb'.primary # {} BY <1>c, <1>e, <3>1, <3>2, <3>3 DEF AmPrimaryStays
  <3>5. amOp[o].do = "primary" => amOp[o].row \in amDb'.primary BY <1>c, <1>e, <3>2, <3>3
  <3> QED BY <1>r, <1>b, <1>c, <1>d, <1>e, <3>1, <3>2, <3>3, <3>4, <3>5 DEF AmPrimaryStays, AmBusy
 <2> QED BY <2>1
<1> QED BY <1>1, <1>2, <1>3, <1>4 DEF AmInv

\* A call fails, after or before it did its work.
LEMMA AmCallFailsKeeps ==
  ASSUME AmSizes, AmInv, NEW o \in AmOps, AmCallFails(o)
  PROVE  AmInv'
<1> USE DEF AmRefer, AmFits
<1>a. AmFits BY DEF AmInv
<1>r. AmRefer BY <1>a, AmRefs
<1>b. amOpen' = amOpen /\ amReq' = amReq /\ amCache' = amCache /\ amHydrate' = amHydrate /\ amSections' = amSections /\ amTabs' = amTabs /\ amMixed' = amMixed /\ amSolo' = FALSE /\ amOp[o].pc \in AmCalls
  BY DEF AmCallFails, AmCalls
<1>c. /\ amDb' \in AmRows /\ (amOp[o].do # "delete_gallery" => amDb.gallery \subseteq amDb'.gallery)
      /\ amOp[o].do \notin {"delete_gallery", "primary"} => amDb'.primary = amDb.primary
      /\ amOp[o].pc = "calling" /\ amOp[o].do = "primary" => amDb.primary \subseteq amDb'.primary
      /\ amOp[o].pc = "clearing" => amDb.primary \ {CHOOSE r \in amOp[o].clear : TRUE} \subseteq amDb'.primary
 <2>1. CASE amDb' = amDb BY <2>1, <1>a DEF AmShape
 <2>2. CASE amDb' = AmEffect(o) BY <2>2, <1>a, <1>b, AmEffectIs
 <2> QED BY <2>1, <2>2 DEF AmCallFails, AmPerform
<1>d. /\ amOp' \in [AmOps -> AmOpSet] /\ \A p \in AmOps : p # o => amOp'[p] = amOp[p]
      /\ amOp'[o].pc = "done" /\ amOp'[o].do = "none" /\ amOp'[o].req = 0 /\ amOp'[o].clear = {} /\ amOp'[o].left = 0
  BY <1>a, AmEndsIs DEF AmCallFails
<1>1. AmShape' BY <1>a, <1>r, <1>b, <1>c, <1>d DEF AmShape, AmTabSet
<1>2. \A p \in AmOps : AmOpFits(amOp[p])' BY <1>a, <1>r, <1>b, <1>c, <1>d DEF AmShape, AmOpFits
<1>3. amSolo' /\ amOpen' => AmSettled' BY <1>a, <1>r, <1>b, <1>c, <1>d
<1>4. ASSUME ~amMixed' PROVE AmPrimaryStays'
 <2>1. AmPrimaryStays'
  <3>1. AmPrimaryStays BY <1>a, <1>b, <1>4
  <3>2. AmBusy(o) /\ amOp[o].do # "delete_gallery" /\ (amOp[o].do = "primary" => amOp[o].row \in amDb.gallery \ amOp[o].clear)
        /\ (amOp[o].pc = "clearing" => amOp[o].row \in amDb.primary)
    BY <1>b, <3>1 DEF AmPrimaryStays, AmBusy, AmCalls
  <3>3. amOp[o].pc = "clearing" => amOp[o].do = "primary" /\ (CHOOSE r \in amOp[o].clear : TRUE) \in amOp[o].clear
    BY <1>a DEF AmOpFits
  <3>4. amDb'.primary # {} /\ amDb.gallery \subseteq amDb'.gallery
    BY <1>b, <1>c, <3>1, <3>2, <3>3 DEF AmPrimaryStays, AmCalls
  <3> QED BY <1>r, <1>b, <1>d, <3>1, <3>2, <3>4 DEF AmPrimaryStays, AmBusy
 <2> QED BY <2>1
<1> QED BY <1>1, <1>2, <1>3, <1>4 DEF AmInv

\* A refresh asks for the children again.
LEMMA AmRefreshAsks ==
  ASSUME AmSizes, AmInv, NEW o \in AmOps, refreshMediaSections(o), amHydrate.pc # "frame"
  PROVE  AmInv'
<1> USE DEF AmRefer, AmFits, AmOnly
<1>a. AmFits BY DEF AmInv
<1>r. AmRefer BY <1>a, AmRefs
<1>b. amDb' = amDb /\ amOpen' = amOpen /\ amHydrate' = amHydrate /\ amSections' = amSections /\ amTabs' = amTabs /\ amSolo' = amSolo /\ amMixed' = amMixed /\ amOp[o].pc = "changed" /\ amHydrate.pc # "frame"
  BY DEF refreshMediaSections
<1>c. PICK id : AmAskedStep(id, "all", TRUE) /\ amOp' = [amOp EXCEPT ![o].pc = "asked", ![o].req = id]
 <2>1. amReq' = fetchDynamicChildren("all", TRUE).req /\ amCache' = fetchDynamicChildren("all", TRUE).cache
       /\ amOp' = [amOp EXCEPT ![o].pc = "asked", ![o].req = fetchDynamicChildren("all", TRUE).id]
   BY DEF refreshMediaSections
 <2> QED BY <2>1, <1>a, <1>r, AmAskingStep
<1>d. /\ amOp' \in [AmOps -> AmOpSet] /\ \A p \in AmOps : p # o => amOp'[p] = amOp[p]
      /\ amOp'[o].pc = "asked" /\ amOp'[o].do = amOp[o].do /\ amOp'[o].row = amOp[o].row /\ amOp'[o].clear = amOp[o].clear /\ amOp'[o].left = amOp[o].left /\ amOp'[o].req = id /\ amOp'[o].gen = amOp[o].gen
 <2> DEFINE v == [amOp[o] EXCEPT !.pc = "asked", !.req = id]
 <2>1. amOp' = [amOp EXCEPT ![o] = v] BY <1>c
 <2>2. id \in Nat BY <1>c DEF AmAskedStep
 <2>a. amOp[o] \in AmOpSet BY <1>r
 <2>3. v \in AmOpSet /\ v.pc = "asked" /\ v.do = amOp[o].do /\ v.row = amOp[o].row /\ v.clear = amOp[o].clear
       /\ v.left = amOp[o].left /\ v.req = id /\ v.gen = amOp[o].gen BY <2>a, <2>2 DEF AmOpSet
 <2> HIDE DEF v
 <2> QED BY <2>1, <2>3, <1>a, AmOpPut
<1>e. /\ amReq' \in Seq(AmRequests) /\ amCache' \in [AmKeys -> 0..Len(amReq')] /\ Len(amReq') \in Nat /\ Len(amReq) <= Len(amReq') /\ DOMAIN amReq' = 1..Len(amReq')
      /\ id \in DOMAIN amReq' /\ amReq'[id].snap = amDb /\ amCache'["tab"] = 0
      /\ \A q \in DOMAIN amReq : q \in DOMAIN amReq' /\ amReq'[q] = amReq[q]
      /\ \A q \in DOMAIN amReq' \ DOMAIN amReq : amReq'[q].pc = "asked" /\ amReq'[q].snap = amDb
  BY <1>c DEF AmAskedStep, AmKeys
<1>f. amHydrate' \in [pc : {"frame", "asked", "attachments", "tabs", "done"}, req : 0..Len(amReq')]
  BY <1>a, <1>b, <1>r, <1>e DEF AmShape
<1>1. AmShape' BY <1>a, <1>r, <1>b, <1>c, <1>d, <1>e, <1>f DEF AmShape, AmTabSet
<1>2. \A p \in AmOps : AmOpFits(amOp[p])'
 <2>1. AmOpFits(amOp[o])' BY <1>a, <1>b, <1>d, <1>e DEF AmOpFits
 <2>2. \A p \in AmOps : p # o => AmOpFits(amOp[p])' BY <1>a, <1>r, <1>d, <1>e DEF AmOpFits
 <2> QED BY <2>1, <2>2
<1>3. ASSUME amSolo', amOpen' PROVE AmSettled'
 <2>0. AmAlone /\ AmSectionsStored /\ AmTabsStored /\ AmAnswersFresh
   BY <1>a, <1>r, <1>b, <1>c, <1>d, <1>e, <1>f, <1>3 DEF AmSettled
 <2>1. AmAlone' BY <1>a, <1>r, <1>b, <1>c, <1>d, <1>e, <1>f, <1>3, <2>0 DEF AmAlone, AmHydrating, AmBusy
 <2>2. AmSectionsStored'
  <3>1. AmOnly(o) BY <1>b, <2>0 DEF AmAlone, AmBusy, AmHydrating
  <3>2. AmDoing(AmOnMedia, AmCalls \cup {"changed", "asked"}) => AmDoing(AmOnMedia, AmCalls \cup {"changed", "asked"})'
    BY <1>d, <3>1 DEF AmDoing, AmCalls
  <3>3. AmDoing(AmOnMedia, AmCalls \cup {"changed", "asked", "attachments"}) => AmDoing(AmOnMedia, AmCalls \cup {"changed", "asked", "attachments"})'
    BY <1>d, <3>1 DEF AmDoing, AmCalls
  <3> QED BY <1>b, <2>0, <3>2, <3>3 DEF AmSectionsStored, AmSectionStored
 <2>3. AmTabsStored'
  <3>1. AmOnly(o) BY <1>b, <2>0 DEF AmAlone, AmBusy, AmHydrating
  <3>2. AmDoing({"delete_kids"}, {"changed", "asked"}) => AmDoing({"delete_kids"}, {"changed", "asked"})'
    BY <1>d, <3>1 DEF AmDoing
  <3>3. ~AmDoing({"comment", "uncomment"}, {"comments", "comments_got"}) BY <1>b, <3>1 DEF AmDoing
  <3> QED BY <1>b, <2>0, <3>2, <3>3 DEF AmTabsStored
 <2>4. AmAnswersFresh'
  <3>1. AmOnly(o) BY <1>b, <2>0 DEF AmAlone, AmBusy, AmHydrating
  <3>2. amHydrate'.pc = "done" /\ amTabs'.load = 0 /\ amCache'["tab"] = 0 /\ amTabs'.gen = amTabs.gen
    BY <1>b, <1>e, <3>1
  <3>3. \A q \in DOMAIN amReq' : amReq'[q].pc # "failed" BY <1>e, <2>0 DEF AmAnswersFresh
  <3>4. \A p \in AmOps :
           /\ amOp'[p].pc \in {"asked", "attachments"} => amReq'[amOp'[p].req].snap = amDb'
           /\ AmBusy(p)' /\ amOp'[p].do \in AmOnComments \cup {"delete_kids"} => amOp'[p].gen = amTabs'.gen
           /\ amOp'[p].pc = "comments_got" => amOp'[p].got = amDb'.comments
   <4> SUFFICES ASSUME NEW p \in AmOps
                PROVE  /\ amOp'[p].pc \in {"asked", "attachments"} => amReq'[amOp'[p].req].snap = amDb'
                       /\ AmBusy(p)' /\ amOp'[p].do \in AmOnComments \cup {"delete_kids"} => amOp'[p].gen = amTabs'.gen
                       /\ amOp'[p].pc = "comments_got" => amOp'[p].got = amDb'.comments OBVIOUS
   <4>1. CASE p = o BY <4>1, <1>b, <1>d, <1>e, <2>0, <3>1, <3>2 DEF AmAnswersFresh
   <4>2. CASE p # o BY <4>2, <1>d, <3>1 DEF AmBusy
   <4> QED BY <4>1, <4>2
  <3> QED BY <3>2, <3>3, <3>4 DEF AmAnswersFresh
 <2> QED BY <2>1, <2>2, <2>3, <2>4 DEF AmSettled
<1>4. ASSUME ~amMixed' PROVE AmPrimaryStays'
 <2>1. AmPrimaryStays'
  <3>1. AmPrimaryStays BY <1>a, <1>b, <1>4
  <3>2. \A q \in DOMAIN amReq' : amReq'[q].snap.gallery \subseteq amDb.gallery
    BY <1>e, <3>1 DEF AmPrimaryStays
  <3> QED BY <1>b, <1>d, <3>1, <3>2 DEF AmPrimaryStays, AmBusy
 <2> QED BY <2>1
<1> QED BY <1>1, <1>2, <1>3, <1>4 DEF AmInv

\* Before the hydration has begun there is nothing to refresh.
LEMMA AmRefreshSkips ==
  ASSUME AmSizes, AmInv, NEW o \in AmOps, refreshMediaSections(o), amHydrate.pc = "frame"
  PROVE  AmInv'
<1> USE DEF AmRefer, AmFits
<1>a. AmFits BY DEF AmInv
<1>r. AmRefer BY <1>a, AmRefs
<1>b. amDb' = amDb /\ amOpen' = amOpen /\ amReq' = amReq /\ amCache' = amCache /\ amHydrate' = amHydrate /\ amSections' = amSections /\ amTabs' = amTabs /\ amSolo' = amSolo /\ amMixed' = amMixed /\ amOp[o].pc = "changed" /\ amHydrate.pc = "frame"
  BY DEF refreshMediaSections
<1>c. /\ amOp' \in [AmOps -> AmOpSet] /\ \A p \in AmOps : p # o => amOp'[p] = amOp[p]
      /\ amOp'[o].pc = "done" /\ amOp'[o].do = "none" /\ amOp'[o].req = 0 /\ amOp'[o].clear = {} /\ amOp'[o].left = 0
  BY <1>a, AmEndsIs DEF refreshMediaSections
<1>d. amSolo /\ amOpen => FALSE BY <1>a, <1>b DEF AmSettled, AmAlone, AmHydrating, AmBusy
<1>1. AmShape' BY <1>a, <1>r, <1>b, <1>c, <1>d DEF AmShape, AmTabSet
<1>2. \A p \in AmOps : AmOpFits(amOp[p])'
 <2>1. AmOpFits(amOp[o])' BY <1>a, <1>b, <1>c DEF AmOpFits, AmOnMedia, AmOnComments
 <2>2. \A p \in AmOps : p # o => AmOpFits(amOp[p])' BY <1>a, <1>b, <1>c DEF AmOpFits
 <2> QED BY <2>1, <2>2
<1>3. amSolo' /\ amOpen' => AmSettled' BY <1>a, <1>r, <1>b, <1>c, <1>d
<1>4. ASSUME ~amMixed' PROVE AmPrimaryStays'
 <2>1. AmPrimaryStays' BY <1>a, <1>r, <1>b, <1>c, <1>d, <1>4 DEF AmPrimaryStays, AmBusy
 <2> QED BY <2>1
<1> QED BY <1>1, <1>2, <1>3, <1>4 DEF AmInv

\* A refresh that failed, or came too late.
LEMMA AmRefreshEndsKeeps ==
  ASSUME AmSizes, AmInv, NEW o \in AmOps, AmRefreshEnds(o)
  PROVE  AmInv'
<1> USE DEF AmRefer, AmFits
<1>a. AmFits BY DEF AmInv
<1>r. AmRefer BY <1>a, AmRefs
<1>b. amDb' = amDb /\ amOpen' = amOpen /\ amReq' = amReq /\ amCache' = amCache /\ amHydrate' = amHydrate /\ amSections' = amSections /\ amTabs' = amTabs /\ amSolo' = amSolo /\ amMixed' = amMixed /\ amOp[o].pc = "asked"
  BY DEF AmRefreshEnds
<1>c. /\ amOp' \in [AmOps -> AmOpSet] /\ \A p \in AmOps : p # o => amOp'[p] = amOp[p]
      /\ amOp'[o].pc = "done" /\ amOp'[o].do = "none" /\ amOp'[o].req = 0 /\ amOp'[o].clear = {} /\ amOp'[o].left = 0
  BY <1>a, AmEndsIs DEF AmRefreshEnds
<1>d. amSolo /\ amOpen => FALSE
  BY <1>a, <1>b, <1>r DEF AmRefreshEnds, AmSettled, AmAnswersFresh, AmFailed, AmServed
<1>1. AmShape' BY <1>a, <1>r, <1>b, <1>c, <1>d DEF AmShape, AmTabSet
<1>2. \A p \in AmOps : AmOpFits(amOp[p])'
 <2>1. AmOpFits(amOp[o])' BY <1>a, <1>b, <1>c DEF AmOpFits, AmOnMedia, AmOnComments
 <2>2. \A p \in AmOps : p # o => AmOpFits(amOp[p])' BY <1>a, <1>b, <1>c DEF AmOpFits
 <2> QED BY <2>1, <2>2
<1>3. amSolo' /\ amOpen' => AmSettled' BY <1>a, <1>r, <1>b, <1>c, <1>d
<1>4. ASSUME ~amMixed' PROVE AmPrimaryStays'
 <2>1. AmPrimaryStays' BY <1>a, <1>r, <1>b, <1>c, <1>d, <1>4 DEF AmPrimaryStays, AmBusy
 <2> QED BY <2>1
<1> QED BY <1>1, <1>2, <1>3, <1>4 DEF AmInv

\* A refresh draws the section of the gallery anew.
LEMMA AmRefreshGallery ==
  ASSUME AmSizes, AmInv, NEW o \in AmOps, AmRefreshSection(o, "gallery")
  PROVE  AmInv'
<1> USE DEF AmRefer, AmFits, AmOnly
<1>a. AmFits BY DEF AmInv
<1>r. AmRefer BY <1>a, AmRefs
<1>b. amDb' = amDb /\ amOpen' = amOpen /\ amReq' = amReq /\ amCache' = amCache /\ amHydrate' = amHydrate /\ amTabs' = amTabs /\ amSolo' = amSolo /\ amMixed' = amMixed /\ amOp[o].pc = "asked" /\ amOp[o].do # "delete_kids" /\ amOp[o].req \in DOMAIN amReq
  BY <1>r DEF AmRefreshSection
<1>c. /\ amOp' \in [AmOps -> AmOpSet] /\ \A p \in AmOps : p # o => amOp'[p] = amOp[p]
      /\ amOp'[o].pc = "attachments" /\ amOp'[o].do = amOp[o].do /\ amOp'[o].row = amOp[o].row /\ amOp'[o].clear = amOp[o].clear /\ amOp'[o].left = amOp[o].left /\ amOp'[o].req = amOp[o].req /\ amOp'[o].gen = amOp[o].gen
 <2> DEFINE v == [amOp[o] EXCEPT !.pc = "attachments"]
 <2>1. amOp' = [amOp EXCEPT ![o] = v] BY <1>a DEF AmRefreshSection, AmShape
 <2>3. v \in AmOpSet /\ v.pc = "attachments" /\ v.do = amOp[o].do /\ v.row = amOp[o].row /\ v.clear = amOp[o].clear
       /\ v.left = amOp[o].left /\ v.req = amOp[o].req /\ v.gen = amOp[o].gen BY <1>r DEF AmOpSet
 <2> HIDE DEF v
 <2> QED BY <2>1, <2>3, <1>a, AmOpPut
<1>d. AmSection("gallery", amOp[o].req) \in AmSectionSet /\ AmSection("gallery", amOp[o].req).rows = amReq[amOp[o].req].snap.gallery
      /\ AmSection("gallery", amOp[o].req).primary = amReq[amOp[o].req].snap.primary
  BY <1>r, <1>b DEF AmSection, buildImageGallery, buildAttachmentList, AmSectionSet, AmRequests, AmRows
<1>e. /\ amSections' \in [AmMedia -> Seq(AmSectionSet)] /\ \A k \in AmMedia \ {"gallery"} : amSections'[k] = amSections[k]
      /\ amOpen => /\ amSections'["gallery"] # <<>> /\ amSections'["gallery"][1] = AmSection("gallery", amOp[o].req)
                   /\ \A n \in DOMAIN amSections'["gallery"] : n # 1 => n \in DOMAIN amSections["gallery"] /\ amSections'["gallery"][n] = amSections["gallery"][n]
      /\ ~amOpen => amSections' = amSections
 <2> DEFINE new == AmSection("gallery", amOp[o].req)
            old == amSections["gallery"]
            drawn == IF old = <<>> THEN <<new>> ELSE [old EXCEPT ![1] = new]
 <2>1. amSections' = IF amOpen THEN [amSections EXCEPT !["gallery"] = drawn] ELSE amSections
   BY DEF AmRefreshSection, upsertMediaSection
 <2>2. amSections \in [AmMedia -> Seq(AmSectionSet)] /\ old \in Seq(AmSectionSet) /\ new \in AmSectionSet
   BY <1>a, <1>r, <1>d DEF AmShape
 <2> HIDE DEF new, old
 <2>3. drawn \in Seq(AmSectionSet) /\ drawn # <<>> /\ drawn[1] = new
       /\ \A n \in DOMAIN drawn : n # 1 => n \in DOMAIN old /\ drawn[n] = old[n]
  <3>1. CASE old = <<>> BY <3>1, <2>2
  <3>2. CASE old # <<>>
   <4>1. 1 \in DOMAIN old BY <3>2, <2>2
   <4> QED BY <3>2, <4>1, <2>2
  <3> QED BY <3>1, <3>2
 <2> HIDE DEF drawn
 <2>4. CASE amOpen
  <3>1. amSections'["gallery"] = drawn /\ amSections' \in [AmMedia -> Seq(AmSectionSet)]
        /\ \A k \in AmMedia \ {"gallery"} : amSections'[k] = amSections[k] BY <2>1, <2>2, <2>3, <2>4, <1>r
  <3> QED BY <3>1, <2>3, <2>4 DEF new, old
 <2>5. CASE ~amOpen BY <2>1, <2>2, <2>5
 <2> QED BY <2>4, <2>5, <1>a DEF AmShape
<1>1. AmShape' BY <1>a, <1>r, <1>b, <1>c, <1>d, <1>e DEF AmShape, AmTabSet
<1>2. \A p \in AmOps : AmOpFits(amOp[p])'
 <2>1. AmOpFits(amOp[o])' BY <1>a, <1>b, <1>c, <1>r DEF AmOpFits, AmOnMedia, AmOnComments
 <2>2. \A p \in AmOps : p # o => AmOpFits(amOp[p])' BY <1>a, <1>b, <1>c DEF AmOpFits
 <2> QED BY <2>1, <2>2
<1>3. ASSUME amSolo', amOpen' PROVE AmSettled'
 <2>0. AmAlone /\ AmSectionsStored /\ AmTabsStored /\ AmAnswersFresh
   BY <1>a, <1>r, <1>b, <1>c, <1>d, <1>e, <1>3 DEF AmSettled
 <2>1. AmAlone' BY <1>a, <1>r, <1>b, <1>c, <1>d, <1>e, <1>3, <2>0 DEF AmAlone, AmHydrating, AmBusy
 <2>2. AmSectionsStored'
  <3>1. AmOnly(o) BY <1>b, <2>0 DEF AmAlone, AmBusy, AmHydrating
  <3>2. amReq[amOp[o].req].snap = amDb BY <1>b, <2>0 DEF AmAnswersFresh
  <3>3. AmSectionStored("gallery")' BY <1>b, <1>d, <1>e, <1>3, <3>2 DEF AmSectionStored
  <3>4. AmSectionStored("attachments")' \/ AmDoing(AmOnMedia, AmCalls \cup {"changed", "asked", "attachments"})'
    BY <1>a, <1>b, <1>c, <2>0 DEF AmDoing, AmOpFits
  <3> QED BY <3>3, <3>4 DEF AmSectionsStored
 <2>3. AmTabsStored'
  <3>1. AmOnly(o) BY <1>b, <2>0 DEF AmAlone, AmBusy, AmHydrating
  <3>2. ~AmDoing({"delete_kids"}, {"changed", "asked"}) /\ ~AmDoing({"comment", "uncomment"}, {"comments", "comments_got"})
    BY <1>b, <3>1 DEF AmDoing
  <3> QED BY <1>b, <2>0, <3>2 DEF AmTabsStored
 <2>4. AmAnswersFresh'
  <3>1. AmOnly(o) BY <1>b, <2>0 DEF AmAlone, AmBusy, AmHydrating
  <3>2. ~AmDoing({"delete_kids"}, {"changed"}) BY <1>b, <3>1 DEF AmDoing
  <3> QED BY <1>r, <1>b, <1>c, <2>0, <3>1, <3>2 DEF AmAnswersFresh, AmBusy
 <2> QED BY <2>1, <2>2, <2>3, <2>4 DEF AmSettled
<1>4. ASSUME ~amMixed' PROVE AmPrimaryStays'
 <2>1. AmPrimaryStays'
  <3>1. AmPrimaryStays BY <1>a, <1>b, <1>4
  <3>2. amSections["gallery"] = amSections["gallery"]' \/ AmSection("gallery", amOp[o].req).rows \subseteq amDb.gallery
    BY <1>b, <1>d, <3>1 DEF AmPrimaryStays
  <3>3. \A n \in DOMAIN amSections'["gallery"] : amSections'["gallery"][n].rows \subseteq amDb.gallery
   <4>1. (\A n \in DOMAIN amSections["gallery"] : amSections["gallery"][n].rows \subseteq amDb.gallery)
         /\ amReq[amOp[o].req].snap.gallery \subseteq amDb.gallery BY <1>b, <3>1 DEF AmPrimaryStays
   <4>2. CASE amOpen
    <5> SUFFICES ASSUME NEW n \in DOMAIN amSections'["gallery"]
                 PROVE  amSections'["gallery"][n].rows \subseteq amDb.gallery OBVIOUS
    <5>1. CASE n = 1 BY <5>1, <4>1, <4>2, <1>d, <1>e
    <5>2. CASE n # 1 BY <5>2, <4>1, <4>2, <1>e
    <5> QED BY <5>1, <5>2
   <4>3. CASE ~amOpen BY <4>1, <4>3, <1>e
   <4> QED BY <4>2, <4>3
  <3> QED BY <1>b, <1>c, <3>1, <3>3 DEF AmPrimaryStays, AmBusy
 <2> QED BY <2>1
<1> QED BY <1>1, <1>2, <1>3, <1>4 DEF AmInv

\* A refresh draws the section of the attachments anew.
LEMMA AmRefreshAttachments ==
  ASSUME AmSizes, AmInv, NEW o \in AmOps, AmRefreshSection(o, "attachments")
  PROVE  AmInv'
<1> USE DEF AmRefer, AmFits, AmOnly
<1>a. AmFits BY DEF AmInv
<1>r. AmRefer BY <1>a, AmRefs
<1>b. amDb' = amDb /\ amOpen' = amOpen /\ amReq' = amReq /\ amCache' = amCache /\ amHydrate' = amHydrate /\ amTabs' = amTabs /\ amSolo' = amSolo /\ amMixed' = amMixed /\ amOp[o].pc = "attachments" /\ amOp[o].do # "delete_kids" /\ amOp[o].req \in DOMAIN amReq
  BY <1>r DEF AmRefreshSection
<1>c. /\ amOp' \in [AmOps -> AmOpSet] /\ \A p \in AmOps : p # o => amOp'[p] = amOp[p]
      /\ amOp'[o].pc = "done" /\ amOp'[o].do = "none" /\ amOp'[o].req = 0 /\ amOp'[o].clear = {} /\ amOp'[o].left = 0
  BY <1>a, AmEndsIs DEF AmRefreshSection
<1>d. AmSection("attachments", amOp[o].req) \in AmSectionSet /\ AmSection("attachments", amOp[o].req).rows = amReq[amOp[o].req].snap.attachments
  BY <1>r, <1>b DEF AmSection, buildImageGallery, buildAttachmentList, AmSectionSet, AmRequests, AmRows
<1>e. /\ amSections' \in [AmMedia -> Seq(AmSectionSet)] /\ \A k \in AmMedia \ {"attachments"} : amSections'[k] = amSections[k]
      /\ amOpen => /\ amSections'["attachments"] # <<>> /\ amSections'["attachments"][1] = AmSection("attachments", amOp[o].req)
                   /\ \A n \in DOMAIN amSections'["attachments"] : n # 1 => n \in DOMAIN amSections["attachments"] /\ amSections'["attachments"][n] = amSections["attachments"][n]
      /\ ~amOpen => amSections' = amSections
 <2> DEFINE new == AmSection("attachments", amOp[o].req)
            old == amSections["attachments"]
            drawn == IF old = <<>> THEN <<new>> ELSE [old EXCEPT ![1] = new]
 <2>1. amSections' = IF amOpen THEN [amSections EXCEPT !["attachments"] = drawn] ELSE amSections
   BY DEF AmRefreshSection, upsertMediaSection
 <2>2. amSections \in [AmMedia -> Seq(AmSectionSet)] /\ old \in Seq(AmSectionSet) /\ new \in AmSectionSet
   BY <1>a, <1>r, <1>d DEF AmShape
 <2> HIDE DEF new, old
 <2>3. drawn \in Seq(AmSectionSet) /\ drawn # <<>> /\ drawn[1] = new
       /\ \A n \in DOMAIN drawn : n # 1 => n \in DOMAIN old /\ drawn[n] = old[n]
  <3>1. CASE old = <<>> BY <3>1, <2>2
  <3>2. CASE old # <<>>
   <4>1. 1 \in DOMAIN old BY <3>2, <2>2
   <4> QED BY <3>2, <4>1, <2>2
  <3> QED BY <3>1, <3>2
 <2> HIDE DEF drawn
 <2>4. CASE amOpen
  <3>1. amSections'["attachments"] = drawn /\ amSections' \in [AmMedia -> Seq(AmSectionSet)]
        /\ \A k \in AmMedia \ {"attachments"} : amSections'[k] = amSections[k]
    BY <2>1, <2>2, <2>3, <2>4, <1>r
  <3> QED BY <3>1, <2>3, <2>4 DEF new, old
 <2>5. CASE ~amOpen BY <2>1, <2>2, <2>5
 <2> QED BY <2>4, <2>5, <1>a DEF AmShape
<1>1. AmShape' BY <1>a, <1>r, <1>b, <1>c, <1>d, <1>e DEF AmShape, AmTabSet
<1>2. \A p \in AmOps : AmOpFits(amOp[p])'
 <2>1. AmOpFits(amOp[o])' BY <1>a, <1>b, <1>c, <1>r DEF AmOpFits, AmOnMedia, AmOnComments
 <2>2. \A p \in AmOps : p # o => AmOpFits(amOp[p])' BY <1>a, <1>b, <1>c DEF AmOpFits
 <2> QED BY <2>1, <2>2
<1>3. ASSUME amSolo', amOpen' PROVE AmSettled'
 <2>0. AmAlone /\ AmSectionsStored /\ AmTabsStored /\ AmAnswersFresh
   BY <1>a, <1>r, <1>b, <1>c, <1>d, <1>e, <1>3 DEF AmSettled
 <2>1. AmAlone' BY <1>a, <1>r, <1>b, <1>c, <1>d, <1>e, <1>3, <2>0 DEF AmAlone, AmHydrating, AmBusy
 <2>2. AmSectionsStored'
  <3>1. AmOnly(o) BY <1>b, <2>0 DEF AmAlone, AmBusy, AmHydrating
  <3>2. amReq[amOp[o].req].snap = amDb BY <1>b, <2>0 DEF AmAnswersFresh
  <3>3. AmSectionStored("attachments")' BY <1>b, <1>d, <1>e, <1>3, <3>2 DEF AmSectionStored
  <3>4. ~AmDoing(AmOnMedia, AmCalls \cup {"changed", "asked"}) BY <1>b, <3>1 DEF AmDoing, AmCalls
  <3>5. AmSectionStored("gallery")'
    BY <1>b, <1>r, <1>e, <2>0, <3>4 DEF AmSectionsStored, AmSectionStored, AmMedia
  <3> QED BY <3>3, <3>5 DEF AmSectionsStored
 <2>3. AmTabsStored'
  <3>1. AmOnly(o) BY <1>b, <2>0 DEF AmAlone, AmBusy, AmHydrating
  <3>2. ~AmDoing({"delete_kids"}, {"changed", "asked"}) /\ ~AmDoing({"comment", "uncomment"}, {"comments", "comments_got"})
    BY <1>b, <3>1 DEF AmDoing
  <3> QED BY <1>b, <2>0, <3>2 DEF AmTabsStored
 <2>4. AmAnswersFresh'
  <3>1. AmOnly(o) BY <1>b, <2>0 DEF AmAlone, AmBusy, AmHydrating
  <3>2. ~AmDoing({"delete_kids"}, {"changed"}) BY <1>b, <3>1 DEF AmDoing
  <3> QED BY <1>r, <1>b, <1>c, <2>0, <3>1, <3>2 DEF AmAnswersFresh, AmBusy
 <2> QED BY <2>1, <2>2, <2>3, <2>4 DEF AmSettled
<1>4. ASSUME ~amMixed' PROVE AmPrimaryStays'
 <2>1. AmPrimaryStays'
  <3>1. AmPrimaryStays BY <1>a, <1>b, <1>4
  <3>2. amSections'["gallery"] = amSections["gallery"] BY <1>r, <1>e DEF AmMedia
  <3> QED BY <1>b, <1>c, <3>1, <3>2 DEF AmPrimaryStays, AmBusy
 <2> QED BY <2>1
<1> QED BY <1>1, <1>2, <1>3, <1>4 DEF AmInv

\* The tabs are built anew.
LEMMA AmReloadKeeps ==
  ASSUME AmSizes, AmInv, NEW o \in AmOps, reloadRelatedTabs(o)
  PROVE  AmInv'
<1> USE DEF AmRefer, AmFits, AmOnly
<1>a. AmFits BY DEF AmInv
<1>r. AmRefer BY <1>a, AmRefs
<1>b. amDb' = amDb /\ amOpen' = amOpen /\ amHydrate' = amHydrate /\ amSections' = amSections /\ amSolo' = amSolo /\ amMixed' = amMixed /\ amOp[o].pc = "asked" /\ amOp[o].do = "delete_kids"
  BY DEF reloadRelatedTabs
<1>c. /\ amOp' \in [AmOps -> AmOpSet] /\ \A p \in AmOps : p # o => amOp'[p] = amOp[p]
      /\ amOp'[o].pc = "done" /\ amOp'[o].do = "none" /\ amOp'[o].req = 0 /\ amOp'[o].clear = {} /\ amOp'[o].left = 0
  BY <1>a, AmEndsIs DEF reloadRelatedTabs
<1>d. PICK id : /\ AmTabAsked(id)
                /\ amTabs' = IF amTabs.gen = amOp[o].gen
                             THEN [on |-> TRUE, gen |-> o + 1, loaded |-> FALSE, load |-> id, rows |-> {}, comments |-> {}] ELSE amTabs
 <2>1. CASE amTabs.gen = amOp[o].gen
  <3>1. amReq[amOp[o].req].snap.kids \in SUBSET {1} /\ o + 1 \in Nat
    BY <1>b, <1>r DEF AmRequests, AmRows, AmOps
  <3> QED BY <2>1, <3>1, <1>a, AmBuilds DEF reloadRelatedTabs
 <2>2. CASE amTabs.gen # amOp[o].gen BY <2>2, <1>a, AmTabAsksNot DEF reloadRelatedTabs
 <2> QED BY <2>1, <2>2
<1>e. AmTabAsked(id) BY <1>d
<1>f. amHydrate' \in [pc : {"frame", "asked", "attachments", "tabs", "done"}, req : 0..Len(amReq')]
 <2>1. Len(amReq) <= Len(amReq') /\ Len(amReq') \in Nat BY <1>e DEF AmTabAsked
 <2> QED BY <2>1, <1>a, <1>b, <1>r DEF AmShape
<1>g. amTabs' \in AmTabSet /\ amTabs'.load \in 0..Len(amReq')
 <2>1. id \in Nat /\ id \in 0..Len(amReq') /\ Len(amReq) <= Len(amReq') /\ Len(amReq') \in Nat
   BY <1>e DEF AmTabAsked
 <2>2. amTabs \in AmTabSet /\ amTabs.load \in 0..Len(amReq') BY <1>a, <1>r, <2>1 DEF AmShape, AmTabSet
 <2>3. o + 1 \in Nat BY DEF AmOps
 <2>4. [on |-> TRUE, gen |-> o + 1, loaded |-> FALSE, load |-> id, rows |-> {}, comments |-> {}] \in AmTabSet
   BY <2>1, <2>3 DEF AmTabSet
 <2> QED BY <1>d, <2>1, <2>2, <2>4
<1>h. amTabs.gen = amOp[o].gen => amTabs'.load = id /\ amTabs'.loaded = FALSE /\ amTabs'.comments = {} BY <1>d
<1>1. AmShape' BY <1>a, <1>r, <1>b, <1>c, <1>d, <1>e, <1>f, <1>g, <1>h DEF AmShape, AmTabSet, AmTabAsked
<1>2. \A p \in AmOps : AmOpFits(amOp[p])'
 <2>1. AmOpFits(amOp[o])' BY <1>a, <1>b, <1>c, <1>e DEF AmOpFits, AmOnMedia, AmOnComments, AmTabAsked
 <2>2. \A p \in AmOps : p # o => AmOpFits(amOp[p])' BY <1>a, <1>b, <1>c, <1>e, <1>r DEF AmOpFits, AmTabAsked
 <2> QED BY <2>1, <2>2
<1>3. ASSUME amSolo', amOpen' PROVE AmSettled'
 <2>0. AmAlone /\ AmSectionsStored /\ AmTabsStored /\ AmAnswersFresh
   BY <1>a, <1>r, <1>b, <1>c, <1>d, <1>e, <1>f, <1>g, <1>h, <1>3 DEF AmSettled
 <2>1. AmAlone'
  <3>1. AmOnly(o) BY <1>b, <2>0 DEF AmAlone, AmBusy, AmHydrating
  <3> QED BY <1>b, <1>c, <2>0, <3>1 DEF AmAlone, AmHydrating, AmBusy
 <2>2. AmSectionsStored'
  <3>1. AmOnly(o) BY <1>b, <2>0 DEF AmAlone, AmBusy, AmHydrating
  <3>2. ~AmDoing(AmOnMedia, AmCalls \cup {"changed", "asked"}) /\ ~AmDoing(AmOnMedia, AmCalls \cup {"changed", "asked", "attachments"})
    BY <1>b, <3>1 DEF AmDoing, AmCalls, AmOnMedia
  <3> QED BY <1>b, <2>0, <3>2 DEF AmSectionsStored, AmSectionStored
 <2>3. AmTabsStored'
  <3>1. AmOnly(o) BY <1>b, <2>0 DEF AmAlone, AmBusy, AmHydrating
  <3>2. amTabs.gen = amOp[o].gen BY <1>b, <2>0, <3>1 DEF AmAnswersFresh
  <3> QED BY <1>b, <1>h, <3>2 DEF AmTabsStored
 <2>4. AmAnswersFresh'
  <3>1. AmOnly(o) BY <1>b, <2>0 DEF AmAlone, AmBusy, AmHydrating
  <3>2. amTabs.gen = amOp[o].gen /\ ~AmDoing({"delete_kids"}, {"changed"})
    BY <1>b, <2>0, <3>1 DEF AmAnswersFresh, AmDoing
  <3> QED BY <1>r, <1>b, <1>c, <1>e, <1>h, <2>0, <3>1, <3>2 DEF AmAnswersFresh, AmTabAsked, AmBusy
 <2> QED BY <2>1, <2>2, <2>3, <2>4 DEF AmSettled
<1>4. ASSUME ~amMixed' PROVE AmPrimaryStays'
 <2>1. AmPrimaryStays'
  <3>1. AmPrimaryStays BY <1>a, <1>b, <1>4
  <3>2. \A q \in DOMAIN amReq' : amReq'[q].snap.gallery \subseteq amDb.gallery
    BY <1>e, <3>1 DEF AmPrimaryStays, AmTabAsked
  <3> QED BY <1>b, <1>c, <3>1, <3>2 DEF AmPrimaryStays, AmBusy
 <2> QED BY <2>1
<1> QED BY <1>1, <1>2, <1>3, <1>4 DEF AmInv

\* The comments are read.
LEMMA AmCommentsServedKeeps ==
  ASSUME AmSizes, AmInv, NEW o \in AmOps, AmCommentsServed(o)
  PROVE  AmInv'
<1> USE DEF AmRefer, AmFits, AmOnly
<1>a. AmFits BY DEF AmInv
<1>r. AmRefer BY <1>a, AmRefs
<1>b. amDb' = amDb /\ amOpen' = amOpen /\ amReq' = amReq /\ amCache' = amCache /\ amHydrate' = amHydrate /\ amSections' = amSections /\ amTabs' = amTabs /\ amSolo' = amSolo /\ amMixed' = amMixed /\ amOp[o].pc = "comments"
  BY DEF AmCommentsServed
<1>c. /\ amOp' \in [AmOps -> AmOpSet] /\ \A p \in AmOps : p # o => amOp'[p] = amOp[p]
      /\ amOp'[o].pc = "comments_got" /\ amOp'[o].do = amOp[o].do /\ amOp'[o].row = amOp[o].row /\ amOp'[o].clear = amOp[o].clear /\ amOp'[o].left = amOp[o].left /\ amOp'[o].req = amOp[o].req /\ amOp'[o].gen = amOp[o].gen /\ amOp'[o].got = amDb.comments
 <2> DEFINE v == [amOp[o] EXCEPT !.pc = "comments_got", !.got = amDb.comments]
 <2>1. amOp' = [amOp EXCEPT ![o] = v] BY DEF AmCommentsServed
 <2>2. amOp[o] \in AmOpSet /\ amDb.comments \in SUBSET AmOps BY <1>a, <1>r DEF AmShape, AmRows
 <2>3. v \in AmOpSet /\ v.pc = "comments_got" /\ v.do = amOp[o].do /\ v.row = amOp[o].row /\ v.clear = amOp[o].clear
       /\ v.left = amOp[o].left /\ v.req = amOp[o].req /\ v.gen = amOp[o].gen /\ v.got = amDb.comments
   BY <2>2 DEF AmOpSet
 <2> HIDE DEF v
 <2> QED BY <2>1, <2>3, <1>a, AmOpPut
<1>1. AmShape' BY <1>a, <1>r, <1>b, <1>c DEF AmShape, AmTabSet
<1>2. \A p \in AmOps : AmOpFits(amOp[p])'
 <2>1. AmOpFits(amOp[o])' BY <1>a, <1>b, <1>c DEF AmOpFits, AmOnMedia, AmOnComments
 <2>2. \A p \in AmOps : p # o => AmOpFits(amOp[p])' BY <1>a, <1>b, <1>c DEF AmOpFits
 <2> QED BY <2>1, <2>2
<1>3. ASSUME amSolo', amOpen' PROVE AmSettled'
 <2>0. AmAlone /\ AmSectionsStored /\ AmTabsStored /\ AmAnswersFresh
   BY <1>a, <1>r, <1>b, <1>c, <1>3 DEF AmSettled
 <2>1. AmAlone'
  <3>1. AmOnly(o) BY <1>b, <2>0 DEF AmAlone, AmBusy, AmHydrating
  <3> QED BY <1>b, <1>c, <2>0, <3>1 DEF AmAlone, AmHydrating, AmBusy
 <2>2. AmSectionsStored'
  <3>1. AmOnly(o) BY <1>b, <2>0 DEF AmAlone, AmBusy, AmHydrating
  <3>2. ~AmDoing(AmOnMedia, AmCalls \cup {"changed", "asked"}) /\ ~AmDoing(AmOnMedia, AmCalls \cup {"changed", "asked", "attachments"})
    BY <1>b, <3>1 DEF AmDoing, AmCalls
  <3> QED BY <1>b, <2>0, <3>2 DEF AmSectionsStored, AmSectionStored
 <2>3. AmTabsStored'
  <3>1. AmOnly(o) BY <1>b, <2>0 DEF AmAlone, AmBusy, AmHydrating
  <3>2. ~AmDoing({"delete_kids"}, {"changed", "asked"}) BY <1>b, <3>1 DEF AmDoing
  <3>3. AmDoing({"comment", "uncomment"}, {"comments", "comments_got"}) => AmDoing({"comment", "uncomment"}, {"comments", "comments_got"})'
    BY <1>b, <1>c, <3>1 DEF AmDoing
  <3> QED BY <1>b, <2>0, <3>2, <3>3 DEF AmTabsStored
 <2>4. AmAnswersFresh'
  <3>1. AmOnly(o) BY <1>b, <2>0 DEF AmAlone, AmBusy, AmHydrating
  <3>2. ~AmDoing({"delete_kids"}, {"changed"}) BY <1>b, <3>1 DEF AmDoing
  <3> QED BY <1>r, <1>b, <1>c, <2>0, <3>1, <3>2 DEF AmAnswersFresh, AmBusy
 <2> QED BY <2>1, <2>2, <2>3, <2>4 DEF AmSettled
<1>4. ASSUME ~amMixed' PROVE AmPrimaryStays'
 <2>1. AmPrimaryStays' BY <1>a, <1>r, <1>b, <1>c, <1>4 DEF AmPrimaryStays, AmBusy
 <2> QED BY <2>1
<1> QED BY <1>1, <1>2, <1>3, <1>4 DEF AmInv

\* The comments are shown.
LEMMA AmCommentsShownKeeps ==
  ASSUME AmSizes, AmInv, NEW o \in AmOps, AmCommentsShown(o)
  PROVE  AmInv'
<1> USE DEF AmRefer, AmFits, AmOnly
<1>a. AmFits BY DEF AmInv
<1>r. AmRefer BY <1>a, AmRefs
<1>b. amDb' = amDb /\ amOpen' = amOpen /\ amReq' = amReq /\ amCache' = amCache /\ amHydrate' = amHydrate /\ amSections' = amSections /\ amSolo' = amSolo /\ amMixed' = amMixed /\ amOp[o].pc = "comments_got"
  BY DEF AmCommentsShown
<1>c. /\ amOp' \in [AmOps -> AmOpSet] /\ \A p \in AmOps : p # o => amOp'[p] = amOp[p]
      /\ amOp'[o].pc = "done" /\ amOp'[o].do = "none" /\ amOp'[o].req = 0 /\ amOp'[o].clear = {} /\ amOp'[o].left = 0
  BY <1>a, AmEndsIs DEF AmCommentsShown
<1>d. /\ amTabs' \in AmTabSet /\ amTabs'.load = amTabs.load /\ amTabs'.loaded = amTabs.loaded /\ amTabs'.rows = amTabs.rows /\ amTabs'.gen = amTabs.gen
      /\ amTabs.gen = amOp[o].gen => amTabs'.comments = amOp[o].got
 <2>1. amTabs \in AmTabSet /\ amOp[o].got \in SUBSET AmOps BY <1>a, <1>r DEF AmShape, AmOpSet
 <2> QED BY <2>1 DEF AmCommentsShown, AmTabSet
<1>1. AmShape' BY <1>a, <1>r, <1>b, <1>c, <1>d DEF AmShape, AmTabSet
<1>2. \A p \in AmOps : AmOpFits(amOp[p])'
 <2>1. AmOpFits(amOp[o])' BY <1>a, <1>b, <1>c DEF AmOpFits, AmOnMedia, AmOnComments
 <2>2. \A p \in AmOps : p # o => AmOpFits(amOp[p])' BY <1>a, <1>b, <1>c DEF AmOpFits
 <2> QED BY <2>1, <2>2
<1>3. ASSUME amSolo', amOpen' PROVE AmSettled'
 <2>0. AmAlone /\ AmSectionsStored /\ AmTabsStored /\ AmAnswersFresh
   BY <1>a, <1>r, <1>b, <1>c, <1>d, <1>3 DEF AmSettled
 <2>1. AmAlone'
  <3>1. AmOnly(o) BY <1>b, <2>0 DEF AmAlone, AmBusy, AmHydrating
  <3> QED BY <1>b, <1>c, <1>d, <2>0, <3>1 DEF AmAlone, AmHydrating, AmBusy
 <2>2. AmSectionsStored'
  <3>1. AmOnly(o) BY <1>b, <2>0 DEF AmAlone, AmBusy, AmHydrating
  <3>2. ~AmDoing(AmOnMedia, AmCalls \cup {"changed", "asked"}) /\ ~AmDoing(AmOnMedia, AmCalls \cup {"changed", "asked", "attachments"})
    BY <1>b, <3>1 DEF AmDoing, AmCalls
  <3> QED BY <1>b, <2>0, <3>2 DEF AmSectionsStored, AmSectionStored
 <2>3. AmTabsStored'
  <3>1. AmOnly(o) BY <1>b, <2>0 DEF AmAlone, AmBusy, AmHydrating
  <3>2. amOp[o].do \in AmOnComments BY <1>a, <1>b DEF AmOpFits
  <3>3. amTabs.gen = amOp[o].gen /\ amOp[o].got = amDb.comments BY <1>b, <2>0, <3>1, <3>2 DEF AmAnswersFresh
  <3>4. ~AmDoing({"delete_kids"}, {"changed", "asked"}) BY <1>b, <3>1 DEF AmDoing
  <3> QED BY <1>b, <1>d, <2>0, <3>3, <3>4 DEF AmTabsStored
 <2>4. AmAnswersFresh'
  <3>1. AmOnly(o) BY <1>b, <2>0 DEF AmAlone, AmBusy, AmHydrating
  <3>2. ~AmDoing({"delete_kids"}, {"changed"}) BY <1>b, <3>1 DEF AmDoing
  <3> QED BY <1>r, <1>b, <1>c, <1>d, <2>0, <3>1, <3>2 DEF AmAnswersFresh, AmBusy
 <2> QED BY <2>1, <2>2, <2>3, <2>4 DEF AmSettled
<1>4. ASSUME ~amMixed' PROVE AmPrimaryStays'
 <2>1. AmPrimaryStays' BY <1>a, <1>r, <1>b, <1>c, <1>d, <1>4 DEF AmPrimaryStays, AmBusy
 <2> QED BY <2>1
<1> QED BY <1>1, <1>2, <1>3, <1>4 DEF AmInv

\* The invariant holds when an article is opened.
LEMMA AmInvStarts == AmSizes /\ AmInit => AmInv
<1> SUFFICES ASSUME AmSizes, AmInit PROVE AmInv OBVIOUS
<1>1. 0 \in Nat /\ 1 \in AmIds /\ 2 \in AmIds /\ AmIdle \in AmOpSet /\ AmIdle.req = 0 /\ AmIdle.clear = {} /\ AmIdle.left = 0
      /\ AmIdle.pc = "idle" /\ AmIdle.do = "none" BY AmIdsAre, AmIdleIs
<1>2. amDb \in AmRows /\ amDb.primary # {} /\ amDb.comments = {} BY <1>1 DEF AmInit, AmRows
<1>3. amTabs \in AmTabSet /\ amTabs.load = 0 /\ ~amTabs.loaded /\ amTabs.comments = {}
  BY DEF AmInit, AmNoTabs, AmTabSet
<1>4. amOp \in [AmOps -> AmOpSet] /\ \A o \in AmOps : amOp[o] = AmIdle BY <1>1 DEF AmInit
<1>5. amReq \in Seq(AmRequests) /\ Len(amReq) = 0 /\ DOMAIN amReq = {} /\ amReq = <<>> BY DEF AmInit
<1>6. amSections \in [AmMedia -> Seq(AmSectionSet)] /\ amSections["gallery"] = <<>> /\ amSections["attachments"] = <<>>
      /\ DOMAIN amSections["gallery"] = {} BY DEF AmInit, AmMedia
<1>7. amCache \in [AmKeys -> 0..Len(amReq)] /\ amCache["all"] = 0 /\ amCache["tab"] = 0
  BY <1>5 DEF AmInit, AmKeys
<1>8. amHydrate.pc = "frame" /\ amHydrate \in [pc : {"frame", "asked", "attachments", "tabs", "done"}, req : 0..Len(amReq)]
 <2>1. amHydrate = [pc |-> "frame", req |-> 0] /\ 0 \in 0..Len(amReq) BY <1>5 DEF AmInit
 <2> QED BY <2>1
<1>17. amOpen \in BOOLEAN /\ amSolo \in BOOLEAN /\ amMixed \in BOOLEAN BY DEF AmInit
<1>9. AmShape BY <1>2, <1>3, <1>4, <1>5, <1>6, <1>7, <1>8, <1>17 DEF AmShape
<1>10. \A x \in AmOps : AmOpFits(amOp[x]) BY <1>1, <1>4, <1>5 DEF AmOpFits
<1>11. \A o \in AmOps : ~AmBusy(o) BY <1>1, <1>4 DEF AmBusy
<1>12. AmAlone BY <1>3, <1>11 DEF AmAlone
<1>13. AmSectionsStored BY <1>6 DEF AmSectionsStored, AmSectionStored
<1>14. AmTabsStored BY <1>3 DEF AmTabsStored
<1>15. AmAnswersFresh BY <1>1, <1>3, <1>4, <1>5, <1>7, <1>8, <1>11 DEF AmAnswersFresh
<1>16. AmPrimaryStays BY <1>2, <1>5, <1>6, <1>11 DEF AmPrimaryStays
<1> QED BY <1>9, <1>10, <1>12, <1>13, <1>14, <1>15, <1>16 DEF AmInv, AmSettled

\* Steps outside of ArticleMedia.
LEMMA AmStutters == ASSUME AmInv, UNCHANGED amVars PROVE AmInv'
BY DEF amVars, AmInv, AmShape, AmOpFits, AmSettled, AmAlone, AmSectionsStored, AmSectionStored, AmTabsStored, AmAnswersFresh,
       AmPrimaryStays, AmDoing, AmBusy, AmHydrating

\* Every step keeps the invariant.
LEMMA AmInvKept == AmSizes /\ AmInv /\ [AmNext]_amVars => AmInv'
<1> SUFFICES ASSUME AmSizes, AmInv, [AmNext]_amVars PROVE AmInv' OBVIOUS
<1>1. CASE UNCHANGED amVars BY <1>1, AmStutters
<1>2. ASSUME NEW q \in DOMAIN amReq, AmRequestServed(q) \/ AmRequestFails(q) PROVE AmInv'
  BY <1>2, AmServedKeeps, AmFailsKeeps
<1>3. CASE hydrateRelatedSections \/ AmHydrateEnds \/ AmHydrateTabs
  BY <1>3, AmHydrateAsks, AmHydrateEndsKeeps, AmHydrateTabsKeeps
<1>4. ASSUME NEW m \in AmMedia, AmHydrateSection(m) PROVE AmInv'
  BY <1>4, AmHydrateGallery, AmHydrateAttachments DEF AmMedia
<1>5. CASE AmTabLoaded \/ AmClickTab \/ AmClose BY <1>5, AmTabLoadedKeeps, AmClickTabKeeps, AmCloseKeeps
<1>6. ASSUME NEW o \in AmOps, AmStarts(o) PROVE AmInv'
 <2>1. AmShape BY DEF AmInv
 <2>2. PICK op : AmStartable(op) /\ AmStart(o, op) BY <1>6, <2>1, AmStartsAre
 <2> QED BY <2>2, AmStartKeeps
<1>7. ASSUME NEW o \in AmOps, NEW m \in AmMedia, AmRefreshSection(o, m) PROVE AmInv'
  BY <1>7, AmRefreshGallery, AmRefreshAttachments DEF AmMedia
<1>8. ASSUME NEW o \in AmOps, AmCallAnswered(o) \/ AmCallFails(o) PROVE AmInv'
  BY <1>8, AmCallAnsweredKeeps, AmCallFailsKeeps
<1>9. ASSUME NEW o \in AmOps, refreshMediaSections(o) \/ AmRefreshEnds(o) \/ reloadRelatedTabs(o) PROVE AmInv'
  BY <1>9, AmRefreshAsks, AmRefreshSkips, AmRefreshEndsKeeps, AmReloadKeeps
<1>10. ASSUME NEW o \in AmOps, AmCommentsServed(o) \/ AmCommentsShown(o) PROVE AmInv'
  BY <1>10, AmCommentsServedKeeps, AmCommentsShownKeeps
<1> QED BY <1>1, <1>2, <1>3, <1>4, <1>5, <1>6, <1>7, <1>8, <1>9, <1>10 DEF AmNext, AmStarts

\* For any number of operations, requests and files: as long as nothing else was under way when an operation was
\* started, what it changed is shown in the end; one change of the default image at a time leaves one
\* (row_article_load_session.js, big_card_image_gallery.js, big_card_child_tabs.js).
THEOREM AmStoredIsShown == AmSizes => (AmSpec => [](AmTypeOK /\ AmShownIsStored /\ AmPrimaryKept))
<1> SUFFICES ASSUME AmSizes PROVE AmSpec => [](AmTypeOK /\ AmShownIsStored /\ AmPrimaryKept) OBVIOUS
<1>1. AmInit => AmInv BY AmInvStarts
<1>2. AmInv /\ [AmNext]_amVars => AmInv' BY AmInvKept
<1>3. AmInv => AmTypeOK
 <2> SUFFICES ASSUME AmInv PROVE AmTypeOK OBVIOUS
 <2>1. AmShape /\ \A o \in AmOps : amOp[o].req \in 0..Len(amReq) BY DEF AmInv, AmOpFits
 <2> QED BY <2>1 DEF AmShape, AmRows, AmTypeOK
<1>4. AmInv => AmShownIsStored
 <2> SUFFICES ASSUME AmInv, amSolo, AmQuiet, amOpen
              PROVE  /\ \A m \in AmMedia : amSections[m] # <<>> => amSections[m][1].rows = amDb[m]
                     /\ amSections["gallery"] # <<>> => amSections["gallery"][1].primary = amDb.primary
                     /\ amTabs.loaded => amTabs.rows = amDb.kids
                     /\ amTabs.comments \in {{}, amDb.comments} BY DEF AmShownIsStored
 <2>1. AmSectionsStored /\ AmTabsStored BY DEF AmInv, AmSettled
 <2>2. \A o \in AmOps : amOp[o].pc \in {"idle", "done"} BY DEF AmQuiet, AmBusy
 <2>3. ~AmDoing(AmOnMedia, AmCalls \cup {"changed", "asked"}) /\ ~AmDoing(AmOnMedia, AmCalls \cup {"changed", "asked", "attachments"})
   BY <2>2 DEF AmDoing, AmCalls
 <2>4. ~AmDoing({"delete_kids"}, {"changed", "asked"}) /\ ~AmDoing({"comment", "uncomment"}, {"comments", "comments_got"})
   BY <2>2 DEF AmDoing
 <2>5. AmSectionStored("gallery") /\ AmSectionStored("attachments") BY <2>1, <2>3 DEF AmSectionsStored
 <2> QED BY <2>1, <2>4, <2>5 DEF AmTabsStored, AmSectionStored, AmMedia
<1>5. AmInv => AmPrimaryKept BY DEF AmInv, AmPrimaryStays, AmPrimaryKept
<1> QED BY <1>1, <1>2, <1>3, <1>4, <1>5, PTL DEF AmSpec
-----------------------------------------------------------------------------
(* AdminMatrix: a table saves the rows it shows, to the datasets it was built for. *)

MxRowSet == [of : 0..2, val : 0..2]
MxThenSet == [target : SUBSET MxDatasets, filter : BOOLEAN]
MxTableSet == [of : SUBSET MxDatasets, base : MxRowSet, draft : MxRowSet,
               edit : BOOLEAN, saving : BOOLEAN, shown : BOOLEAN]
MxViewSet == [kind : {"cards", "permissions"}, current : SUBSET MxDatasets, rows : MxRowSet,
              layout : 0..1, oldLayout : 0..1, table : MxTableSet,
              confirm : [asked : BOOLEAN, target : SUBSET MxDatasets, filter : BOOLEAN],
              perms : [MxDatasets -> 0..2]]
MxSaveSet == [to : SUBSET MxDatasets, rows : MxRowSet, layout : 0..1, by : {"button", "view", "layout"},
              then : SUBSET MxThenSet, mine : BOOLEAN, pc : {"sent", "stored"}]

MxShape ==
  /\ mxView \in MxViewSet
  /\ mxServer \in [MxDatasets -> [rows : MxRowSet, layout : 0..1]]
  /\ mxLoads \in SUBSET [of : MxDatasets, wanted : BOOLEAN]
  /\ mxSaves \in SUBSET MxSaveSet
  /\ mxDrafts \in [MxKeys -> 0..2]
  /\ mxCounts \in [requests : Nat, edits : Nat, overtook : BOOLEAN]

\* The view of the permissions is built on what is selected, and so is what its table sends.
MxBuiltOnSelection ==
  /\ mxLoads = {} /\ mxView.table.of = mxView.current
  /\ \A s \in mxSaves : s.mine => s.to = mxView.table.of

\* The table of the cards that is shown is of the current dataset, and so is what is kept beside it;
\* one that is no longer shown, while another is loaded, has nothing left to save.
MxTableOfCurrent ==
  /\ mxView.table.shown => /\ mxView.table.of = mxView.current
                           /\ mxView.current = {mxView.table.base.of}
                           /\ mxView.table.draft.of = mxView.table.base.of
                           /\ mxView.rows.of = mxView.table.base.of
  /\ ~mxView.table.shown => ~isDirty(mxView.table) /\ ~isLayoutDirty(mxView)
  /\ \A l \in mxLoads : l.wanted => mxView.current = {l.of} /\ ~mxView.table.shown

\* A save of the cards is of the table that is shown.  A layout is saved beside a clean table; a changed
\* table is saved once at a time.
MxSavesOfShown ==
  /\ \A s \in mxSaves : /\ mxView.table.shown /\ s.mine
                        /\ s.to = mxView.current /\ s.to = {s.rows.of}
                        /\ IF s.by = "layout" THEN ~isDirty(mxView.table)
                           ELSE isDirty(mxView.table) /\ mxView.table.saving
  /\ \A s, t \in mxSaves : s.by # "layout" /\ t.by # "layout" => s = t

\* The server has for each dataset the rows of that dataset.
MxServerApart == \A d \in MxDatasets : mxServer[d].rows.of = d

MxInv ==
  /\ MxShape
  /\ MxPermissions => MxBuiltOnSelection
  /\ MxCards /\ ~mxCounts.overtook => MxTableOfCurrent /\ MxSavesOfShown /\ MxServerApart

\* Drafts stay drafts when a table keeps its own or loses it.
LEMMA MxDraftsTyped ==
  ASSUME mxDrafts \in [MxKeys -> 0..2], NEW t \in MxTableSet, NEW of
  PROVE  MxKeep(t) \in [MxKeys -> 0..2] /\ MxForget(of) \in [MxKeys -> 0..2]
<1>1. persistDraftIfNeeded(t) \in 0..2 BY DEF persistDraftIfNeeded, MxTableSet, MxRowSet
<1> QED BY <1>1 DEF MxKeep, MxForget

\* A table whose changes are cancelled, one that was saved and one that is built are tables; the first three
\* of these hold no changes.
LEMMA MxTables ==
  ASSUME NEW t \in MxTableSet
  PROVE  /\ cancelChanges(t) \in MxTableSet /\ ~isDirty(cancelChanges(t))
         /\ cancelChanges(t).of = t.of /\ cancelChanges(t).shown = t.shown /\ cancelChanges(t).base = t.base
         /\ MxTableSaved(t) \in MxTableSet /\ ~isDirty(MxTableSaved(t)) /\ MxTableSaved(t).of = t.of
         /\ MxTableSaved(t).shown = t.shown /\ MxTableSaved(t).base = t.draft
         /\ MxTableFailed(t) \in MxTableSet /\ MxTableFailed(t).of = t.of /\ MxTableFailed(t).shown = t.shown
         /\ MxTableFailed(t).base = t.base /\ MxTableFailed(t).draft = t.draft
         /\ NoTable \in MxTableSet /\ ~isDirty(NoTable) /\ NoRows \in MxRowSet
<1>0. t.base \in MxRowSet /\ t.draft \in MxRowSet BY DEF MxTableSet
<1>1. /\ cancelChanges(t) \in MxTableSet /\ cancelChanges(t).of = t.of /\ cancelChanges(t).shown = t.shown
      /\ cancelChanges(t).base = t.base /\ cancelChanges(t).draft = t.base
  BY <1>0 DEF cancelChanges, MxTableSet
<1>2. /\ MxTableSaved(t) \in MxTableSet /\ MxTableSaved(t).of = t.of /\ MxTableSaved(t).shown = t.shown
      /\ MxTableSaved(t).base = t.draft /\ MxTableSaved(t).draft = t.draft
  BY <1>0 DEF MxTableSaved, MxTableSet
<1>3. /\ MxTableFailed(t) \in MxTableSet /\ MxTableFailed(t).of = t.of /\ MxTableFailed(t).shown = t.shown
      /\ MxTableFailed(t).base = t.base /\ MxTableFailed(t).draft = t.draft
  BY <1>0 DEF MxTableFailed, MxTableSet
<1>4. NoRows \in MxRowSet BY DEF NoRows, Rows, MxNone, MxRowSet
<1>5. NoTable \in MxTableSet /\ ~isDirty(NoTable) BY <1>4 DEF NoTable, MxTableSet, isDirty
<1> QED BY <1>1, <1>2, <1>3, <1>4, <1>5 DEF isDirty

\* A table that is built is of the datasets it is built for, and shown.
LEMMA MxBuilt ==
  ASSUME NEW of \in SUBSET MxDatasets, NEW rows \in MxRowSet, NEW kept \in 0..2,
         NEW t, t = createVanillaCheckboxTable(of, rows, kept)
  PROVE  /\ t \in MxTableSet /\ t.of = of /\ t.shown /\ t.base = rows /\ t.draft.of = rows.of
<1>1. (IF kept = 2 THEN rows ELSE [rows EXCEPT !.val = kept]) \in MxRowSet
      /\ (IF kept = 2 THEN rows ELSE [rows EXCEPT !.val = kept]).of = rows.of BY DEF MxRowSet
<1> DEFINE d == IF kept = 2 THEN rows ELSE [rows EXCEPT !.val = kept]
<1>2. t = [of |-> of, base |-> rows, draft |-> d, edit |-> kept # 2, saving |-> FALSE, shown |-> TRUE]
  BY DEF createVanillaCheckboxTable
<1>3. d \in MxRowSet /\ d.of = rows.of BY <1>1
<1> HIDE DEF d
<1> QED BY <1>2, <1>3 DEF MxTableSet

\* The view with another table.
LEMMA MxWithTable ==
  ASSUME NEW v \in MxViewSet, NEW t \in MxTableSet, NEW w, w = [v EXCEPT !.table = t]
  PROVE  /\ w \in MxViewSet /\ w.table = t /\ w.kind = v.kind /\ w.current = v.current /\ w.rows = v.rows
         /\ w.layout = v.layout /\ w.oldLayout = v.oldLayout /\ w.confirm = v.confirm /\ w.perms = v.perms
BY DEF MxViewSet

\* The view differs from the one now in the question alone.
MxSameTable(v) ==
  /\ v \in MxViewSet /\ v.kind = mxView.kind /\ v.current = mxView.current /\ v.rows = mxView.rows
  /\ v.layout = mxView.layout /\ v.oldLayout = mxView.oldLayout /\ v.table = mxView.table

LEMMA MxOnlyAnswered ==
  ASSUME mxView \in MxViewSet
  PROVE  MxSameTable(mxView) /\ MxSameTable(MxAnswered) /\ MxThen \in SUBSET MxThenSet
<1>1. NoConfirm \in [asked : BOOLEAN, target : SUBSET MxDatasets, filter : BOOLEAN] BY DEF NoConfirm
<1>2. MxSameTable(MxAnswered) BY <1>1 DEF MxAnswered, MxSameTable, MxViewSet
<1>3. [target |-> mxView.confirm.target, filter |-> mxView.confirm.filter] \in MxThenSet
  BY DEF MxViewSet, MxThenSet
<1> QED BY <1>2, <1>3 DEF MxSameTable, MxThen

\* A save that is sent is of the rows and the datasets of now.
LEMMA MxSaveSent ==
  ASSUME NEW v \in MxViewSet, NEW rows \in MxRowSet, NEW by \in {"button", "view", "layout"},
         NEW then \in SUBSET MxThenSet, NEW s, s = MxSave(v, rows, by, then)
  PROVE  s \in MxSaveSet /\ s.to = v.current /\ s.rows = rows /\ s.by = by /\ s.mine
BY DEF MxSave, MxSaveSet, MxViewSet

\* Requests and edits are counted.
LEMMA MxCounted ==
  ASSUME mxCounts \in [requests : Nat, edits : Nat, overtook : BOOLEAN], NEW n \in Nat, NEW saves
  PROVE  /\ MxSent => mxCounts' \in [requests : Nat, edits : Nat, overtook : BOOLEAN] /\ mxCounts'.overtook = mxCounts.overtook
         /\ MxEdited => /\ mxCounts' \in [requests : Nat, edits : Nat, overtook : BOOLEAN]
                        /\ mxCounts'.overtook = (mxCounts.overtook \/ mxSaves # {})
         /\ MxLeave(n, saves) => /\ mxCounts' \in [requests : Nat, edits : Nat, overtook : BOOLEAN]
                                 /\ mxCounts'.overtook = (mxCounts.overtook \/ saves # {})
<1> DEFINE set == [requests : Nat, edits : Nat, overtook : BOOLEAN]
           o == mxCounts.overtook \/ mxSaves # {}
           u == mxCounts.overtook \/ saves # {}
           e == mxCounts.edits + 1
           r == mxCounts.requests + n
<1>1. MxSent => mxCounts' \in set /\ mxCounts'.overtook = mxCounts.overtook BY DEF MxSent
<1>2. o \in BOOLEAN /\ u \in BOOLEAN /\ e \in Nat /\ r \in Nat OBVIOUS
<1>3. MxEdited => mxCounts' = [mxCounts EXCEPT !.edits = e, !.overtook = o] BY DEF MxEdited
<1>4. MxLeave(n, saves) => mxCounts' = [mxCounts EXCEPT !.requests = r, !.overtook = u] BY DEF MxLeave
<1> HIDE DEF o, u, e, r
<1>5. MxEdited => mxCounts' \in set /\ mxCounts'.overtook = o BY <1>2, <1>3
<1>6. MxLeave(n, saves) => mxCounts' \in set /\ mxCounts'.overtook = u BY <1>2, <1>4
<1> QED BY <1>1, <1>5, <1>6 DEF o, u

\* A changed table is saved: the rows it shows, to what is current.
LEMMA MxKeptSave ==
  ASSUME MxInv, NEW v, MxSameTable(v), NEW by \in {"button", "view"}, NEW then \in SUBSET MxThenSet,
         isDirty(v.table), ~v.table.saving, saveChanges(v, by, then), UNCHANGED <<mxServer, mxLoads, mxDrafts>>
  PROVE  MxInv'
<1> DEFINE s == MxSave(v, v.table.draft, by, then)
           t == [v.table EXCEPT !.saving = TRUE]
<1>0. MxShape /\ mxView \in MxViewSet /\ v \in MxViewSet /\ v.table \in MxTableSet /\ v.table.draft \in MxRowSet
  BY DEF MxInv, MxShape, MxSameTable, MxViewSet, MxTableSet
<1>1. t \in MxTableSet /\ t.of = v.table.of /\ t.base = v.table.base /\ t.draft = v.table.draft
      /\ t.saving /\ t.shown = v.table.shown BY <1>0 DEF MxTableSet
<1>2. mxView' = [v EXCEPT !.table = t] /\ mxSaves' = mxSaves \cup {s} /\ MxSent BY DEF saveChanges
<1>3. s \in MxSaveSet /\ s.to = v.current /\ s.rows = v.table.draft /\ s.by = by /\ s.mine BY <1>0, MxSaveSent
<1> HIDE DEF s, t
<1>4. /\ mxView' \in MxViewSet /\ mxView'.table = t /\ mxView'.kind = mxView.kind /\ mxView'.current = mxView.current
      /\ mxView'.rows = mxView.rows /\ mxView'.layout = mxView.layout /\ mxView'.oldLayout = mxView.oldLayout
  BY <1>0, <1>1, <1>2, MxWithTable DEF MxSameTable
<1>5. mxCounts' \in [requests : Nat, edits : Nat, overtook : BOOLEAN] /\ mxCounts'.overtook = mxCounts.overtook
  BY <1>0, <1>2, MxCounted DEF MxShape
<1>6. MxShape' BY <1>0, <1>2, <1>3, <1>4, <1>5 DEF MxShape
<1>7. MxPermissions' => MxBuiltOnSelection'
 <2> SUFFICES ASSUME MxPermissions' PROVE MxBuiltOnSelection' OBVIOUS
 <2>1. MxBuiltOnSelection BY <1>4 DEF MxInv, MxPermissions
 <2> QED BY <1>1, <1>2, <1>3, <1>4, <2>1 DEF MxBuiltOnSelection, MxSameTable
<1>8. MxCards' /\ ~mxCounts'.overtook => (MxTableOfCurrent /\ MxSavesOfShown /\ MxServerApart)'
 <2> SUFFICES ASSUME MxCards', ~mxCounts'.overtook PROVE (MxTableOfCurrent /\ MxSavesOfShown /\ MxServerApart)'
   OBVIOUS
 <2>1. MxTableOfCurrent /\ MxSavesOfShown /\ MxServerApart BY <1>4, <1>5 DEF MxInv, MxCards
 <2>2. isDirty(t) /\ isDirty(mxView.table) /\ mxView.table.shown /\ t.shown
   BY <1>1, <2>1 DEF MxSameTable, isDirty, MxTableOfCurrent
 <2>3. MxTableOfCurrent' BY <1>1, <1>4, <2>1, <2>2 DEF MxTableOfCurrent, MxSameTable, isDirty
 <2>4. MxSavesOfShown'
   BY <1>1, <1>2, <1>3, <1>4, <2>1, <2>2 DEF MxSavesOfShown, MxTableOfCurrent, MxSameTable
 <2> QED BY <2>1, <2>3, <2>4 DEF MxServerApart
<1> QED BY <1>6, <1>7, <1>8 DEF MxInv

\* A dataset is left: the saves that are under way then are overtaken.
LEMMA MxKeptGoTo ==
  ASSUME MxInv, MxCards, NEW v \in MxViewSet, v.kind = "cards", NEW target \in SUBSET MxDatasets,
         NEW saves \in SUBSET mxSaves, ~mxCounts.overtook => ~isDirty(v.table), MxGoTo(v, target, saves),
         mxDrafts' \in [MxKeys -> 0..2], UNCHANGED mxServer
  PROVE  MxInv'
<1>0. MxShape /\ saves \in SUBSET MxSaveSet BY DEF MxInv, MxShape
<1>1. MxLeft(saves) \in SUBSET MxSaveSet /\ (saves = {} => MxLeft(saves) = {}) BY <1>0 DEF MxLeft, MxSaveSet
<1>2. mxSaves' \in {saves, MxLeft(saves)} BY DEF MxGoTo, MxClearSelection, loadColumnsForTable
<1>3. MxNextSequence(mxLoads) \in SUBSET [of : MxDatasets, wanted : BOOLEAN]
      /\ \A l \in MxNextSequence(mxLoads) : ~l.wanted
 <2>1. ASSUME NEW l \in mxLoads
       PROVE  [l EXCEPT !.wanted = FALSE] \in [of : MxDatasets, wanted : BOOLEAN] /\ ~[l EXCEPT !.wanted = FALSE].wanted
  <3>1. l \in [of : MxDatasets, wanted : BOOLEAN] BY <1>0 DEF MxShape
  <3> QED BY <3>1
 <2> QED BY <2>1 DEF MxNextSequence
<1>4. /\ mxView' \in MxViewSet /\ mxView'.kind = "cards" /\ ~mxView'.table.shown
      /\ mxView'.layout = mxView'.oldLayout
      /\ isDirty(mxView'.table) => isDirty(v.table)
      /\ mxLoads' \in SUBSET [of : MxDatasets, wanted : BOOLEAN]
      /\ \A l \in mxLoads' : l.wanted => mxView'.current = {l.of}
      /\ mxCounts' \in [requests : Nat, edits : Nat, overtook : BOOLEAN]
      /\ mxCounts'.overtook = (mxCounts.overtook \/ saves # {})
 <2>1. CASE target = {}
  <3>1. MxClearSelection(v, saves) BY <2>1 DEF MxGoTo
  <3>2. NoTable \in MxTableSet /\ ~NoTable.shown /\ ~isDirty(NoTable) /\ NoRows \in MxRowSet
    BY DEF NoTable, MxTableSet, MxRowSet, NoRows, Rows, MxNone, isDirty
  <3>3. /\ mxView' \in MxViewSet /\ mxView'.kind = "cards" /\ mxView'.table = NoTable
        /\ mxView'.layout = 0 /\ mxView'.oldLayout = 0
   <4>1. mxView' = [v EXCEPT !.current = {}, !.rows = NoRows, !.layout = 0, !.oldLayout = 0, !.table = NoTable]
     BY <3>1 DEF MxClearSelection
   <4> DEFINE c == {}
              n == NoTable
   <4>2. NoRows \in MxRowSet /\ n \in MxTableSet /\ c \in SUBSET MxDatasets /\ 0 \in 0..1 BY <3>2
   <4>3. mxView' = [v EXCEPT !.current = c, !.rows = NoRows, !.layout = 0, !.oldLayout = 0, !.table = n]
     BY <4>1
   <4> HIDE DEF c, n
   <4>4. mxView' \in MxViewSet /\ mxView'.kind = "cards" /\ mxView'.table = n
         /\ mxView'.layout = 0 /\ mxView'.oldLayout = 0 BY <4>2, <4>3 DEF MxViewSet
   <4> QED BY <4>4 DEF n
  <3>4. mxLoads' = MxNextSequence(mxLoads) /\ MxLeave(0, saves) BY <3>1 DEF MxClearSelection
  <3>5. /\ mxCounts' \in [requests : Nat, edits : Nat, overtook : BOOLEAN]
        /\ mxCounts'.overtook = (mxCounts.overtook \/ saves # {}) BY <1>0, <3>4, MxCounted DEF MxShape
  <3> QED BY <1>3, <3>2, <3>3, <3>4, <3>5
 <2>2. CASE target # {}
  <3>1. PICK d \in target : loadColumnsForTable(v, d, saves) BY <2>2 DEF MxGoTo
  <3> DEFINE t == [v.table EXCEPT !.shown = FALSE]
  <3>d. d \in MxDatasets /\ {d} \in SUBSET MxDatasets /\ 0 \in 0..1 OBVIOUS
  <3>2. t \in MxTableSet /\ ~t.shown /\ (isDirty(t) => isDirty(v.table)) /\ NoRows \in MxRowSet
   <4>1. v.table \in MxTableSet BY DEF MxViewSet
   <4>2. t \in MxTableSet /\ ~t.shown /\ t.base = v.table.base /\ t.draft = v.table.draft
     BY <4>1 DEF MxTableSet
   <4>3. NoRows \in MxRowSet BY DEF MxRowSet, NoRows, Rows, MxNone
   <4> QED BY <4>2, <4>3 DEF isDirty
  <3>3. mxView' = [v EXCEPT !.current = {d}, !.rows = NoRows, !.layout = 0, !.oldLayout = 0, !.table = t]
    BY <3>1 DEF loadColumnsForTable
  <3>4. mxLoads' = MxNextSequence(mxLoads) \cup {[of |-> d, wanted |-> TRUE]} /\ MxLeave(1, saves)
    BY <3>1 DEF loadColumnsForTable
  <3> HIDE DEF t
  <3>5. /\ mxView' \in MxViewSet /\ mxView'.kind = "cards" /\ mxView'.table = t /\ mxView'.current = {d}
        /\ mxView'.layout = 0 /\ mxView'.oldLayout = 0
   <4> DEFINE c == {d}
   <4>1. c \in SUBSET MxDatasets /\ c = {d} BY <3>d
   <4>2. mxView' = [v EXCEPT !.current = c, !.rows = NoRows, !.layout = 0, !.oldLayout = 0, !.table = t]
     BY <3>3
   <4> HIDE DEF c
   <4> QED BY <3>d, <3>2, <4>1, <4>2 DEF MxViewSet
  <3>6. /\ mxCounts' \in [requests : Nat, edits : Nat, overtook : BOOLEAN]
        /\ mxCounts'.overtook = (mxCounts.overtook \/ saves # {}) BY <1>0, <3>4, MxCounted DEF MxShape
  <3> QED
   <4>1. \A l \in mxLoads' : l \in [of : MxDatasets, wanted : BOOLEAN] /\ (l.wanted => l.of = d)
    <5>1. [of |-> d, wanted |-> TRUE] \in [of : MxDatasets, wanted : BOOLEAN] /\ [of |-> d, wanted |-> TRUE].of = d
      BY <3>d
    <5> QED BY <1>3, <3>4, <5>1
   <4> QED BY <3>2, <3>5, <3>6, <4>1
 <2> QED BY <2>1, <2>2
<1>5. MxShape' BY <1>0, <1>1, <1>2, <1>4 DEF MxShape
<1>6. ~MxPermissions' BY <1>4 DEF MxPermissions
<1>7. ASSUME ~mxCounts'.overtook PROVE (MxTableOfCurrent /\ MxSavesOfShown /\ MxServerApart)'
 <2>1. MxServerApart /\ ~mxCounts.overtook /\ saves = {} /\ mxSaves' = {} /\ ~isDirty(mxView'.table)
   BY <1>0, <1>1, <1>2, <1>4, <1>7 DEF MxInv
 <2>2. MxTableOfCurrent' BY <1>4, <2>1 DEF MxTableOfCurrent, isLayoutDirty
 <2> QED BY <2>1, <2>2 DEF MxSavesOfShown, MxServerApart
<1> QED BY <1>5, <1>6, <1>7 DEF MxInv

\* What is kept beside the table is set from it: nothing a save depends on is lost.
LEMMA MxKeptRows ==
  ASSUME MxInv, MxCards, NEW v, MxSameTable(v), NEW w, w = [v EXCEPT !.rows = v.table.base]
  PROVE  /\ w \in MxViewSet /\ w.kind = "cards" /\ w.table = v.table /\ w.current = v.current
         /\ w.layout = v.layout /\ w.oldLayout = v.oldLayout /\ w.rows = v.table.base
<1>1. v \in MxViewSet /\ v.kind = "cards" /\ v.table.base \in MxRowSet
  BY DEF MxSameTable, MxCards, MxViewSet, MxTableSet
<1> QED BY <1>1 DEF MxViewSet

\* Only what is kept beside the table, and the question, changed.
LEMMA MxKeptView ==
  ASSUME MxInv, MxCards, mxView' \in MxViewSet, mxView'.kind = "cards", mxView'.table = mxView.table,
         mxView'.current = mxView.current, mxView'.layout = mxView.layout, mxView'.oldLayout = mxView.oldLayout,
         mxView'.rows \in {mxView.rows, mxView.table.base},
         UNCHANGED <<mxServer, mxLoads, mxSaves, mxDrafts, mxCounts>>
  PROVE  MxInv'
<1>1. MxShape' BY DEF MxInv, MxShape
<1>2. ~MxPermissions' BY DEF MxPermissions
<1>3. ASSUME ~mxCounts.overtook PROVE (MxTableOfCurrent /\ MxSavesOfShown /\ MxServerApart)'
 <2>1. MxTableOfCurrent /\ MxSavesOfShown /\ MxServerApart BY <1>3 DEF MxInv
 <2>2. MxTableOfCurrent' BY <2>1 DEF MxTableOfCurrent, isLayoutDirty
 <2> QED BY <2>1, <2>2 DEF MxSavesOfShown, MxServerApart
<1> QED BY <1>1, <1>2, <1>3 DEF MxInv

\* doSave keeps the invariant: the changed table, the layout of a clean one, or nothing and the next dataset.
LEMMA MxKeptDoSave ==
  ASSUME MxInv, MxCards, NEW v, MxSameTable(v), NEW then \in SUBSET MxThenSet, doSave(v, then),
         UNCHANGED <<mxServer, mxDrafts>>
  PROVE  MxInv'
<1>0. /\ MxShape /\ v \in MxViewSet /\ v.kind = "cards" /\ v.table = mxView.table /\ v.table \in MxTableSet
      /\ v.rows \in MxRowSet BY DEF MxInv, MxShape, MxSameTable, MxViewSet, MxCards
<1> DEFINE kept == IF v.table.of = {} THEN v ELSE [v EXCEPT !.rows = v.table.base]
<1>1. /\ kept \in MxViewSet /\ kept.kind = "cards" /\ kept.table = v.table /\ kept.current = v.current
      /\ kept.layout = v.layout /\ kept.oldLayout = v.oldLayout /\ kept.rows \in {v.rows, v.table.base}
 <2> DEFINE w == [v EXCEPT !.rows = v.table.base]
 <2>1. /\ w \in MxViewSet /\ w.kind = "cards" /\ w.table = v.table /\ w.current = v.current
       /\ w.layout = v.layout /\ w.oldLayout = v.oldLayout /\ w.rows = v.table.base BY MxKeptRows
 <2>2. kept = IF v.table.of = {} THEN v ELSE w OBVIOUS
 <2> HIDE DEF w, kept
 <2> QED BY <1>0, <2>1, <2>2
<1>2. CASE isDirty(v.table) /\ v.table.saving
 <2>1. mxView' = kept /\ UNCHANGED <<mxLoads, mxSaves, mxCounts>> BY <1>2 DEF doSave
 <2> HIDE DEF kept
 <2> QED BY <1>0, <1>1, <2>1, MxKeptView DEF MxSameTable
<1>3. CASE isDirty(v.table) /\ ~v.table.saving
 <2>1. saveChanges(v, "view", then) /\ UNCHANGED mxLoads BY <1>3 DEF doSave
 <2> QED BY <1>3, <2>1, MxKeptSave
<1>4. CASE ~isDirty(v.table) /\ isLayoutDirty(v)
 <2> DEFINE s == MxSave(v, v.rows, "layout", then)
 <2>1. MxSent /\ mxView' = v /\ mxSaves' = mxSaves \cup {s} /\ UNCHANGED mxLoads BY <1>4 DEF doSave
 <2>2. s \in MxSaveSet /\ s.to = v.current /\ s.rows = v.rows /\ s.by = "layout" /\ s.mine
   BY <1>0, MxSaveSent
 <2> HIDE DEF s
 <2>3. mxCounts' \in [requests : Nat, edits : Nat, overtook : BOOLEAN] /\ mxCounts'.overtook = mxCounts.overtook
   BY <1>0, <2>1, MxCounted DEF MxShape
 <2>4. MxShape' BY <1>0, <2>1, <2>2, <2>3 DEF MxShape
 <2>5. ~MxPermissions' BY <1>0, <2>1 DEF MxPermissions
 <2>6. ASSUME ~mxCounts'.overtook PROVE (MxTableOfCurrent /\ MxSavesOfShown /\ MxServerApart)'
  <3>1. MxTableOfCurrent /\ MxSavesOfShown /\ MxServerApart BY <2>3, <2>6 DEF MxInv
  <3>2. mxView.table.shown /\ mxView'.table = mxView.table /\ ~isDirty(mxView.table)
    BY <1>0, <1>4, <2>1, <3>1 DEF MxTableOfCurrent, MxSameTable, isLayoutDirty
  <3>3. MxTableOfCurrent' BY <2>1, <3>1, <3>2 DEF MxTableOfCurrent, MxSameTable
  <3>4. MxSavesOfShown' BY <2>1, <2>2, <3>1, <3>2 DEF MxSavesOfShown, MxTableOfCurrent, MxSameTable
  <3> QED BY <3>1, <3>3, <3>4 DEF MxServerApart
 <2> QED BY <2>4, <2>5, <2>6 DEF MxInv
<1>5. CASE ~isDirty(v.table) /\ ~isLayoutDirty(v)
 <2>1. PICK t \in then : MxGoTo(kept, t.target, mxSaves) BY <1>5 DEF doSave
 <2> HIDE DEF kept
 <2>2. t.target \in SUBSET MxDatasets /\ mxDrafts' \in [MxKeys -> 0..2] BY <1>0 DEF MxThenSet, MxShape
 <2> QED BY <1>1, <1>5, <2>1, <2>2, MxKeptGoTo
<1> QED BY <1>2, <1>3, <1>4, <1>5

\* The rows of the permissions are those of no dataset alone.
LEMMA MxPermissionRows ==
  ASSUME NEW v \in MxViewSet, NEW of \in SUBSET MxDatasets
  PROVE  [of |-> 0, val |-> computeMultipleTableState(v, of)] \in MxRowSet
BY DEF computeMultipleTableState, MxRowSet

\* What waited for the answer about the permissions goes on: the table is of the selection again.
LEMMA MxKeptGoOn ==
  ASSUME MxInv, MxPermissions, NEW v \in MxViewSet, v.kind = "permissions", v.current = mxView.current,
         v.table.of = mxView.table.of, NEW t \in MxThenSet, NEW saves \in SUBSET mxSaves, MxGoOn(v, t, saves),
         mxCounts' \in [requests : Nat, edits : Nat, overtook : BOOLEAN], UNCHANGED <<mxServer, mxLoads>>
  PROVE  MxInv'
<1>0. /\ MxShape /\ MxBuiltOnSelection /\ saves \in SUBSET MxSaveSet /\ v.table \in MxTableSet
      /\ v.current \in SUBSET MxDatasets /\ t.target \in SUBSET MxDatasets
  BY DEF MxInv, MxShape, MxViewSet, MxThenSet
<1>1. MxForget(v.table.of) \in [MxKeys -> 0..2] BY <1>0, MxDraftsTyped DEF MxShape
<1>2. CASE t.filter
 <2> DEFINE r == [of |-> 0, val |-> computeMultipleTableState(v, v.current)]
            n == [v.table EXCEPT !.base = r, !.draft = r]
 <2>1. r \in MxRowSet BY <1>0, MxPermissionRows
 <2>2. mxView' = [v EXCEPT !.table = n] /\ mxDrafts' = MxForget(v.table.of) /\ mxSaves' = saves
   BY <1>2 DEF MxGoOn, MxSetRows
 <2> HIDE DEF r
 <2>3. n \in MxTableSet /\ n.of = v.table.of BY <1>0, <2>1 DEF MxTableSet
 <2> HIDE DEF n
 <2>4. mxView' \in MxViewSet /\ mxView'.kind = "permissions" /\ mxView'.current = v.current /\ mxView'.table = n
   BY <2>2, <2>3, MxWithTable
 <2>5. MxShape' BY <1>0, <1>1, <2>2, <2>4 DEF MxShape
 <2>6. MxBuiltOnSelection' /\ ~MxCards' BY <1>0, <2>2, <2>3, <2>4 DEF MxBuiltOnSelection, MxCards
 <2> QED BY <2>5, <2>6 DEF MxInv
<1>3. CASE ~t.filter
 <2> DEFINE drafts == MxForget(v.table.of)
            r == [of |-> 0, val |-> computeMultipleTableState(v, t.target)]
            n == IF t.target = {} THEN NoTable ELSE createVanillaCheckboxTable(t.target, r, drafts[t.target])
 <2>1. mxView' = [v EXCEPT !.current = t.target, !.table = n] /\ mxDrafts' = drafts /\ mxSaves' = MxLeft(saves)
   BY <1>3 DEF MxGoOn, syncTables
 <2>2. r \in MxRowSet BY <1>0, MxPermissionRows
 <2>3. n \in MxTableSet /\ n.of = t.target
  <3>1. CASE t.target = {}
   <4>1. NoTable.of = {} BY DEF NoTable
   <4> QED BY <1>0, <3>1, <4>1, MxTables
  <3>2. CASE t.target # {}
   <4>1. drafts[t.target] \in 0..2 BY <1>0, <1>1, <3>2 DEF MxKeys
   <4> HIDE DEF r, drafts
   <4> QED BY <1>0, <2>2, <3>2, <4>1, MxBuilt
  <3> QED BY <3>1, <3>2
 <2> HIDE DEF n
 <2>4. mxView' \in MxViewSet /\ mxView'.kind = "permissions" /\ mxView'.current = t.target /\ mxView'.table = n
   BY <1>0, <2>1, <2>3 DEF MxViewSet
 <2>5. MxLeft(saves) \in SUBSET MxSaveSet /\ \A s \in MxLeft(saves) : ~s.mine
  <3>1. ASSUME NEW s \in saves PROVE [s EXCEPT !.mine = FALSE] \in MxSaveSet /\ ~[s EXCEPT !.mine = FALSE].mine
   <4>1. s \in MxSaveSet BY <1>0
   <4> QED BY <4>1 DEF MxSaveSet
  <3> QED BY <3>1 DEF MxLeft
 <2>6. MxShape' BY <1>0, <1>1, <2>1, <2>4, <2>5 DEF MxShape
 <2>7. MxBuiltOnSelection' /\ ~MxCards' BY <1>0, <2>1, <2>3, <2>4, <2>5 DEF MxBuiltOnSelection, MxCards
 <2> QED BY <2>6, <2>7 DEF MxInv
<1> QED BY <1>2, <1>3

\* The table alone changed, outside a save: for the cards, what is shown stays of the current dataset.
LEMMA MxKeptTable ==
  ASSUME MxInv, NEW t \in MxTableSet, mxView' = [mxView EXCEPT !.table = t], t.of = mxView.table.of,
         t.shown = mxView.table.shown, t.saving = mxView.table.saving,
         MxCards => mxCounts.overtook \/ (t.base = mxView.table.base /\ t.draft.of = mxView.table.draft.of),
         mxView.table.shown, mxDrafts' \in [MxKeys -> 0..2], UNCHANGED <<mxServer, mxLoads, mxSaves>>,
         mxCounts' \in [requests : Nat, edits : Nat, overtook : BOOLEAN],
         mxCounts.overtook => mxCounts'.overtook,
         mxSaves # {} => mxCounts'.overtook \/ t.draft = mxView.table.draft
                            \/ (~mxView.table.saving /\ t.draft = mxView.table.base)
  PROVE  MxInv'
<1>0. MxShape /\ mxView \in MxViewSet /\ mxView.table \in MxTableSet BY DEF MxInv, MxShape, MxViewSet
<1>1. /\ mxView' \in MxViewSet /\ mxView'.table = t /\ mxView'.kind = mxView.kind
      /\ mxView'.current = mxView.current /\ mxView'.rows = mxView.rows
      /\ mxView'.layout = mxView.layout /\ mxView'.oldLayout = mxView.oldLayout BY <1>0, MxWithTable
<1>2. MxShape' BY <1>0, <1>1 DEF MxShape
<1>3. ASSUME MxPermissions' PROVE MxBuiltOnSelection'
 <2>1. MxBuiltOnSelection BY <1>1, <1>3 DEF MxInv, MxPermissions
 <2> QED BY <1>1, <2>1 DEF MxBuiltOnSelection
<1>4. ASSUME MxCards', ~mxCounts'.overtook PROVE (MxTableOfCurrent /\ MxSavesOfShown /\ MxServerApart)'
 <2>1. /\ MxTableOfCurrent /\ MxSavesOfShown /\ MxServerApart
       /\ t.base = mxView.table.base /\ t.draft.of = mxView.table.draft.of
   BY <1>0, <1>1, <1>4 DEF MxInv, MxCards, MxShape
 <2>2. MxTableOfCurrent' BY <1>1, <2>1 DEF MxTableOfCurrent
 <2>3. mxSaves # {} => isDirty(t) = isDirty(mxView.table)
  <3>1. SUFFICES ASSUME mxSaves # {} PROVE isDirty(t) = isDirty(mxView.table) OBVIOUS
  <3>2. CASE t.draft = mxView.table.draft BY <2>1, <3>2 DEF isDirty
  <3>3. CASE ~mxView.table.saving /\ t.draft = mxView.table.base
   <4>1. PICK s \in mxSaves : TRUE BY <3>1
   <4>2. ~isDirty(mxView.table) BY <2>1, <3>3, <4>1 DEF MxSavesOfShown
   <4> QED BY <2>1, <3>3, <4>2 DEF isDirty
  <3> QED BY <1>4, <3>1, <3>2, <3>3
 <2>4. MxSavesOfShown' BY <1>1, <2>1, <2>3 DEF MxSavesOfShown
 <2> QED BY <2>1, <2>2, <2>4 DEF MxServerApart
<1> QED BY <1>2, <1>3, <1>4 DEF MxInv

LEMMA MxTypeOfView ==
  ASSUME MxInv
  PROVE  /\ MxShape /\ mxView \in MxViewSet /\ mxView.table \in MxTableSet /\ mxSaves \in SUBSET MxSaveSet
         /\ mxView.table.base \in MxRowSet /\ mxView.table.draft \in MxRowSet /\ mxView.current \in SUBSET MxDatasets
         /\ mxDrafts \in [MxKeys -> 0..2] /\ mxCounts \in [requests : Nat, edits : Nat, overtook : BOOLEAN]
BY DEF MxInv, MxShape, MxViewSet, MxTableSet

LEMMA MxCellStep == ASSUME MxInv, handleCellInputChange PROVE MxInv'
<1>1. PICK val \in 0..1 :
        LET u == [mxView.table EXCEPT !.draft.val = val]
        IN  mxView' = [mxView EXCEPT !.table = u] /\ mxDrafts' = MxKeep(u) BY DEF handleCellInputChange
<1> DEFINE t == [mxView.table EXCEPT !.draft.val = val]
<1>2. /\ mxView' = [mxView EXCEPT !.table = t] /\ mxDrafts' = MxKeep(t) /\ mxView.table.shown /\ MxEdited
      /\ UNCHANGED <<mxServer, mxLoads, mxSaves>> BY <1>1 DEF handleCellInputChange
<1>3. /\ t \in MxTableSet /\ t.of = mxView.table.of /\ t.shown = mxView.table.shown /\ t.saving = mxView.table.saving
      /\ t.base = mxView.table.base /\ t.draft.of = mxView.table.draft.of
 <2>1. mxView.table \in MxTableSet /\ mxView.table.draft \in MxRowSet BY MxTypeOfView
 <2> DEFINE d == [mxView.table.draft EXCEPT !.val = val]
 <2>2. d \in MxRowSet /\ d.of = mxView.table.draft.of BY <2>1 DEF MxRowSet
 <2>3. t = [mxView.table EXCEPT !.draft = d] BY <2>1 DEF MxTableSet
 <2> HIDE DEF d, t
 <2> QED BY <2>1, <2>2, <2>3 DEF MxTableSet
<1> HIDE DEF t
<1>4. mxDrafts' \in [MxKeys -> 0..2] BY <1>2, <1>3, MxTypeOfView, MxDraftsTyped
<1>5. /\ mxCounts' \in [requests : Nat, edits : Nat, overtook : BOOLEAN]
      /\ mxCounts'.overtook = (mxCounts.overtook \/ mxSaves # {}) BY <1>2, MxTypeOfView, MxCounted
<1> QED BY <1>2, <1>3, <1>4, <1>5, MxKeptTable

LEMMA MxEditModeStep == ASSUME MxInv, setEditMode PROVE MxInv'
<1> DEFINE t == [mxView.table EXCEPT !.edit = TRUE]
<1>1. /\ mxView' = [mxView EXCEPT !.table = t] /\ mxDrafts' = MxKeep(t) /\ mxView.table.shown
      /\ UNCHANGED <<mxServer, mxLoads, mxSaves, mxCounts>> BY DEF setEditMode
<1>2. /\ t \in MxTableSet /\ t.of = mxView.table.of /\ t.shown = mxView.table.shown /\ t.saving = mxView.table.saving
      /\ t.base = mxView.table.base /\ t.draft = mxView.table.draft BY MxTypeOfView DEF MxTableSet
<1> HIDE DEF t
<1>3. mxDrafts' \in [MxKeys -> 0..2] BY <1>1, <1>2, MxTypeOfView, MxDraftsTyped
<1> QED BY <1>1, <1>2, <1>3, MxTypeOfView, MxKeptTable

LEMMA MxCancelStep == ASSUME MxInv, MxCancel PROVE MxInv'
<1> DEFINE t == cancelChanges(mxView.table)
<1>1. /\ mxView' = [mxView EXCEPT !.table = t] /\ mxDrafts' = MxKeep(t) /\ mxView.table.shown
      /\ ~mxView.table.saving /\ UNCHANGED <<mxServer, mxLoads, mxSaves, mxCounts>> BY DEF MxCancel
<1>2. /\ t \in MxTableSet /\ t.of = mxView.table.of /\ t.shown = mxView.table.shown /\ t.saving = mxView.table.saving
      /\ t.base = mxView.table.base /\ t.draft = mxView.table.base
  BY MxTypeOfView DEF MxTableSet, cancelChanges
<1>3. MxCards => mxView.table.base.of = mxView.table.draft.of \/ mxCounts.overtook
  BY <1>1 DEF MxInv, MxTableOfCurrent
<1> HIDE DEF t
<1>4. mxDrafts' \in [MxKeys -> 0..2] BY <1>1, <1>2, MxTypeOfView, MxDraftsTyped
<1> QED BY <1>1, <1>2, <1>3, <1>4, MxTypeOfView, MxKeptTable

LEMMA MxSaveButtonStep == ASSUME MxInv, MxSaveButton PROVE MxInv'
<1>1. MxSameTable(mxView) BY MxTypeOfView, MxOnlyAnswered
<1> QED BY <1>1, MxKeptSave DEF MxSaveButton

LEMMA MxStoredStep == ASSUME MxInv, NEW s \in mxSaves, MxStored(s) PROVE MxInv'
<1>1. PICK allowed \in {TRUE} \cup {~MxPermissions} :
          mxServer' = IF ~allowed THEN mxServer
                      ELSE [d \in MxDatasets |->
                              IF d \notin s.to THEN mxServer[d]
                              ELSE IF MxCards THEN [rows |-> s.rows, layout |-> s.layout]
                              ELSE [mxServer[d] EXCEPT !.rows.val = s.rows.val]] BY DEF MxStored
<1> DEFINE u == [s EXCEPT !.pc = "stored"]
<1>2. mxSaves' = (mxSaves \ {s}) \cup {u} /\ UNCHANGED <<mxView, mxLoads, mxDrafts, mxCounts>> BY DEF MxStored
<1>3. /\ s \in MxSaveSet /\ u \in MxSaveSet /\ u.to = s.to /\ u.rows = s.rows /\ u.mine = s.mine /\ u.by = s.by
      /\ s.rows \in MxRowSet /\ s.layout \in 0..1 BY MxTypeOfView DEF MxSaveSet
<1> HIDE DEF u
<1>4. mxServer \in [MxDatasets -> [rows : MxRowSet, layout : 0..1]] BY MxTypeOfView DEF MxShape
<1>5. \A d \in MxDatasets :
        /\ mxServer'[d] \in [rows : MxRowSet, layout : 0..1]
        /\ mxServer'[d].rows.of \in {mxServer[d].rows.of} \cup {r \in {s.rows.of} : MxCards /\ d \in s.to}
 <2> SUFFICES ASSUME NEW d \in MxDatasets
              PROVE  /\ mxServer'[d] \in [rows : MxRowSet, layout : 0..1]
                     /\ mxServer'[d].rows.of \in {mxServer[d].rows.of} \cup {r \in {s.rows.of} : MxCards /\ d \in s.to}
   OBVIOUS
 <2>0. mxServer[d] \in [rows : MxRowSet, layout : 0..1] /\ mxServer[d].rows \in MxRowSet BY <1>4
 <2>1. CASE ~allowed \/ d \notin s.to
  <3>1. mxServer'[d] = mxServer[d] BY <1>1, <2>1
  <3> QED BY <2>0, <3>1
 <2>2. CASE allowed /\ d \in s.to /\ MxCards
  <3>1. mxServer'[d] = [rows |-> s.rows, layout |-> s.layout] BY <1>1, <2>2
  <3> QED BY <1>3, <2>2, <3>1
 <2>3. CASE allowed /\ d \in s.to /\ ~MxCards
  <3> DEFINE r == [mxServer[d].rows EXCEPT !.val = s.rows.val]
  <3>1. mxServer'[d] = [mxServer[d] EXCEPT !.rows.val = s.rows.val] BY <1>1, <2>3
  <3>2. r \in MxRowSet /\ r.of = mxServer[d].rows.of BY <1>3, <2>0 DEF MxRowSet
  <3>3. mxServer'[d] = [mxServer[d] EXCEPT !.rows = r] BY <2>0, <3>1
  <3> HIDE DEF r
  <3> QED BY <2>0, <3>2, <3>3
 <2> QED BY <2>1, <2>2, <2>3
<1>6. DOMAIN mxServer' = MxDatasets /\ mxServer' = [d \in MxDatasets |-> mxServer'[d]] BY <1>1, <1>4
<1>7. mxServer' \in [MxDatasets -> [rows : MxRowSet, layout : 0..1]] BY <1>5, <1>6
<1>8. MxShape' BY <1>2, <1>3, <1>7, MxTypeOfView DEF MxShape
<1>9. MxPermissions' => MxBuiltOnSelection' BY <1>2, <1>3 DEF MxInv, MxBuiltOnSelection, MxPermissions
<1>10. ASSUME MxCards', ~mxCounts'.overtook PROVE (MxTableOfCurrent /\ MxSavesOfShown /\ MxServerApart)'
 <2>1. MxTableOfCurrent /\ MxSavesOfShown /\ MxServerApart BY <1>2, <1>10 DEF MxInv, MxCards
 <2>2. MxTableOfCurrent' BY <1>2, <2>1 DEF MxTableOfCurrent
 <2>3. MxSavesOfShown' BY <1>2, <1>3, <2>1 DEF MxSavesOfShown
 <2>4. s.to = {s.rows.of} BY <2>1 DEF MxSavesOfShown
 <2>5. MxServerApart' BY <1>5, <2>1, <2>4 DEF MxServerApart
 <2> QED BY <2>2, <2>3, <2>5
<1> QED BY <1>8, <1>9, <1>10 DEF MxInv

LEMMA MxSelectStep == ASSUME MxInv, MxSelect PROVE MxInv'
<1>0. MxCards /\ mxView \in MxViewSet /\ mxView.kind = "cards" /\ mxView.table \in MxTableSet
  BY MxTypeOfView DEF MxSelect, MxCards
<1>1. PICK target \in {{}} \cup {{d} : d \in MxDatasets} :
          IF hasPendingChanges(mxView)
          THEN /\ mxView' = [mxView EXCEPT !.confirm = [NoConfirm EXCEPT !.asked = TRUE, !.target = target]]
               /\ UNCHANGED <<mxLoads, mxCounts, mxSaves>>
          ELSE MxGoTo(mxView, target, mxSaves) BY DEF MxSelect
<1>2. UNCHANGED <<mxServer, mxDrafts>> /\ target \in SUBSET MxDatasets BY DEF MxSelect
<1>3. CASE hasPendingChanges(mxView)
 <2> DEFINE c == [NoConfirm EXCEPT !.asked = TRUE, !.target = target]
 <2>1. mxView' = [mxView EXCEPT !.confirm = c] /\ UNCHANGED <<mxLoads, mxCounts, mxSaves>> BY <1>1, <1>3
 <2>2. c \in [asked : BOOLEAN, target : SUBSET MxDatasets, filter : BOOLEAN] BY <1>2 DEF NoConfirm
 <2> HIDE DEF c
 <2>3. /\ mxView' \in MxViewSet /\ mxView'.kind = "cards" /\ mxView'.table = mxView.table
       /\ mxView'.current = mxView.current /\ mxView'.layout = mxView.layout
       /\ mxView'.oldLayout = mxView.oldLayout /\ mxView'.rows = mxView.rows
   BY <1>0, <2>1, <2>2 DEF MxViewSet
 <2> QED BY <1>0, <1>2, <2>1, <2>3, MxKeptView
<1>4. CASE ~hasPendingChanges(mxView)
 <2>1. MxGoTo(mxView, target, mxSaves) BY <1>1, <1>4
 <2>2. ~isDirty(mxView.table) BY <1>4 DEF hasPendingChanges
 <2>3. mxDrafts' \in [MxKeys -> 0..2] BY <1>2, MxTypeOfView
 <2> QED BY <1>0, <1>2, <2>1, <2>2, <2>3, MxKeptGoTo
<1> QED BY <1>3, <1>4

LEMMA MxDiscardStep == ASSUME MxInv, MxDiscard PROVE MxInv'
<1> DEFINE v == discardDraftChanges(mxView)
           t == cancelChanges(mxView.table)
           target == mxView.confirm.target
<1>0. MxCards /\ mxView \in MxViewSet /\ mxView.kind = "cards" /\ mxView.table \in MxTableSet
      /\ target \in SUBSET MxDatasets BY MxTypeOfView DEF MxDiscard, MxCards, MxViewSet
<1>1. MxGoTo(v, target, mxSaves) /\ mxDrafts' = MxKeep(v.table) /\ UNCHANGED mxServer BY DEF MxDiscard
<1>2. t \in MxTableSet /\ ~isDirty(t) BY <1>0, MxTables
<1>3. v \in MxViewSet /\ v.kind = "cards" /\ v.table = t
 <2> DEFINE o == mxView.oldLayout
            c == NoConfirm
 <2>1. v = [mxView EXCEPT !.confirm = c, !.table = t, !.layout = o] BY DEF discardDraftChanges
 <2>2. o \in 0..1 /\ c \in [asked : BOOLEAN, target : SUBSET MxDatasets, filter : BOOLEAN]
   BY <1>0 DEF MxViewSet, NoConfirm
 <2> HIDE DEF o, c, t, v
 <2> QED BY <1>0, <1>2, <2>1, <2>2 DEF MxViewSet
<1> HIDE DEF t, v, target
<1>4. mxDrafts' \in [MxKeys -> 0..2] BY <1>1, <1>2, <1>3, MxTypeOfView, MxDraftsTyped
<1> QED BY <1>0, <1>1, <1>2, <1>3, <1>4, MxKeptGoTo

LEMMA MxLayoutSaveStep == ASSUME MxInv, MxLayoutSave PROVE MxInv'
<1>1. MxSameTable(mxView) BY MxTypeOfView, MxOnlyAnswered
<1>2. MxCards /\ doSave(mxView, {}) /\ UNCHANGED <<mxServer, mxDrafts>> /\ {} \in SUBSET MxThenSet
  BY DEF MxLayoutSave
<1> QED BY <1>1, <1>2, MxKeptDoSave

LEMMA MxConfirmStep == ASSUME MxInv, MxConfirm PROVE MxInv'
<1>1. MxSameTable(MxAnswered) /\ MxThen \in SUBSET MxThenSet BY MxTypeOfView, MxOnlyAnswered
<1>2. MxCards /\ doSave(MxAnswered, MxThen) /\ UNCHANGED <<mxServer, mxDrafts>> BY DEF MxConfirm
<1> QED BY <1>1, <1>2, MxKeptDoSave

LEMMA MxLayoutChangeStep == ASSUME MxInv, MxLayoutChange PROVE MxInv'
<1> DEFINE y == 1 - mxView.layout
<1>0. /\ MxCards /\ mxView.table.shown /\ mxView' = [mxView EXCEPT !.layout = y] /\ MxEdited
      /\ UNCHANGED <<mxServer, mxLoads, mxSaves, mxDrafts>> BY DEF MxLayoutChange
<1>1. y \in 0..1 BY MxTypeOfView DEF MxViewSet
<1> HIDE DEF y
<1>2. /\ mxView' \in MxViewSet /\ mxView'.kind = mxView.kind /\ mxView'.table = mxView.table
      /\ mxView'.current = mxView.current /\ mxView'.rows = mxView.rows
  BY <1>0, <1>1, MxTypeOfView DEF MxViewSet
<1>3. /\ mxCounts' \in [requests : Nat, edits : Nat, overtook : BOOLEAN]
      /\ mxCounts'.overtook = (mxCounts.overtook \/ mxSaves # {}) BY <1>0, MxTypeOfView, MxCounted
<1>4. MxShape' BY <1>0, <1>2, <1>3, MxTypeOfView DEF MxShape
<1>5. ~MxPermissions' BY <1>0, <1>2 DEF MxCards, MxPermissions
<1>6. ASSUME ~mxCounts'.overtook PROVE (MxTableOfCurrent /\ MxSavesOfShown /\ MxServerApart)'
 <2>1. MxTableOfCurrent /\ MxServerApart /\ mxSaves = {} BY <1>0, <1>3, <1>6, MxTypeOfView DEF MxInv
 <2>2. MxTableOfCurrent' BY <1>0, <1>2, <2>1 DEF MxTableOfCurrent
 <2> QED BY <1>0, <2>1, <2>2 DEF MxSavesOfShown, MxServerApart
<1> QED BY <1>4, <1>5, <1>6 DEF MxInv

LEMMA MxLoadStep == ASSUME MxInv, MxLoadAnswer, MxCards PROVE MxInv'
<1>0. /\ MxShape /\ mxView \in MxViewSet /\ mxView.kind = "cards" /\ mxSaves \in SUBSET MxSaveSet
      /\ mxLoads \in SUBSET [of : MxDatasets, wanted : BOOLEAN]
      /\ mxServer \in [MxDatasets -> [rows : MxRowSet, layout : 0..1]] BY MxTypeOfView DEF MxCards, MxShape
<1>1. PICK l \in mxLoads, ok \in BOOLEAN :
       /\ mxLoads' = mxLoads \ {l}
       /\ IF ~l.wanted
          THEN UNCHANGED <<mxView, mxSaves>>
          ELSE IF ~ok
          THEN mxView' = [mxView EXCEPT !.rows = NoRows, !.layout = 0, !.oldLayout = 0] /\ UNCHANGED mxSaves
          ELSE LET stored == mxServer[l.of]
                   kept   == IF mxView.current = {} THEN 2 ELSE mxDrafts[mxView.current]
               IN  /\ mxView' = [mxView EXCEPT
                         !.rows = stored.rows, !.layout = stored.layout,
                         !.oldLayout = stored.layout,
                         !.table = createVanillaCheckboxTable(mxView.current, stored.rows, kept)]
                   /\ mxSaves' = MxLeft(mxSaves) BY DEF MxLoadAnswer, MxLoadIsWanted
<1>2. UNCHANGED <<mxServer, mxDrafts, mxCounts>> /\ mxLoads' \subseteq mxLoads /\ l.of \in MxDatasets
  BY <1>0, <1>1 DEF MxLoadAnswer
<1>3. CASE ~l.wanted
 <2>1. UNCHANGED <<mxView, mxSaves>> BY <1>1, <1>3
 <2>2. MxShape' BY <1>0, <1>2, <2>1 DEF MxShape
 <2>3. ~MxPermissions' BY <1>0, <2>1 DEF MxPermissions
 <2>4. ASSUME ~mxCounts.overtook PROVE (MxTableOfCurrent /\ MxSavesOfShown /\ MxServerApart)'
  <3>1. MxTableOfCurrent /\ MxSavesOfShown /\ MxServerApart BY <2>4 DEF MxInv
  <3> QED BY <1>2, <2>1, <3>1 DEF MxTableOfCurrent, MxSavesOfShown, MxServerApart
 <2> QED BY <1>2, <2>2, <2>3, <2>4 DEF MxInv
<1>4. CASE l.wanted /\ ~ok
 <2>1. mxView' = [mxView EXCEPT !.rows = NoRows, !.layout = 0, !.oldLayout = 0] /\ UNCHANGED mxSaves
   BY <1>1, <1>4
 <2>2. /\ mxView' \in MxViewSet /\ mxView'.kind = "cards" /\ mxView'.table = mxView.table
       /\ mxView'.current = mxView.current /\ mxView'.layout = 0 /\ mxView'.oldLayout = 0
  <3>1. NoRows \in MxRowSet /\ 0 \in 0..1 BY DEF NoRows, Rows, MxNone, MxRowSet
  <3> QED BY <1>0, <2>1, <3>1 DEF MxViewSet
 <2>3. MxShape' BY <1>0, <1>2, <2>1, <2>2 DEF MxShape
 <2>4. ~MxPermissions' BY <2>2 DEF MxPermissions
 <2>5. ASSUME ~mxCounts.overtook PROVE (MxTableOfCurrent /\ MxSavesOfShown /\ MxServerApart)'
  <3>1. MxTableOfCurrent /\ MxSavesOfShown /\ MxServerApart /\ ~mxView.table.shown
    BY <1>1, <1>4, <2>5 DEF MxInv, MxTableOfCurrent
  <3>2. MxTableOfCurrent' BY <1>2, <2>1, <2>2, <3>1 DEF MxTableOfCurrent, isLayoutDirty
  <3> QED BY <1>2, <2>1, <2>2, <3>1, <3>2 DEF MxSavesOfShown, MxServerApart
 <2> QED BY <1>2, <2>3, <2>4, <2>5 DEF MxInv
<1>5. CASE l.wanted /\ ok
 <2> DEFINE stored == mxServer[l.of]
            kept == IF mxView.current = {} THEN 2 ELSE mxDrafts[mxView.current]
            t == createVanillaCheckboxTable(mxView.current, stored.rows, kept)
            y == stored.layout
            r == stored.rows
 <2>1. mxView' = [mxView EXCEPT !.rows = r, !.layout = y, !.oldLayout = y, !.table = t]
       /\ mxSaves' = MxLeft(mxSaves) BY <1>1, <1>5
 <2>2. stored \in [rows : MxRowSet, layout : 0..1] /\ y \in 0..1 /\ r \in MxRowSet BY <1>0, <1>2
 <2>3. kept \in 0..2
  <3>1. mxView.current # {} => mxView.current \in MxKeys BY MxTypeOfView DEF MxKeys
  <3> QED BY <3>1, MxTypeOfView
 <2>4. t \in MxTableSet /\ t.of = mxView.current /\ t.shown /\ t.base = r /\ t.draft.of = r.of
  <3> HIDE DEF kept
  <3> QED BY <2>2, <2>3, MxTypeOfView, MxBuilt
 <2> HIDE DEF t, y, r
 <2>5. /\ mxView' \in MxViewSet /\ mxView'.kind = "cards" /\ mxView'.table = t /\ mxView'.rows = r
       /\ mxView'.current = mxView.current /\ mxView'.layout = y /\ mxView'.oldLayout = y
   BY <1>0, <2>1, <2>2, <2>4 DEF MxViewSet
 <2>6. mxSaves' \in SUBSET MxSaveSet /\ (mxSaves = {} => mxSaves' = {})
  <3>1. ASSUME NEW s \in mxSaves PROVE [s EXCEPT !.mine = FALSE] \in MxSaveSet
   <4>1. s \in MxSaveSet BY <1>0
   <4> QED BY <4>1 DEF MxSaveSet
  <3> QED BY <2>1, <3>1 DEF MxLeft
 <2>7. MxShape' BY <1>0, <1>2, <2>5, <2>6 DEF MxShape
 <2>8. ~MxPermissions' BY <2>5 DEF MxPermissions
 <2>9. ASSUME ~mxCounts.overtook PROVE (MxTableOfCurrent /\ MxSavesOfShown /\ MxServerApart)'
  <3>1. MxTableOfCurrent /\ MxSavesOfShown /\ MxServerApart /\ ~mxView.table.shown /\ mxView.current = {l.of}
    BY <1>1, <1>5, <2>9 DEF MxInv, MxTableOfCurrent
  <3>2. mxSaves = {} /\ r.of = l.of BY <1>2, <3>1 DEF MxSavesOfShown, MxServerApart, r
  <3>3. \A x \in mxLoads' : ~x.wanted
   <4>1. ASSUME NEW x \in mxLoads', x.wanted PROVE FALSE
    <5>1. x.of = l.of /\ x \in [of : MxDatasets, wanted : BOOLEAN] /\ l \in [of : MxDatasets, wanted : BOOLEAN] /\ x # l
      BY <1>0, <1>1, <3>1, <4>1 DEF MxTableOfCurrent
    <5> QED BY <1>5, <4>1, <5>1
   <4> QED BY <4>1
  <3>4. MxTableOfCurrent' BY <2>4, <2>5, <3>1, <3>2, <3>3 DEF MxTableOfCurrent
  <3> QED BY <1>2, <2>6, <3>1, <3>2, <3>4 DEF MxSavesOfShown, MxServerApart
 <2> QED BY <1>2, <2>7, <2>8, <2>9 DEF MxInv
<1> QED BY <1>3, <1>4, <1>5

LEMMA MxSaveAnswerStep == ASSUME MxInv, MxSaveAnswer PROVE MxInv'
<1>0. /\ MxShape /\ MxCards /\ mxView \in MxViewSet /\ mxView.kind = "cards" /\ mxView.table \in MxTableSet
      /\ mxSaves \in SUBSET MxSaveSet /\ mxView.table.draft \in MxRowSet
  BY MxTypeOfView DEF MxSaveAnswer, MxCards
<1>1. PICK s \in mxSaves, ok \in BOOLEAN :
        /\ mxDrafts' = IF ok /\ s.by # "layout" THEN MxForget(s.to) ELSE mxDrafts
        /\ IF ok /\ s.then # {} /\ MxTaken(s, ok).table.of # {}
           THEN \E t \in s.then : MxGoTo(MxTaken(s, ok), t.target, mxSaves \ {s})
           ELSE mxView' = MxTaken(s, ok) /\ mxSaves' = mxSaves \ {s} /\ UNCHANGED <<mxLoads, mxCounts>>
  BY DEF MxSaveAnswer
<1>2. UNCHANGED mxServer BY DEF MxSaveAnswer
<1>3. /\ s \in MxSaveSet /\ s.rows \in MxRowSet /\ s.layout \in 0..1 /\ s.then \in SUBSET MxThenSet
      /\ mxDrafts' \in [MxKeys -> 0..2] BY <1>0, <1>1, MxTypeOfView, MxDraftsTyped DEF MxSaveSet
\* The view once the answer is taken over, and its table.
<1> DEFINE v0 == IF ok THEN persistCardVisibility(mxView, s) ELSE mxView
           t1 == IF s.by = "layout" \/ ~s.mine THEN mxView.table
                 ELSE IF ok THEN MxTableSaved(mxView.table) ELSE MxTableFailed(mxView.table)
           v1 == IF s.by = "layout" \/ ~s.mine THEN v0
                 ELSE [v0 EXCEPT !.table = IF ok THEN MxTableSaved(v0.table) ELSE MxTableFailed(v0.table)]
           v2 == MxTaken(s, ok)
           goes == ok /\ s.then # {} /\ v2.table.of # {}
<1>4. /\ v0 \in MxViewSet /\ v0.kind = "cards" /\ v0.table = mxView.table /\ v0.current = mxView.current
      /\ ok => v0.rows = s.rows /\ v0.layout = s.layout /\ v0.oldLayout = s.layout
      /\ ~ok => v0 = mxView
 <2>1. CASE ok
  <3> DEFINE y == s.layout
             r == s.rows
  <3>1. v0 = [mxView EXCEPT !.rows = r, !.layout = y, !.oldLayout = y] BY <2>1 DEF persistCardVisibility
  <3>2. y \in 0..1 /\ r \in MxRowSet BY <1>3
  <3> HIDE DEF v0, y, r
  <3>3. /\ v0 \in MxViewSet /\ v0.kind = "cards" /\ v0.table = mxView.table /\ v0.current = mxView.current
        /\ v0.rows = r /\ v0.layout = y /\ v0.oldLayout = y BY <1>0, <3>1, <3>2 DEF MxViewSet
  <3> QED BY <2>1, <3>3 DEF y, r
 <2>2. CASE ~ok BY <1>0, <2>2
 <2> QED BY <2>1, <2>2
<1> HIDE DEF v0
<1>5. /\ t1 \in MxTableSet /\ t1.of = mxView.table.of /\ t1.shown = mxView.table.shown BY <1>0, MxTables
<1>6. /\ v1 \in MxViewSet /\ v1.kind = "cards" /\ v1.table = t1 /\ v1.current = mxView.current
      /\ v1.rows = v0.rows /\ v1.layout = v0.layout /\ v1.oldLayout = v0.oldLayout
 <2>1. CASE s.by = "layout" \/ ~s.mine
  <3>1. v1 = v0 /\ t1 = mxView.table BY <2>1
  <3> QED BY <1>4, <3>1
 <2>2. CASE ~(s.by = "layout" \/ ~s.mine)
  <3>1. v1 = [v0 EXCEPT !.table = IF ok THEN MxTableSaved(v0.table) ELSE MxTableFailed(v0.table)] BY <2>2
  <3>2. t1 = IF ok THEN MxTableSaved(v0.table) ELSE MxTableFailed(v0.table) BY <1>4, <2>2
  <3>3. v1 = [v0 EXCEPT !.table = t1] BY <3>1, <3>2
  <3> HIDE DEF t1, v1
  <3> QED BY <1>4, <1>5, <3>3, MxWithTable
 <2> QED BY <2>1, <2>2
<1>7. v2 = IF ok /\ s.by # "button" /\ v1.table.of # {} THEN [v1 EXCEPT !.rows = v1.table.base] ELSE v1
  BY DEF MxTaken, v0
<1>8. IF goes THEN \E t \in s.then : MxGoTo(v2, t.target, mxSaves \ {s})
              ELSE mxView' = v2 /\ mxSaves' = mxSaves \ {s} /\ UNCHANGED <<mxLoads, mxCounts>> BY <1>1
<1> HIDE DEF v1, v2
<1>9. /\ v2 \in MxViewSet /\ v2.kind = "cards" /\ v2.table = t1 /\ v2.current = mxView.current
      /\ v2.rows \in {v0.rows, t1.base} /\ v2.layout = v0.layout /\ v2.oldLayout = v0.oldLayout
 <2>1. CASE ok /\ s.by # "button" /\ v1.table.of # {}
  <3> DEFINE r == v1.table.base
  <3>1. v2 = [v1 EXCEPT !.rows = r] /\ r = t1.base BY <1>6, <1>7, <2>1
  <3>2. r \in MxRowSet BY <1>5, <1>6 DEF MxTableSet
  <3> HIDE DEF r, t1
  <3>3. v2 \in MxViewSet /\ v2.kind = v1.kind /\ v2.table = v1.table /\ v2.current = v1.current /\ v2.rows = r
        /\ v2.layout = v1.layout /\ v2.oldLayout = v1.oldLayout BY <1>6, <3>1, <3>2 DEF MxViewSet
  <3> QED BY <1>6, <3>1, <3>3
 <2>2. CASE ~(ok /\ s.by # "button" /\ v1.table.of # {}) BY <1>6, <1>7, <2>2
 <2> QED BY <2>1, <2>2
\* Unless an edit overtook it, a save was of the table that is shown, and leaves it without changes.
<1>10. ASSUME ~mxCounts.overtook
       PROVE  /\ MxTableOfCurrent /\ MxSavesOfShown /\ MxServerApart /\ t1.shown
              /\ ~ok => isDirty(t1) = isDirty(mxView.table)
              /\ ok => ~isDirty(t1)
              /\ t1.of = mxView.current /\ mxView.current = {t1.base.of} /\ t1.draft.of = t1.base.of
              /\ v2.rows.of = t1.base.of
              /\ s.by # "layout" => mxSaves \ {s} = {}
              /\ s.by = "layout" => ~isDirty(t1)
 <2>1. MxTableOfCurrent /\ MxSavesOfShown /\ MxServerApart BY <1>0, <1>10 DEF MxInv
 <2>2. mxView.table.shown /\ s.mine /\ s.to = mxView.current /\ s.to = {s.rows.of}
   BY <1>1, <2>1 DEF MxSavesOfShown
 <2>3. /\ mxView.table.of = mxView.current /\ mxView.current = {mxView.table.base.of}
       /\ mxView.table.draft.of = mxView.table.base.of /\ mxView.rows.of = mxView.table.base.of
   BY <2>1, <2>2 DEF MxTableOfCurrent
 <2>4. CASE s.by = "layout"
  <3>1. t1 = mxView.table /\ ~isDirty(mxView.table) BY <1>1, <2>1, <2>4 DEF MxSavesOfShown
  <3>2. v0.rows.of = t1.base.of BY <1>4, <2>2, <2>3, <3>1
  <3> QED BY <1>9, <2>1, <2>2, <2>3, <2>4, <3>1, <3>2
 <2>5. CASE s.by # "layout" /\ ok
  <3>1. t1 = MxTableSaved(mxView.table) BY <2>2, <2>5
  <3>2. ~isDirty(t1) /\ t1.shown /\ t1.of = mxView.table.of /\ t1.base = mxView.table.draft
    BY <1>0, <2>2, <3>1, MxTables
  <3>3. t1.draft = t1.base BY <3>2 DEF isDirty
  <3>4. v0.rows.of = t1.base.of BY <1>4, <2>2, <2>3, <2>5, <3>2
  <3> HIDE DEF t1
  <3>5. mxSaves \ {s} = {} BY <1>1, <2>1, <2>5 DEF MxSavesOfShown
  <3> QED BY <1>9, <2>1, <2>3, <2>5, <3>2, <3>3, <3>4, <3>5
 <2>6. CASE s.by # "layout" /\ ~ok
  <3>1. t1 = MxTableFailed(mxView.table) BY <2>2, <2>6
  <3>2. t1.shown /\ t1.of = mxView.table.of /\ t1.base = mxView.table.base /\ t1.draft = mxView.table.draft
    BY <1>0, <2>2, <3>1, MxTables
  <3>3. v0.rows.of = t1.base.of BY <1>4, <2>3, <2>6, <3>2
  <3> HIDE DEF t1
  <3>4. mxSaves \ {s} = {} BY <1>1, <2>1, <2>6 DEF MxSavesOfShown
  <3> QED BY <1>9, <2>1, <2>3, <2>6, <3>2, <3>3, <3>4 DEF isDirty
 <2> QED BY <2>4, <2>5, <2>6
<1>11. CASE goes
 <2>1. PICK t \in s.then : MxGoTo(v2, t.target, mxSaves \ {s}) BY <1>8, <1>11
 <2>2. ok /\ t.target \in SUBSET MxDatasets BY <1>3, <1>11, <2>1 DEF MxThenSet
 <2>3. ~mxCounts.overtook => ~isDirty(v2.table) BY <1>9, <1>10, <2>2
 <2> QED BY <1>0, <1>2, <1>3, <1>9, <2>1, <2>2, <2>3, MxKeptGoTo
<1>12. CASE ~goes
 <2>1. mxView' = v2 /\ mxSaves' = mxSaves \ {s} /\ UNCHANGED <<mxLoads, mxCounts>> BY <1>8, <1>12
 <2>2. MxShape' BY <1>0, <1>2, <1>3, <1>9, <2>1 DEF MxShape
 <2>3. ~MxPermissions' BY <1>9, <2>1 DEF MxPermissions
 <2>4. ASSUME ~mxCounts.overtook PROVE (MxTableOfCurrent /\ MxSavesOfShown /\ MxServerApart)'
  <3> HIDE DEF t1
  <3>1. MxTableOfCurrent' BY <1>5, <1>9, <1>10, <2>1, <2>4 DEF MxTableOfCurrent
  <3>2. MxSavesOfShown'
   <4>1. CASE s.by = "layout"
    <5>1. \A x \in mxSaves : x.by = "layout" BY <1>1, <1>10, <2>4, <4>1 DEF MxSavesOfShown
    <5> QED BY <1>9, <1>10, <2>1, <2>4, <4>1, <5>1 DEF MxSavesOfShown
   <4>2. CASE s.by # "layout" BY <1>10, <2>1, <2>4, <4>2 DEF MxSavesOfShown
   <4> QED BY <4>1, <4>2
  <3> QED BY <1>2, <1>10, <2>4, <3>1, <3>2 DEF MxServerApart
 <2> QED BY <2>1, <2>2, <2>3, <2>4 DEF MxInv
<1> QED BY <1>11, <1>12

\* A question is asked: nothing else changes.
LEMMA MxKeptQuestion ==
  ASSUME MxInv, MxPermissions, NEW sel \in SUBSET MxDatasets, NEW filter \in BOOLEAN,
         mxView' = handleUnsavedChanges(mxView, sel, filter), UNCHANGED <<mxServer, mxLoads, mxSaves, mxDrafts>>,
         mxCounts' \in [requests : Nat, edits : Nat, overtook : BOOLEAN]
  PROVE  MxInv'
<1> DEFINE c == [asked |-> TRUE, target |-> sel, filter |-> filter]
<1>1. mxView' = [mxView EXCEPT !.confirm = c] BY DEF handleUnsavedChanges
<1>2. c \in [asked : BOOLEAN, target : SUBSET MxDatasets, filter : BOOLEAN] OBVIOUS
<1> HIDE DEF c
<1>3. /\ mxView' \in MxViewSet /\ mxView'.kind = "permissions" /\ mxView'.table = mxView.table
      /\ mxView'.current = mxView.current BY <1>1, <1>2, MxTypeOfView DEF MxViewSet, MxPermissions
<1>4. MxShape' BY <1>3, MxTypeOfView DEF MxShape
<1>5. MxBuiltOnSelection' /\ ~MxCards' BY <1>3 DEF MxInv, MxBuiltOnSelection, MxCards
<1> QED BY <1>4, <1>5 DEF MxInv

LEMMA MxCheckStep == ASSUME MxInv, MxCheckDatasets PROVE MxInv'
<1>0. /\ MxPermissions /\ mxView \in MxViewSet /\ mxView.kind = "permissions" /\ UNCHANGED <<mxServer, mxLoads>>
      /\ MxBuiltOnSelection /\ MxEdited BY MxTypeOfView DEF MxCheckDatasets, MxPermissions, MxInv
<1>1. PICK sel \in (SUBSET MxDatasets) \ {mxView.current} :
          IF isDirty(mxView.table)
          THEN mxView' = handleUnsavedChanges(mxView, sel, FALSE) /\ UNCHANGED <<mxSaves, mxDrafts>>
          ELSE syncTables(mxView, sel) /\ mxSaves' = MxLeft(mxSaves) BY DEF MxCheckDatasets
<1>2. mxCounts' \in [requests : Nat, edits : Nat, overtook : BOOLEAN] BY <1>0, MxTypeOfView, MxCounted
<1>3. CASE isDirty(mxView.table)
 <2>1. mxView' = handleUnsavedChanges(mxView, sel, FALSE) /\ UNCHANGED <<mxSaves, mxDrafts>> BY <1>1, <1>3
 <2> QED BY <1>0, <1>2, <2>1, MxKeptQuestion
<1>4. CASE ~isDirty(mxView.table)
 <2> DEFINE t == [target |-> sel, filter |-> FALSE]
 <2>1. t \in MxThenSet /\ ~t.filter /\ t.target = sel BY DEF MxThenSet
 <2> HIDE DEF t
 <2>2. MxGoOn(mxView, t, mxSaves) BY <1>1, <1>4, <2>1 DEF MxGoOn
 <2> QED BY <1>0, <1>2, <2>1, <2>2, MxKeptGoOn
<1> QED BY <1>3, <1>4

LEMMA MxFilterStep == ASSUME MxInv, applySearchAndFilterChanges PROVE MxInv'
<1>0. /\ MxPermissions /\ mxView \in MxViewSet /\ mxView.kind = "permissions" /\ UNCHANGED <<mxServer, mxLoads, mxSaves>>
      /\ mxView.current \in SUBSET MxDatasets /\ MxBuiltOnSelection /\ MxEdited
      /\ IF isDirty(mxView.table)
         THEN mxView' = handleUnsavedChanges(mxView, mxView.current, TRUE) /\ UNCHANGED mxDrafts
         ELSE MxSetRows(mxView) BY MxTypeOfView DEF applySearchAndFilterChanges, MxPermissions, MxInv
<1>1. mxCounts' \in [requests : Nat, edits : Nat, overtook : BOOLEAN] BY <1>0, MxTypeOfView, MxCounted
<1>2. CASE isDirty(mxView.table)
 <2>1. mxView' = handleUnsavedChanges(mxView, mxView.current, TRUE) /\ UNCHANGED mxDrafts BY <1>0, <1>2
 <2> DEFINE sel == mxView.current
            b == TRUE
 <2>2. mxView' = handleUnsavedChanges(mxView, sel, b) /\ b \in BOOLEAN /\ sel \in SUBSET MxDatasets
   BY <1>0, <2>1
 <2> HIDE DEF sel, b
 <2> QED BY <1>0, <1>1, <2>1, <2>2, MxKeptQuestion
<1>3. CASE ~isDirty(mxView.table)
 <2> DEFINE t == [target |-> {}, filter |-> TRUE]
 <2>1. t \in MxThenSet /\ t.filter BY DEF MxThenSet
 <2> HIDE DEF t
 <2>2. MxGoOn(mxView, t, mxSaves) BY <1>0, <1>3, <2>1 DEF MxGoOn
 <2> QED BY <1>0, <1>1, <2>1, <2>2, MxKeptGoOn
<1> QED BY <1>2, <1>3

\* What the question about the permissions was asked for.
LEMMA MxAskedFor ==
  ASSUME MxInv
  PROVE  \E t \in MxThenSet : /\ t.filter = mxView.confirm.filter /\ t.target = mxView.confirm.target
                              /\ \A v, r : MxGoOn(v, mxView.confirm, r) => MxGoOn(v, t, r)
<1> DEFINE t == [target |-> mxView.confirm.target, filter |-> mxView.confirm.filter]
<1>1. t \in MxThenSet /\ t.filter = mxView.confirm.filter /\ t.target = mxView.confirm.target
  BY MxTypeOfView DEF MxThenSet, MxViewSet
<1> HIDE DEF t
<1>2. ASSUME NEW v, NEW r, MxGoOn(v, mxView.confirm, r) PROVE MxGoOn(v, t, r) BY <1>1, <1>2 DEF MxGoOn
<1> QED BY <1>1, <1>2

LEMMA MxPermissionsDiscardStep == ASSUME MxInv, MxPermissionsDiscard PROVE MxInv'
<1> DEFINE c == cancelChanges(MxAnswered.table)
           v == [MxAnswered EXCEPT !.table = c]
<1>0. MxPermissions /\ MxGoOn(v, mxView.confirm, mxSaves) /\ UNCHANGED <<mxServer, mxLoads, mxCounts>>
  BY DEF MxPermissionsDiscard
<1>1. MxSameTable(MxAnswered) BY MxTypeOfView, MxOnlyAnswered
<1>2. MxAnswered \in MxViewSet /\ MxAnswered.table \in MxTableSet /\ MxAnswered.table = mxView.table
      /\ MxAnswered.kind = "permissions" /\ MxAnswered.current = mxView.current
  BY <1>0, <1>1, MxTypeOfView DEF MxSameTable, MxPermissions
<1>3. c \in MxTableSet /\ c.of = mxView.table.of BY <1>2, MxTables
<1> HIDE DEF c
<1>4. v \in MxViewSet /\ v.kind = "permissions" /\ v.current = mxView.current /\ v.table.of = mxView.table.of
  BY <1>2, <1>3, MxWithTable
<1> HIDE DEF v
<1>5. PICK t \in MxThenSet : MxGoOn(v, t, mxSaves) BY <1>0, MxAskedFor
<1> QED BY <1>0, <1>4, <1>5, MxTypeOfView, MxKeptGoOn

LEMMA MxPermissionsConfirmStep == ASSUME MxInv, MxPermissionsConfirm PROVE MxInv'
<1>0. MxPermissions /\ UNCHANGED <<mxServer, mxLoads>> BY DEF MxPermissionsConfirm
<1>1. MxSameTable(MxAnswered) /\ MxThen \in SUBSET MxThenSet BY MxTypeOfView, MxOnlyAnswered
<1>2. /\ MxAnswered \in MxViewSet /\ MxAnswered.kind = "permissions" /\ MxAnswered.current = mxView.current
      /\ MxAnswered.table = mxView.table BY <1>0, <1>1 DEF MxSameTable, MxPermissions
<1>3. CASE mxView.table.saving \/ ~isDirty(mxView.table)
 <2>1. MxGoOn(MxAnswered, mxView.confirm, mxSaves) /\ UNCHANGED mxCounts BY <1>3 DEF MxPermissionsConfirm
 <2>2. PICK t \in MxThenSet : MxGoOn(MxAnswered, t, mxSaves) BY <2>1, MxAskedFor
 <2> QED BY <1>0, <1>2, <2>1, <2>2, MxTypeOfView, MxKeptGoOn
<1>4. CASE ~mxView.table.saving /\ isDirty(mxView.table)
 <2>1. saveChanges(MxAnswered, "view", MxThen) /\ UNCHANGED mxDrafts BY <1>4 DEF MxPermissionsConfirm
 <2> QED BY <1>0, <1>1, <1>2, <1>4, <2>1, MxKeptSave
<1> QED BY <1>3, <1>4

LEMMA MxPermissionsSavedStep == ASSUME MxInv, MxPermissionsSaved PROVE MxInv'
<1>0. /\ MxPermissions /\ UNCHANGED <<mxServer, mxLoads, mxCounts>> /\ mxView \in MxViewSet
      /\ mxView.kind = "permissions" /\ mxView.table \in MxTableSet /\ mxSaves \in SUBSET MxSaveSet /\ MxShape
      /\ MxBuiltOnSelection BY MxTypeOfView DEF MxPermissionsSaved, MxPermissions, MxInv
<1>1. PICK s \in mxSaves, ok \in BOOLEAN :
        IF ok /\ s.then # {} THEN \E t \in s.then : MxGoOn(MxRead(s, ok), t, mxSaves \ {s})
        ELSE /\ mxView' = MxRead(s, ok) /\ mxSaves' = mxSaves \ {s}
             /\ mxDrafts' = IF ok THEN MxForget(s.to) ELSE mxDrafts BY DEF MxPermissionsSaved
<1> DEFINE p == [d \in MxDatasets |-> mxServer[d].rows.val]
           v0 == IF ok THEN [mxView EXCEPT !.perms = p] ELSE mxView
           t1 == IF ~s.mine THEN mxView.table
                 ELSE IF ok THEN MxTableSaved(mxView.table) ELSE MxTableFailed(mxView.table)
           v1 == MxRead(s, ok)
<1>2. p \in [MxDatasets -> 0..2]
 <2>1. ASSUME NEW d \in MxDatasets PROVE mxServer[d].rows.val \in 0..2
  <3>1. mxServer[d] \in [rows : MxRowSet, layout : 0..1] BY <1>0 DEF MxShape
  <3>2. mxServer[d].rows \in MxRowSet BY <3>1
  <3> QED BY <3>2 DEF MxRowSet
 <2> QED BY <2>1
<1>3. v0 \in MxViewSet /\ v0.kind = "permissions" /\ v0.table = mxView.table /\ v0.current = mxView.current
 <2> HIDE DEF p
 <2> QED BY <1>0, <1>2 DEF MxViewSet
<1>4. v1 = IF ~s.mine THEN v0
           ELSE [v0 EXCEPT !.table = IF ok THEN MxTableSaved(v0.table) ELSE MxTableFailed(v0.table)]
  BY DEF MxRead
<1> HIDE DEF p, v0, v1
<1>5. t1 \in MxTableSet /\ t1.of = mxView.table.of BY <1>0, MxTables
<1>6. v1 \in MxViewSet /\ v1.kind = "permissions" /\ v1.current = mxView.current /\ v1.table = t1
 <2>1. CASE ~s.mine BY <1>3, <1>4, <2>1
 <2>2. CASE s.mine
  <3>1. t1 = IF ok THEN MxTableSaved(v0.table) ELSE MxTableFailed(v0.table) BY <1>3, <2>2
  <3>2. v1 = [v0 EXCEPT !.table = t1] BY <1>4, <2>2, <3>1
  <3> HIDE DEF t1
  <3> QED BY <1>3, <1>5, <3>2, MxWithTable
 <2> QED BY <2>1, <2>2
<1> HIDE DEF t1
<1>7. CASE ok /\ s.then # {}
 <2>1. PICK t \in s.then : MxGoOn(v1, t, mxSaves \ {s}) BY <1>1, <1>7 DEF v1
 <2>2. t \in MxThenSet BY <1>0, <2>1 DEF MxSaveSet
 <2> QED BY <1>0, <1>5, <1>6, <2>1, <2>2, MxTypeOfView, MxKeptGoOn
<1>8. CASE ~(ok /\ s.then # {})
 <2>1. mxView' = v1 /\ mxSaves' = mxSaves \ {s} /\ mxDrafts' = IF ok THEN MxForget(s.to) ELSE mxDrafts
   BY <1>1, <1>8 DEF v1
 <2>2. mxDrafts' \in [MxKeys -> 0..2] BY <1>0, <2>1, MxTypeOfView, MxDraftsTyped
 <2>3. MxShape' BY <1>0, <1>6, <2>1, <2>2 DEF MxShape
 <2>4. MxBuiltOnSelection' /\ ~MxCards' BY <1>0, <1>5, <1>6, <2>1 DEF MxBuiltOnSelection, MxCards
 <2> QED BY <2>3, <2>4 DEF MxInv
<1> QED BY <1>7, <1>8

\* A view that is opened, of the cards or of the permissions.
LEMMA MxOpened ==
  ASSUME NEW kind \in {"cards", "permissions"}
  PROVE  /\ MxView(kind) \in MxViewSet /\ MxView(kind).kind = kind /\ MxView(kind).table = NoTable
         /\ MxView(kind).current = {} /\ MxView(kind).layout = 0 /\ MxView(kind).oldLayout = 0
         /\ NoTable.of = {} /\ ~NoTable.shown /\ ~isDirty(NoTable)
<1>1. NoTable \in MxTableSet /\ NoRows \in MxRowSet /\ ~isDirty(NoTable) /\ NoTable.of = {} /\ ~NoTable.shown
  BY DEF NoTable, NoRows, Rows, MxNone, MxTableSet, MxRowSet, isDirty
<1>2. NoConfirm \in [asked : BOOLEAN, target : SUBSET MxDatasets, filter : BOOLEAN] BY DEF NoConfirm
<1> QED BY <1>1, <1>2 DEF MxView, MxViewSet

LEMMA MxReopenStep == ASSUME MxInv, MxReopen PROVE MxInv'
<1> DEFINE p == [d \in MxDatasets |-> mxServer[d].rows.val]
           v == MxView(mxView.kind)
<1>0. /\ mxLoads = {} /\ mxSaves = {} /\ mxView' = [v EXCEPT !.perms = p]
      /\ UNCHANGED <<mxServer, mxLoads, mxSaves, mxDrafts, mxCounts>>
      /\ MxShape /\ mxView.kind \in {"cards", "permissions"} BY MxTypeOfView DEF MxReopen, MxViewSet
<1>1. p \in [MxDatasets -> 0..2]
 <2>1. ASSUME NEW d \in MxDatasets PROVE mxServer[d].rows.val \in 0..2
  <3>1. mxServer[d] \in [rows : MxRowSet, layout : 0..1] BY <1>0 DEF MxShape
  <3>2. mxServer[d].rows \in MxRowSet BY <3>1
  <3> QED BY <3>2 DEF MxRowSet
 <2> QED BY <2>1
<1>2. /\ v \in MxViewSet /\ v.kind = mxView.kind /\ v.table = NoTable
      /\ v.current = {} /\ v.layout = 0 /\ v.oldLayout = 0
      /\ NoTable.of = {} /\ ~NoTable.shown /\ ~isDirty(NoTable) BY <1>0, MxOpened
<1> HIDE DEF p, v
<1>3. /\ mxView' \in MxViewSet /\ mxView'.kind = mxView.kind /\ mxView'.table = NoTable
      /\ mxView'.current = {} /\ mxView'.layout = 0 /\ mxView'.oldLayout = 0 BY <1>0, <1>1, <1>2 DEF MxViewSet
<1>4. MxShape' BY <1>0, <1>3 DEF MxShape
<1>5. MxBuiltOnSelection' BY <1>0, <1>2, <1>3 DEF MxBuiltOnSelection
<1>6. MxCards' /\ ~mxCounts'.overtook => (MxTableOfCurrent /\ MxSavesOfShown /\ MxServerApart)'
  BY <1>0, <1>2, <1>3 DEF MxInv, MxCards, MxTableOfCurrent, MxSavesOfShown, MxServerApart, isLayoutDirty
<1> QED BY <1>4, <1>5, <1>6 DEF MxInv

LEMMA MxStarts == MxInit => MxInv
<1> SUFFICES ASSUME MxInit PROVE MxInv OBVIOUS
<1>1. PICK kind \in {"cards", "permissions"} : mxView = MxView(kind) BY DEF MxInit
<1>2. /\ mxLoads = {} /\ mxSaves = {} /\ mxDrafts = [k \in MxKeys |-> 2]
      /\ mxServer = [d \in MxDatasets |-> [rows |-> Rows(d, 0), layout |-> 0]]
      /\ mxCounts = [requests |-> 0, edits |-> 0, overtook |-> FALSE] BY DEF MxInit
<1>3. \A d \in MxDatasets : /\ [rows |-> Rows(d, 0), layout |-> 0] \in [rows : MxRowSet, layout : 0..1]
                            /\ [rows |-> Rows(d, 0), layout |-> 0].rows.of = d
  BY DEF MxDatasets, Rows, MxRowSet
<1>4. /\ mxView \in MxViewSet /\ mxView.table = NoTable /\ mxView.current = {} /\ mxView.layout = mxView.oldLayout
      /\ NoTable.of = {} /\ ~NoTable.shown /\ ~isDirty(NoTable) BY <1>1, MxOpened
<1>5. MxShape BY <1>2, <1>3, <1>4 DEF MxShape
<1>6. MxBuiltOnSelection BY <1>2, <1>4 DEF MxBuiltOnSelection
<1>7. MxTableOfCurrent /\ MxSavesOfShown /\ MxServerApart
  BY <1>2, <1>3, <1>4 DEF MxTableOfCurrent, MxSavesOfShown, MxServerApart, isLayoutDirty
<1> QED BY <1>5, <1>6, <1>7 DEF MxInv

LEMMA MxStep == MxInv /\ [MxNext]_mxVars => MxInv'
<1> SUFFICES ASSUME MxInv, [MxNext]_mxVars PROVE MxInv' OBVIOUS
<1>1. CASE UNCHANGED mxVars
  BY <1>1 DEF mxVars, MxInv, MxShape, MxPermissions, MxCards, MxBuiltOnSelection, MxTableOfCurrent, MxSavesOfShown,
              MxServerApart, isLayoutDirty
<1>2. MxLoadAnswer => MxCards
  BY DEF MxLoadAnswer, MxInv, MxBuiltOnSelection, MxCards, MxPermissions, MxShape, MxViewSet
<1>3. CASE MxNext
  BY <1>2, <1>3, MxCellStep, MxEditModeStep, MxCancelStep, MxSaveButtonStep, MxStoredStep, MxSelectStep, MxDiscardStep,
     MxConfirmStep, MxLayoutSaveStep, MxLayoutChangeStep, MxLoadStep, MxSaveAnswerStep, MxCheckStep, MxFilterStep,
     MxPermissionsDiscardStep, MxPermissionsConfirmStep, MxPermissionsSavedStep, MxReopenStep DEF MxNext
<1> QED BY <1>1, <1>3

MxSpec == MxInit /\ [][MxNext]_mxVars

\* For any number of edits, loads and saves: a table of permissions saves only to the datasets it was built for, and
\* one of the cards only the rows it shows, to their dataset, unless a cell was changed or the dataset was left while
\* a save was under way (vanilla_checkbox_table.js, card_visibility_view.js, permission_editor.js).
THEOREM MxSavesWhereShown == MxSpec => []MxSavedWhereShown
<1>1. MxInv => MxSavedWhereShown
 <2>1. MxInv /\ MxPermissions => \A s \in mxSaves : s.mine => s.to = mxView.table.of
   BY DEF MxInv, MxBuiltOnSelection
 <2>2. ASSUME MxInv, MxCards, ~mxCounts.overtook
       PROVE  \A s \in mxSaves : s.to = {s.rows.of} /\ (s.mine => s.to = mxView.table.of)
   BY <2>2 DEF MxInv, MxTableOfCurrent, MxSavesOfShown
 <2> QED BY <2>1, <2>2 DEF MxSavedWhereShown
<1> QED BY <1>1, MxStarts, MxStep, PTL DEF MxSpec
-----------------------------------------------------------------------------
(* Grid: an edit is saved to the row it was made on, and a cell shows the value of its row object. *)

\* The batches that come to be rendered: the first page as it came or sorted, or with the next batch.
GrBatchSets == {<<<<1, 2>>>>, <<<<2, 1>>>>, <<<<1, 2>>, <<3>>>>}
GrViewSet == [kind : {"table", "list"}, batches : GrBatchSets, text : [GrRows -> GrValues], obj : [GrRows -> GrValues],
              marked : SUBSET (1..3), from : 0..2, menu : BOOLEAN]
GrSentSet == [row : GrRows, value : GrValues, text : GrValues, shown : GrRows, live : BOOLEAN, pc : {"sent", "stored"}]

GrShape ==
  /\ grView \in GrViewSet /\ grView.marked \subseteq GrPositions(grView)
  /\ grView.kind = "table" => grView.batches # <<<<2, 1>>>>
  /\ grView.kind = "list" => grView.batches # <<<<1, 2>>, <<3>>>>
  /\ grSent \in SUBSET GrSentSet
  /\ grServer \in [GrRows -> GrValues]
  /\ grCounts \in [edits : Nat, renders : Nat, overlapped : SUBSET GrRows]

\* The editor is on a rendered cell, and the array and index it was given lead to the row of that cell.
GrEditorOnItsRow ==
  /\ grEdit \in [open : BOOLEAN, pos : 0..3, array : {<<>>, <<1, 2>>, <<2, 1>>, <<3>>}, index : 0..2,
                 old : GrValues, text : GrValues]
  /\ grEdit.open => grEdit.pos \in GrPositions(grView) /\ GrEditedRow = GrShownRow(grView, grEdit.pos)

\* An update is of the row it is shown in, which is rendered while its cell lives.
GrSentToItsRow ==
  \A s \in grSent : s.row = s.shown /\ (s.live /\ s.row = 3 => Len(grView.batches) = 2)

\* A row whose edits did not overlap has one update or an open editor, never both; the cell shows what is on its
\* way, which can still be put back, or else what its row object has.
GrOneEdit(r) ==
  /\ grEdit.open /\ GrEditedRow = r =>
       /\ \A s \in grSent : s.row # r
       /\ grEdit.old = grView.obj[r] /\ grEdit.text = grView.text[r]
  /\ \A s, t \in grSent : s.row = r /\ t.row = r => s = t
  /\ \A s \in grSent : s.row = r /\ s.live => grView.text[r] = s.value /\ s.text = grView.obj[r]
  /\ grView.text[r] = grView.obj[r] \/ \E s \in grSent : s.row = r /\ s.live

GrInv ==
  /\ GrShape /\ GrEditorOnItsRow /\ GrSentToItsRow
  /\ \A r \in GrRows \ grCounts.overlapped : GrOneEdit(r)

\* Where the rows are: the first batch has two, the next one the third; an index leads to the row that is shown.
LEMMA GrLook ==
  ASSUME NEW v, v.batches \in GrBatchSets
  PROVE  /\ v.batches = <<<<1, 2>>, <<3>>>> => Len(v.batches) = 2 /\ GrPositions(v) = 1..3
         /\ v.batches # <<<<1, 2>>, <<3>>>> => Len(v.batches) = 1 /\ GrPositions(v) = 1..2
         /\ v.batches[1] \in {<<1, 2>>, <<2, 1>>} /\ Len(v.batches[1]) = 2
         /\ \A p \in GrPositions(v) :
              /\ GrIndex(v, p) = (IF p = 3 THEN 1 ELSE p) /\ GrIndex(v, p) \in 1..2
              /\ GrArray(v, p) = (IF p = 3 THEN <<3>> ELSE v.batches[1])
              /\ GrIndex(v, p) \in DOMAIN GrArray(v, p)
              /\ GrShownRow(v, p) = GrArray(v, p)[GrIndex(v, p)]
              /\ GrShownRow(v, p) = (IF p = 3 THEN 3 ELSE v.batches[1][p])
              /\ GrShownRow(v, p) \in GrRows /\ (p # 3 => GrShownRow(v, p) \in 1..2)
<1> DEFINE b == v.batches
<1>1. b \in GrBatchSets /\ b[1] \in {<<1, 2>>, <<2, 1>>} /\ Len(b[1]) = 2
      /\ (b = <<<<1, 2>>, <<3>>>> => Len(b) = 2 /\ b[2] = <<3>> /\ Len(b[2]) = 1 /\ b[1] = <<1, 2>>)
      /\ (b # <<<<1, 2>>, <<3>>>> => Len(b) = 1) BY DEF GrBatchSets
<1>2. GrDom(v) = [p \in 1..(Len(b[1]) + IF Len(b) = 2 THEN Len(b[2]) ELSE 0) |->
                    IF p <= Len(b[1]) THEN [batch |-> 1, index |-> p] ELSE [batch |-> 2, index |-> p - Len(b[1])]]
  BY DEF GrDom
<1> HIDE DEF b
<1>3. CASE b = <<<<1, 2>>, <<3>>>>
 <2>1. GrDom(v) = [p \in 1..3 |-> IF p <= 2 THEN [batch |-> 1, index |-> p] ELSE [batch |-> 2, index |-> p - 2]]
   BY <1>1, <1>2, <1>3
 <2>2. GrPositions(v) = 1..3 BY <2>1 DEF GrPositions
 <2>3. \A p \in 1..3 : GrDom(v)[p].batch = (IF p = 3 THEN 2 ELSE 1) /\ GrDom(v)[p].index = (IF p = 3 THEN 1 ELSE p)
   BY <2>1
 <2>4. \A p \in 1..3 : GrIndex(v, p) = (IF p = 3 THEN 1 ELSE p) /\ GrArray(v, p) = (IF p = 3 THEN <<3>> ELSE b[1])
   BY <1>1, <1>3, <2>3 DEF GrIndex, GrArray, b
 <2>5. \A p \in 1..3 : GrShownRow(v, p) = GrArray(v, p)[GrIndex(v, p)] BY DEF GrShownRow, GrArray
 <2>6. \A p \in 1..3 : GrShownRow(v, p) = (IF p = 3 THEN 3 ELSE b[1][p]) /\ GrIndex(v, p) \in DOMAIN GrArray(v, p)
   BY <1>1, <1>3, <2>4, <2>5
 <2> QED BY <1>1, <1>3, <2>2, <2>4, <2>5, <2>6 DEF b, GrRows
<1>4. CASE b # <<<<1, 2>>, <<3>>>>
 <2>1. Len(b[1]) + (IF Len(b) = 2 THEN Len(b[2]) ELSE 0) = 2 /\ Len(b[1]) = 2 BY <1>1, <1>4
 <2>2. GrPositions(v) = 1..2 BY <1>2, <2>1 DEF GrPositions
 <2>3. \A p \in 1..2 : GrDom(v)[p].batch = 1 /\ GrDom(v)[p].index = p BY <1>2, <2>1
 <2>4. \A p \in 1..2 : GrIndex(v, p) = p /\ GrArray(v, p) = b[1] BY <2>3 DEF GrIndex, GrArray, b
 <2>5. \A p \in 1..2 : GrShownRow(v, p) = GrArray(v, p)[GrIndex(v, p)] BY DEF GrShownRow, GrArray
 <2>6. \A p \in 1..2 : GrShownRow(v, p) = b[1][p] /\ GrIndex(v, p) \in DOMAIN GrArray(v, p) /\ b[1][p] \in 1..2
   BY <1>1, <2>4, <2>5
 <2> QED BY <1>1, <1>4, <2>2, <2>4, <2>5, <2>6 DEF b, GrRows
<1> QED BY <1>3, <1>4

\* The first row with an index is of the first batch.
LEMMA GrFirst ==
  ASSUME NEW v, v.batches \in GrBatchSets, NEW i \in 1..2
  PROVE  GrFirstAt(v, i) = i /\ i \in GrPositions(v)
<1> DEFINE P(p) == p \in GrPositions(v) /\ GrIndex(v, p) = i
                   /\ \A q \in GrPositions(v) : GrIndex(v, q) = i => p <= q
<1>1. P(i) BY GrLook
<1>2. \A p : P(p) => p = i
 <2>1. ASSUME NEW p, P(p) PROVE p = i
  <3>1. p \in GrPositions(v) /\ GrPositions(v) \in {1..2, 1..3} /\ p <= i BY <1>1, <2>1, GrLook
  <3>2. GrIndex(v, p) = i BY <2>1
  <3> HIDE DEF P
  <3>3. GrIndex(v, p) = IF p = 3 THEN 1 ELSE p BY <3>1, GrLook
  <3> QED BY <3>1, <3>2, <3>3
 <2> QED BY <2>1
<1>3. GrFirstAt(v, i) = CHOOSE p \in GrPositions(v) : P(p) BY DEF GrFirstAt
<1> HIDE DEF P
<1>4. i \in GrPositions(v) BY GrLook
<1> QED BY <1>1, <1>2, <1>3, <1>4

LEMMA GrRange ==
  ASSUME NEW v, v.batches \in GrBatchSets, NEW i, NEW j
  PROVE  highlightRange(v, i, j) \in SUBSET (1..3) /\ highlightRange(v, i, j) \subseteq GrPositions(v)
<1>1. Len(v.batches[1]) = 2 /\ GrPositions(v) \subseteq 1..3 BY GrLook
<1>2. \A k \in 1..2 : GrFirstAt(v, k) \in GrPositions(v) BY GrFirst
<1> QED BY <1>1, <1>2 DEF highlightRange

LEMMA GrTyped ==
  ASSUME GrInv
  PROVE  /\ GrShape /\ grView \in GrViewSet /\ grView.batches \in GrBatchSets /\ GrPositions(grView) \subseteq 1..3
         /\ grSent \in SUBSET GrSentSet
         /\ grEdit.open => /\ grEdit.pos \in GrPositions(grView) /\ GrEditedRow = GrShownRow(grView, grEdit.pos)
                           /\ GrEditedRow \in GrRows /\ grEdit.old \in GrValues /\ grEdit.text \in GrValues
                           /\ (Len(grView.batches) # 2 => GrEditedRow # 3)
<1>1. GrShape /\ grView \in GrViewSet /\ grView.batches \in GrBatchSets /\ grSent \in SUBSET GrSentSet
  BY DEF GrInv, GrShape, GrViewSet
<1>2. GrPositions(grView) \in {1..2, 1..3} BY <1>1, GrLook
<1>3. ASSUME grEdit.open
      PROVE  /\ grEdit.pos \in GrPositions(grView) /\ GrEditedRow = GrShownRow(grView, grEdit.pos)
             /\ GrEditedRow \in GrRows /\ grEdit.old \in GrValues /\ grEdit.text \in GrValues
             /\ (Len(grView.batches) # 2 => GrEditedRow # 3)
 <2>1. grEdit.pos \in GrPositions(grView) /\ GrEditedRow = GrShownRow(grView, grEdit.pos)
       /\ grEdit.old \in GrValues /\ grEdit.text \in GrValues BY <1>3 DEF GrInv, GrEditorOnItsRow
 <2>2. GrEditedRow \in GrRows /\ (grEdit.pos # 3 => GrEditedRow \in 1..2) BY <1>1, <2>1, GrLook
 <2>3. Len(grView.batches) # 2 => grEdit.pos # 3 BY <1>1, <2>1, GrLook
 <2> QED BY <2>1, <2>2, <2>3
<1> QED BY <1>1, <1>2, <1>3

\* What is rendered hangs on the batches alone.
LEMMA GrSameLook ==
  ASSUME NEW v, NEW w, w.batches = v.batches
  PROVE  GrPositions(w) = GrPositions(v) /\ \A p : GrShownRow(w, p) = GrShownRow(v, p)
<1>1. GrDom(w) = GrDom(v) BY DEF GrDom
<1> QED BY <1>1 DEF GrPositions, GrShownRow, GrIndex

\* Only what is marked, or the menu, changed.
LEMMA GrKeptMarks ==
  ASSUME GrInv, grView' \in GrViewSet, grView'.marked \subseteq GrPositions(grView), grView'.kind = grView.kind,
         grView'.batches = grView.batches, grView'.text = grView.text, grView'.obj = grView.obj,
         UNCHANGED <<grEdit, grSent, grServer, grCounts>>
  PROVE  GrInv'
<1>0. GrPositions(grView') = GrPositions(grView) /\ \A p : GrShownRow(grView', p) = GrShownRow(grView, p)
  BY GrSameLook
<1>1. GrShape' BY <1>0 DEF GrInv, GrShape
<1>2. GrEditorOnItsRow' BY <1>0 DEF GrInv, GrEditorOnItsRow, GrEditedRow
<1>3. GrSentToItsRow' BY DEF GrInv, GrSentToItsRow
<1>4. \A r \in GrRows \ grCounts'.overlapped : GrOneEdit(r)' BY DEF GrInv, GrOneEdit, GrEditedRow
<1> QED BY <1>1, <1>2, <1>3, <1>4 DEF GrInv

LEMMA GrMouseDownStep == ASSUME GrInv, NEW p \in GrPositions(grView), onMouseDown(p) PROVE GrInv'
<1> DEFINE i == GrIndex(grView, p)
           m == highlightRange(grView, i, i)
<1>1. grView' = [grView EXCEPT !.from = i, !.menu = FALSE, !.marked = m] /\ UNCHANGED <<grEdit, grSent, grServer, grCounts>>
  BY DEF onMouseDown
<1>2. m \in SUBSET (1..3) /\ m \subseteq GrPositions(grView) /\ i \in 0..2
 <2>1. i \in 1..2 BY GrTyped, GrLook
 <2> QED BY <2>1, GrTyped, GrRange
<1> HIDE DEF i, m
<1> QED BY <1>1, <1>2, GrTyped, GrKeptMarks DEF GrViewSet

LEMMA GrMouseMoveStep == ASSUME GrInv, NEW p \in GrPositions(grView), onMouseMove(p) PROVE GrInv'
<1> DEFINE m == highlightRange(grView, grView.from, GrIndex(grView, p))
<1>1. grView' = [grView EXCEPT !.marked = m] /\ UNCHANGED <<grEdit, grSent, grServer, grCounts>>
  BY DEF onMouseMove
<1>2. m \in SUBSET (1..3) /\ m \subseteq GrPositions(grView) BY GrTyped, GrRange
<1> HIDE DEF m
<1> QED BY <1>1, <1>2, GrTyped, GrKeptMarks DEF GrViewSet

LEMMA GrMarksStep ==
  ASSUME GrInv, onMouseUp \/ handleKeyDown \/ onContextMenu \/ copySelected
  PROVE  GrInv'
<1>1. CASE onMouseUp
 <2>1. /\ grView' = [grView EXCEPT !.from = 0] /\ grView \in GrViewSet
       /\ grView.marked \subseteq GrPositions(grView) /\ UNCHANGED <<grEdit, grSent, grServer, grCounts>>
   BY <1>1, GrTyped DEF onMouseUp, GrShape
 <2>2. /\ grView' \in GrViewSet /\ grView'.marked = grView.marked /\ grView'.kind = grView.kind
       /\ grView'.batches = grView.batches /\ grView'.text = grView.text /\ grView'.obj = grView.obj
   BY <2>1 DEF GrViewSet
 <2> QED BY <2>1, <2>2, GrKeptMarks
<1>2. CASE onContextMenu
 <2>1. /\ grView' = [grView EXCEPT !.menu = TRUE] /\ grView \in GrViewSet
       /\ grView.marked \subseteq GrPositions(grView) /\ UNCHANGED <<grEdit, grSent, grServer, grCounts>>
   BY <1>2, GrTyped DEF onContextMenu, GrShape
 <2>2. /\ grView' \in GrViewSet /\ grView'.marked = grView.marked /\ grView'.kind = grView.kind
       /\ grView'.batches = grView.batches /\ grView'.text = grView.text /\ grView'.obj = grView.obj
   BY <2>1 DEF GrViewSet
 <2> QED BY <2>1, <2>2, GrKeptMarks
<1>3. CASE copySelected
 <2>1. /\ grView' = [grView EXCEPT !.menu = FALSE] /\ grView \in GrViewSet
       /\ grView.marked \subseteq GrPositions(grView) /\ UNCHANGED <<grEdit, grSent, grServer, grCounts>>
   BY <1>3, GrTyped DEF copySelected, GrShape
 <2>2. /\ grView' \in GrViewSet /\ grView'.marked = grView.marked /\ grView'.kind = grView.kind
       /\ grView'.batches = grView.batches /\ grView'.text = grView.text /\ grView'.obj = grView.obj
   BY <2>1 DEF GrViewSet
 <2> QED BY <2>1, <2>2, GrKeptMarks
<1>4. CASE handleKeyDown
 <2>1. PICK p \in grView.marked, d \in {-1, 1} :
         /\ \E q \in GrPositions(grView) : GrIndex(grView, q) = GrIndex(grView, p) + d
         /\ grView' = [grView EXCEPT !.marked = {GrFirstAt(grView, GrIndex(grView, p) + d)}]
   BY <1>4 DEF handleKeyDown
 <2> DEFINE i == GrIndex(grView, p) + d
            m == {GrFirstAt(grView, i)}
 <2>2. i \in 1..2 BY <2>1, GrTyped, GrLook
 <2>3. m \in SUBSET (1..3) /\ m \subseteq GrPositions(grView)
  <3> HIDE DEF i
  <3> QED BY <2>2, GrTyped, GrFirst
 <2>4. grView' = [grView EXCEPT !.marked = m] /\ UNCHANGED <<grEdit, grSent, grServer, grCounts>>
   BY <1>4, <2>1 DEF handleKeyDown
 <2> HIDE DEF i, m
 <2> QED BY <2>3, <2>4, GrTyped, GrKeptMarks DEF GrViewSet
<1> QED BY <1>1, <1>2, <1>3, <1>4

LEMMA GrEditStep == ASSUME GrInv, NEW p \in GrPositions(grView), editCell(p) PROVE GrInv'
<1> DEFINE a == GrArray(grView, p)
           i == GrIndex(grView, p)
           e == GrShownRow(grView, p)
           o == grView.obj[a[i]]
           x == grView.text[e]
<1>0. /\ i \in 1..2 /\ a \in {<<1, 2>>, <<2, 1>>, <<3>>} /\ a[i] = e /\ e \in GrRows
      /\ o \in GrValues /\ x \in GrValues /\ o = grView.obj[e]
 <2>1. i \in 1..2 /\ a \in {<<1, 2>>, <<2, 1>>, <<3>>} /\ a[i] = e /\ e \in GrRows BY GrTyped, GrLook
 <2> HIDE DEF a, i, e
 <2> QED BY <2>1, GrTyped DEF GrViewSet
<1>1. /\ ~grEdit.open
      /\ grEdit' = [open |-> TRUE, pos |-> p, array |-> a, index |-> i, old |-> o, text |-> x]
      /\ grCounts' = IF \E s \in grSent : s.row = a[i]
                     THEN [grCounts EXCEPT !.overlapped = grCounts.overlapped \cup {a[i]}] ELSE grCounts
      /\ grView' = [grView EXCEPT !.marked = {}, !.menu = FALSE] /\ UNCHANGED <<grSent, grServer>>
  BY DEF editCell
<1>p. p \in 0..3 BY GrTyped
<1> HIDE DEF a, i, e, o, x
<1>2. /\ grEdit'.open /\ grEdit'.pos = p /\ GrEditedRow' = e /\ grEdit'.old = o /\ grEdit'.text = x
      /\ grEdit' \in [open : BOOLEAN, pos : 0..3, array : {<<>>, <<1, 2>>, <<2, 1>>, <<3>>}, index : 0..2,
                      old : GrValues, text : GrValues] BY <1>0, <1>1, <1>p DEF GrEditedRow
<1>3. /\ grView' \in GrViewSet /\ grView'.marked = {} /\ grView'.kind = grView.kind
      /\ grView'.batches = grView.batches /\ grView'.text = grView.text /\ grView'.obj = grView.obj
  BY <1>1, GrTyped DEF GrViewSet
<1>4. GrPositions(grView') = GrPositions(grView) /\ \A q : GrShownRow(grView', q) = GrShownRow(grView, q)
  BY <1>3, GrSameLook
<1>5. /\ grCounts' \in [edits : Nat, renders : Nat, overlapped : SUBSET GrRows]
      /\ grCounts'.overlapped = grCounts.overlapped \cup {r \in {e} : \E s \in grSent : s.row = e}
 <2>1. grCounts \in [edits : Nat, renders : Nat, overlapped : SUBSET GrRows] BY GrTyped DEF GrShape
 <2> DEFINE n == grCounts.overlapped \cup {e}
 <2>2. n \in SUBSET GrRows BY <1>0, <2>1
 <2>3. CASE \E s \in grSent : s.row = e
  <3>1. grCounts' = [grCounts EXCEPT !.overlapped = n] BY <1>0, <1>1, <2>3
  <3> HIDE DEF n
  <3>2. grCounts' \in [edits : Nat, renders : Nat, overlapped : SUBSET GrRows] /\ grCounts'.overlapped = n
    BY <2>1, <2>2, <3>1
  <3> QED BY <2>3, <3>2 DEF n
 <2>4. CASE ~\E s \in grSent : s.row = e BY <1>0, <1>1, <2>1, <2>4
 <2> QED BY <2>3, <2>4
<1>6. GrShape' BY <1>1, <1>3, <1>4, <1>5, GrTyped DEF GrShape
<1>7. GrEditorOnItsRow' BY <1>2, <1>4 DEF GrEditorOnItsRow, e
<1>8. GrSentToItsRow' BY <1>1, <1>3 DEF GrInv, GrSentToItsRow
<1>9. ASSUME NEW r \in GrRows \ grCounts'.overlapped PROVE GrOneEdit(r)'
 <2>1. GrOneEdit(r) /\ (r = e => \A s \in grSent : s.row # r) BY <1>5, <1>9 DEF GrInv
 <2>2. r = e => o = grView.obj[r] /\ x = grView.text[r] BY <1>0 DEF x
 <2> QED BY <1>1, <1>2, <1>3, <2>1, <2>2 DEF GrOneEdit
<1> QED BY <1>6, <1>7, <1>8, <1>9 DEF GrInv

\* With the editor closed, a row that had it has what it had before, or what was typed.
LEMMA GrBlurStep == ASSUME GrInv, GrBlur PROVE GrInv'
<1> DEFINE e == GrEditedRow
<1>0. /\ grEdit.open /\ grEdit' = NoEditor /\ UNCHANGED grServer
      /\ grEdit.pos \in GrPositions(grView) /\ e = GrShownRow(grView, grEdit.pos) /\ e \in GrRows
      /\ grEdit.old \in GrValues /\ grEdit.text \in GrValues /\ (Len(grView.batches) # 2 => e # 3)
  BY GrTyped DEF GrBlur
<1>1. PICK value \in GrValues :
        GrCommit(value, [grView EXCEPT !.text[GrShownRow(grView, grEdit.pos)] = value], TRUE) BY DEF GrBlur
<1> HIDE DEF e
<1> DEFINE txt == [grView.text EXCEPT ![e] = value]
           shown == [grView EXCEPT !.text[GrShownRow(grView, grEdit.pos)] = value]
<1>2. txt \in [GrRows -> GrValues] /\ txt[e] = value /\ \A r \in GrRows \ {e} : txt[r] = grView.text[r]
  BY <1>0, GrTyped DEF GrViewSet
<1>3. shown = [grView EXCEPT !.text = txt] BY <1>0, GrTyped DEF GrViewSet
<1>4. /\ shown \in GrViewSet /\ shown.text = txt /\ shown.kind = grView.kind /\ shown.batches = grView.batches
      /\ shown.obj = grView.obj /\ shown.marked = grView.marked
 <2> HIDE DEF txt, shown
 <2> QED BY <1>2, <1>3, GrTyped DEF GrViewSet
<1> HIDE DEF txt
<1>5. ~NoEditor.open /\ NoEditor \in [open : BOOLEAN, pos : 0..3, array : {<<>>, <<1, 2>>, <<2, 1>>, <<3>>}, index : 0..2,
                                    old : GrValues, text : GrValues] BY DEF NoEditor, GrValues
<1>6. CASE value = grEdit.old
 <2> DEFINE m == {grEdit.pos}
 <2>1. grView' = [shown EXCEPT !.marked = m] /\ UNCHANGED <<grSent, grCounts>> BY <1>1, <1>6 DEF GrCommit
 <2>2. m \in SUBSET (1..3) /\ m \subseteq GrPositions(grView) BY <1>0, GrTyped
 <2> HIDE DEF shown, m
 <2>3. /\ grView' \in GrViewSet /\ grView'.text = txt /\ grView'.kind = grView.kind /\ grView'.batches = grView.batches
       /\ grView'.obj = grView.obj /\ grView'.marked = m BY <1>4, <2>1, <2>2 DEF GrViewSet
 <2>4. GrPositions(grView') = GrPositions(grView) BY <2>3, GrSameLook
 <2>5. GrShape' BY <1>0, <2>1, <2>2, <2>3, <2>4, GrTyped DEF GrShape
 <2>6. GrEditorOnItsRow' BY <1>0, <1>5 DEF GrEditorOnItsRow
 <2>7. GrSentToItsRow' BY <2>1, <2>3 DEF GrInv, GrSentToItsRow
 <2>8. ASSUME NEW r \in GrRows \ grCounts'.overlapped PROVE GrOneEdit(r)'
  <3>1. GrOneEdit(r) BY <2>1, <2>8 DEF GrInv
  <3>2. r = e => grEdit.old = grView.obj[r] /\ \A s \in grSent : s.row # r BY <1>0, <3>1 DEF GrOneEdit, e
  <3>3. r = e => grView'.text[r] = grView'.obj[r] BY <1>2, <1>6, <2>3, <3>2
  <3>4. r # e => grView'.text[r] = grView.text[r] BY <1>2, <2>3, <2>8
  <3> QED BY <1>0, <1>5, <2>1, <2>3, <3>1, <3>2, <3>3, <3>4 DEF GrOneEdit
 <2> QED BY <2>5, <2>6, <2>7, <2>8 DEF GrInv
<1>7. CASE value # grEdit.old
 <2> DEFINE u == [row |-> GrEditedRow, value |-> value, text |-> grEdit.text,
                  shown |-> GrShownRow(grView, grEdit.pos), live |-> TRUE, pc |-> "sent"]
 <2>1. grSent' = grSent \cup {u} /\ grView' = shown /\ grCounts' = [grCounts EXCEPT !.edits = grCounts.edits + 1]
   BY <1>1, <1>7 DEF GrCommit
 <2>2. u \in GrSentSet /\ u.row = e /\ u.shown = e /\ u.value = value /\ u.text = grEdit.text /\ u.live
   BY <1>0 DEF GrSentSet, e
 <2> HIDE DEF shown, u
 <2>3. grCounts' \in [edits : Nat, renders : Nat, overlapped : SUBSET GrRows] /\ grCounts'.overlapped = grCounts.overlapped
   BY <2>1, GrTyped DEF GrShape
 <2>4. GrPositions(grView') = GrPositions(grView) BY <1>4, <2>1, GrSameLook
 <2>5. GrShape' BY <1>0, <1>4, <2>1, <2>2, <2>3, <2>4, GrTyped DEF GrShape
 <2>6. GrEditorOnItsRow' BY <1>0, <1>5 DEF GrEditorOnItsRow
 <2>7. GrSentToItsRow' BY <1>0, <1>4, <2>1, <2>2 DEF GrInv, GrSentToItsRow
 <2>8. ASSUME NEW r \in GrRows \ grCounts'.overlapped PROVE GrOneEdit(r)'
  <3>1. GrOneEdit(r) BY <2>3, <2>8 DEF GrInv
  <3>2. r = e => grEdit.text = grView.obj[r] /\ \A s \in grSent : s.row # r BY <1>0, <3>1 DEF GrOneEdit, e
  <3>3. CASE r = e
   <4>1. grView'.text[r] = value /\ grView'.obj[r] = grView.obj[r] /\ u \in grSent'
     BY <1>2, <1>4, <2>1, <3>3
   <4>2. \A s \in grSent' : s.row = r => s = u BY <2>1, <3>2, <3>3
   <4> QED BY <1>0, <1>5, <2>2, <3>2, <3>3, <4>1, <4>2 DEF GrOneEdit
  <3>4. CASE r # e
   <4>1. grView'.text[r] = grView.text[r] /\ grView'.obj = grView.obj BY <1>2, <1>4, <2>1, <2>8, <3>4
   <4>2. \A s \in grSent' : s.row = r => s \in grSent BY <2>1, <2>2, <3>4
   <4>3. grSent \subseteq grSent' BY <2>1
   <4> QED BY <1>0, <1>5, <3>1, <4>1, <4>2, <4>3 DEF GrOneEdit
  <3> QED BY <3>3, <3>4
 <2> QED BY <2>5, <2>6, <2>7, <2>8 DEF GrInv
<1> QED BY <1>6, <1>7

LEMMA GrEscapeStep == ASSUME GrInv, restoreOriginalSelection PROVE GrInv'
<1> DEFINE e == GrEditedRow
           x == grEdit.text
           m == {grEdit.pos}
           txt == [grView.text EXCEPT ![e] = x]
<1>0. /\ grEdit.open /\ grEdit' = NoEditor /\ UNCHANGED <<grSent, grServer, grCounts>>
      /\ grEdit.pos \in GrPositions(grView) /\ e = GrShownRow(grView, grEdit.pos) /\ e \in GrRows
      /\ x \in GrValues /\ m \in SUBSET (1..3) /\ m \subseteq GrPositions(grView)
  BY GrTyped DEF restoreOriginalSelection
<1>1. grView' = [grView EXCEPT !.text[e] = x, !.marked = m] BY <1>0 DEF restoreOriginalSelection
<1> HIDE DEF e, x, m
<1>2. txt \in [GrRows -> GrValues] /\ txt[e] = x /\ \A r \in GrRows \ {e} : txt[r] = grView.text[r]
  BY <1>0, GrTyped DEF GrViewSet
<1>3. grView' = [grView EXCEPT !.text = txt, !.marked = m] BY <1>1, GrTyped DEF GrViewSet
<1> HIDE DEF txt
<1>4. /\ grView' \in GrViewSet /\ grView'.text = txt /\ grView'.kind = grView.kind /\ grView'.batches = grView.batches
      /\ grView'.obj = grView.obj /\ grView'.marked = m BY <1>0, <1>2, <1>3, GrTyped DEF GrViewSet
<1>5. ~NoEditor.open /\ NoEditor \in [open : BOOLEAN, pos : 0..3, array : {<<>>, <<1, 2>>, <<2, 1>>, <<3>>}, index : 0..2,
                                    old : GrValues, text : GrValues] BY DEF NoEditor, GrValues
<1>6. GrPositions(grView') = GrPositions(grView) BY <1>4, GrSameLook
<1>7. GrShape' BY <1>0, <1>4, <1>6, GrTyped DEF GrShape
<1>8. GrEditorOnItsRow' BY <1>0, <1>5 DEF GrEditorOnItsRow
<1>9. GrSentToItsRow' BY <1>0, <1>4 DEF GrInv, GrSentToItsRow
<1>10. ASSUME NEW r \in GrRows \ grCounts'.overlapped PROVE GrOneEdit(r)'
 <2>1. GrOneEdit(r) BY <1>0, <1>10 DEF GrInv
 <2>2. grView'.text[r] = grView.text[r] BY <1>0, <1>2, <1>4, <1>10, <2>1 DEF GrOneEdit, e, x
 <2> QED BY <1>0, <1>4, <1>5, <2>1, <2>2 DEF GrOneEdit
<1> QED BY <1>7, <1>8, <1>9, <1>10 DEF GrInv

LEMMA GrStoredStep == ASSUME GrInv, NEW s \in grSent, GrStored(s) PROVE GrInv'
<1> DEFINE u == [s EXCEPT !.pc = "stored"]
<1>1. grServer' = [grServer EXCEPT ![s.row] = s.value] /\ grSent' = (grSent \ {s}) \cup {u}
      /\ UNCHANGED <<grView, grEdit, grCounts>> BY DEF GrStored
<1>2. /\ s \in GrSentSet /\ u \in GrSentSet /\ u.row = s.row /\ u.shown = s.shown /\ u.value = s.value
      /\ u.text = s.text /\ u.live = s.live /\ s.row \in GrRows /\ s.value \in GrValues
  BY GrTyped DEF GrSentSet
<1> HIDE DEF u
<1>3. GrShape' BY <1>1, <1>2, GrTyped DEF GrShape
<1>4. GrEditorOnItsRow' BY <1>1 DEF GrInv, GrEditorOnItsRow, GrEditedRow
<1>5. GrSentToItsRow' BY <1>1, <1>2 DEF GrInv, GrSentToItsRow
<1>6. ASSUME NEW r \in GrRows \ grCounts'.overlapped PROVE GrOneEdit(r)'
 <2>1. GrOneEdit(r) BY <1>1, <1>6 DEF GrInv
 <2>2. (grEdit.open /\ GrEditedRow = r => /\ \A t \in grSent' : t.row # r
                                          /\ grEdit.old = grView.obj[r] /\ grEdit.text = grView.text[r])
   BY <1>1, <1>2, <2>1 DEF GrOneEdit
 <2>3. \A a, b \in grSent' : a.row = r /\ b.row = r => a = b BY <1>1, <1>2, <2>1 DEF GrOneEdit
 <2>4. \A t \in grSent' : t.row = r /\ t.live => grView.text[r] = t.value /\ t.text = grView.obj[r]
   BY <1>1, <1>2, <2>1 DEF GrOneEdit
 <2>5. grView.text[r] = grView.obj[r] \/ \E t \in grSent' : t.row = r /\ t.live
   BY <1>1, <1>2, <2>1 DEF GrOneEdit
 <2> QED BY <1>1, <2>2, <2>3, <2>4, <2>5 DEF GrOneEdit, GrEditedRow
<1> QED BY <1>3, <1>4, <1>5, <1>6 DEF GrInv

LEMMA GrSavedStep == ASSUME GrInv, NEW s \in grSent, GrSaved(s) PROVE GrInv'
<1> DEFINE x == s.value
           e == s.row
           obj == [grView.obj EXCEPT ![e] = x]
<1>1. /\ grView' = (IF s.live THEN [grView EXCEPT !.obj[e] = x] ELSE grView) /\ grSent' = grSent \ {s}
      /\ UNCHANGED <<grEdit, grServer, grCounts>> BY DEF GrSaved
<1>2. s \in GrSentSet /\ e \in GrRows /\ x \in GrValues BY GrTyped DEF GrSentSet
<1> HIDE DEF e, x
<1>3. obj \in [GrRows -> GrValues] /\ obj[e] = x /\ \A r \in GrRows \ {e} : obj[r] = grView.obj[r]
  BY <1>2, GrTyped DEF GrViewSet
<1>4. s.live => grView' = [grView EXCEPT !.obj = obj] BY <1>1, GrTyped DEF GrViewSet
<1> HIDE DEF obj
<1>5. /\ grView' \in GrViewSet /\ grView'.text = grView.text /\ grView'.kind = grView.kind
      /\ grView'.batches = grView.batches /\ grView'.marked = grView.marked
      /\ s.live => grView'.obj = obj
      /\ ~s.live => grView'.obj = grView.obj BY <1>1, <1>3, <1>4, GrTyped DEF GrViewSet
<1>6. GrPositions(grView') = GrPositions(grView) /\ \A q : GrShownRow(grView', q) = GrShownRow(grView, q)
  BY <1>5, GrSameLook
<1>7. GrShape' BY <1>1, <1>5, <1>6, GrTyped DEF GrShape
<1>8. GrEditorOnItsRow' BY <1>1, <1>6 DEF GrInv, GrEditorOnItsRow, GrEditedRow
<1>9. GrSentToItsRow' BY <1>1, <1>5 DEF GrInv, GrSentToItsRow
<1>10. ASSUME NEW r \in GrRows \ grCounts'.overlapped PROVE GrOneEdit(r)'
 <2>1. GrOneEdit(r) BY <1>1, <1>10 DEF GrInv
 <2>2. CASE r = e /\ s.live
  <3>1. grView'.obj[r] = x /\ grView'.text[r] = x BY <1>3, <1>5, <2>1, <2>2 DEF GrOneEdit, e, x
  <3>2. \A t \in grSent' : t.row # r BY <1>1, <2>1, <2>2 DEF GrOneEdit, e
  <3>3. ~(grEdit.open /\ GrEditedRow = r) BY <2>1, <2>2 DEF GrOneEdit, e
  <3> QED BY <1>1, <3>1, <3>2, <3>3 DEF GrOneEdit, GrEditedRow
 <2>3. CASE ~(r = e /\ s.live)
  <3>1. grView'.obj[r] = grView.obj[r] BY <1>3, <1>5, <1>10, <2>3
  <3>2. \A t \in grSent : t.row = r /\ t.live => t \in grSent' BY <1>1, <2>3 DEF e
  <3> QED BY <1>1, <1>5, <2>1, <3>1, <3>2 DEF GrOneEdit, GrEditedRow
 <2> QED BY <2>2, <2>3
<1> QED BY <1>7, <1>8, <1>9, <1>10 DEF GrInv

LEMMA GrFailedStep == ASSUME GrInv, NEW s \in grSent, GrFailed(s) PROVE GrInv'
<1> DEFINE x == s.text
           e == s.shown
           txt == [grView.text EXCEPT ![e] = x]
           hit == s.live /\ grEdit.open /\ GrShownRow(grView, grEdit.pos) = s.shown
           n == grCounts.overlapped \cup {s.row}
<1>1. /\ grView' = (IF s.live THEN [grView EXCEPT !.text[e] = x] ELSE grView) /\ grSent' = grSent \ {s}
      /\ grEdit' = (IF hit THEN NoEditor ELSE grEdit)
      /\ grCounts' = (IF hit THEN [grCounts EXCEPT !.overlapped = n] ELSE grCounts)
      /\ UNCHANGED grServer BY DEF GrFailed
<1>2. s \in GrSentSet /\ e \in GrRows /\ x \in GrValues /\ s.row = e
  BY GrTyped DEF GrSentSet, GrInv, GrSentToItsRow
<1>h. hit => GrEditedRow = e /\ grEdit.open /\ s.live BY GrTyped
<1>n. (~hit /\ s.live /\ grEdit.open) => GrEditedRow # e BY GrTyped
<1> HIDE DEF e, x, hit
<1>3. txt \in [GrRows -> GrValues] /\ txt[e] = x /\ \A r \in GrRows \ {e} : txt[r] = grView.text[r]
  BY <1>2, GrTyped DEF GrViewSet
<1>4. s.live => grView' = [grView EXCEPT !.text = txt] BY <1>1, GrTyped DEF GrViewSet
<1> HIDE DEF txt
<1>5. /\ grView' \in GrViewSet /\ grView'.obj = grView.obj /\ grView'.kind = grView.kind
      /\ grView'.batches = grView.batches /\ grView'.marked = grView.marked
      /\ s.live => grView'.text = txt
      /\ ~s.live => grView'.text = grView.text BY <1>1, <1>3, <1>4, GrTyped DEF GrViewSet
<1>6. GrPositions(grView') = GrPositions(grView) /\ \A q : GrShownRow(grView', q) = GrShownRow(grView, q)
  BY <1>5, GrSameLook
<1>7. /\ grCounts' \in [edits : Nat, renders : Nat, overlapped : SUBSET GrRows]
      /\ hit => grCounts'.overlapped = n
      /\ ~hit => grCounts' = grCounts
 <2>1. grCounts \in [edits : Nat, renders : Nat, overlapped : SUBSET GrRows] /\ n \in SUBSET GrRows
   BY <1>2, GrTyped DEF GrShape
 <2> HIDE DEF n
 <2> QED BY <1>1, <2>1
<1>8. GrShape' BY <1>1, <1>5, <1>6, <1>7, GrTyped DEF GrShape
<1>9. GrEditorOnItsRow'
 <2>1. NoEditor \in [open : BOOLEAN, pos : 0..3, array : {<<>>, <<1, 2>>, <<2, 1>>, <<3>>}, index : 0..2,
                     old : GrValues, text : GrValues] /\ ~NoEditor.open BY DEF NoEditor, GrValues
 <2>2. CASE hit BY <1>1, <2>1, <2>2 DEF GrEditorOnItsRow
 <2>3. CASE ~hit BY <1>1, <1>6, <2>3 DEF GrInv, GrEditorOnItsRow, GrEditedRow
 <2> QED BY <2>2, <2>3
<1>10. GrSentToItsRow' BY <1>1, <1>5 DEF GrInv, GrSentToItsRow
<1>11. ASSUME NEW r \in GrRows \ grCounts'.overlapped PROVE GrOneEdit(r)'
 <2>1. r \notin grCounts.overlapped /\ (hit => r # e) BY <1>2, <1>7, <1>11 DEF n
 <2>2. GrOneEdit(r) BY <1>11, <2>1 DEF GrInv
 <2>e. grEdit'.open => grEdit' = grEdit /\ ~hit BY <1>1 DEF NoEditor
 <2>3. CASE r = e /\ s.live
  <3>1. grView'.obj[r] = grView.obj[r] /\ grView'.text[r] = grView.obj[r]
    BY <1>2, <1>3, <1>5, <2>2, <2>3 DEF GrOneEdit, x
  <3>2. \A t \in grSent' : t.row # r BY <1>1, <1>2, <2>2, <2>3 DEF GrOneEdit
  <3>3. ~(grEdit'.open /\ GrEditedRow' = r) BY <1>n, <2>e, <2>3 DEF GrEditedRow
  <3> QED BY <3>1, <3>2, <3>3 DEF GrOneEdit
 <2>4. CASE ~(r = e /\ s.live)
  <3>1. grView'.text[r] = grView.text[r] /\ grView'.obj = grView.obj BY <1>3, <1>5, <1>11, <2>4
  <3>2. \A t \in grSent : t.row = r /\ t.live => t \in grSent' BY <1>1, <1>2, <2>4
  <3>3. grSent' \subseteq grSent BY <1>1
  <3>4. grEdit'.open /\ GrEditedRow' = r => grEdit' = grEdit /\ grEdit.open /\ GrEditedRow = r
    BY <2>e DEF GrEditedRow
  <3> QED BY <2>2, <3>1, <3>2, <3>3, <3>4 DEF GrOneEdit
 <2> QED BY <2>3, <2>4
<1> QED BY <1>8, <1>9, <1>10, <1>11 DEF GrInv

LEMMA GrReloadStep == ASSUME GrInv, GrReload PROVE GrInv'
<1> DEFINE v == GrRendered(grView.kind, <<1, 2>>, grServer)
           gone == {[s EXCEPT !.live = FALSE] : s \in grSent}
<1>1. GrRender /\ GrDetach(v) /\ UNCHANGED grServer BY DEF GrReload
<1>2. /\ v \in GrViewSet /\ v.kind = grView.kind /\ v.batches = <<<<1, 2>>>> /\ v.text = grServer /\ v.obj = grServer
      /\ v.marked = {} BY GrTyped DEF GrRendered, GrViewSet, GrBatchSets, GrShape
<1>3. \A t \in gone : /\ t \in GrSentSet /\ ~t.live
                      /\ \E s \in grSent : t = [s EXCEPT !.live = FALSE] /\ t.row = s.row /\ t.shown = s.shown
 <2>1. ASSUME NEW s \in grSent
       PROVE  /\ [s EXCEPT !.live = FALSE] \in GrSentSet /\ ~[s EXCEPT !.live = FALSE].live
              /\ [s EXCEPT !.live = FALSE].row = s.row /\ [s EXCEPT !.live = FALSE].shown = s.shown
   BY GrTyped DEF GrSentSet
 <2> QED BY <2>1
<1> HIDE DEF v, gone
<1>4. grView' = v /\ grEdit' = NoEditor BY <1>1 DEF GrDetach
<1>5. /\ grSent' \in SUBSET GrSentSet
      /\ \A s \in grSent' : ~s.live /\ s.row = s.shown
      /\ \A r \in GrRows \ grCounts.overlapped : \A s, t \in grSent' : s.row = r /\ t.row = r => s = t
 <2>0. /\ \A t \in gone : t \in GrSentSet /\ ~t.live /\ t.row = t.shown
       /\ \A r \in GrRows \ grCounts.overlapped : \A s, t \in gone : s.row = r /\ t.row = r => s = t
  <3>1. \A t \in gone : t.row = t.shown BY <1>3 DEF GrInv, GrSentToItsRow
  <3>2. ASSUME NEW r \in GrRows \ grCounts.overlapped, NEW s \in gone, NEW t \in gone, s.row = r, t.row = r PROVE s = t
   <4>1. PICK a \in grSent : s = [a EXCEPT !.live = FALSE] /\ s.row = a.row BY <1>3
   <4>2. PICK b \in grSent : t = [b EXCEPT !.live = FALSE] /\ t.row = b.row BY <1>3
   <4>3. a = b BY <3>2, <4>1, <4>2 DEF GrInv, GrOneEdit
   <4> QED BY <4>1, <4>2, <4>3
  <3> QED BY <1>3, <3>1, <3>2
 <2>1. CASE grSent' = gone BY <2>0, <2>1
 <2>2. CASE grSent' # gone
  <3>1. PICK value \in GrValues \ {grEdit.old} :
          /\ grEdit.open
          /\ grSent' = gone \cup {[row |-> GrEditedRow, value |-> value, text |-> grEdit.text,
                                   shown |-> GrShownRow(grView, grEdit.pos), live |-> FALSE, pc |-> "sent"]}
    BY <1>1, <2>2 DEF GrDetach, gone
  <3> DEFINE u == [row |-> GrEditedRow, value |-> value, text |-> grEdit.text,
                   shown |-> GrShownRow(grView, grEdit.pos), live |-> FALSE, pc |-> "sent"]
  <3>2. u \in GrSentSet /\ ~u.live /\ u.row = u.shown /\ u.row = GrEditedRow BY <3>1, GrTyped DEF GrSentSet
  <3>3. grSent' = gone \cup {u} BY <3>1
  <3> HIDE DEF u
  <3>4. \A r \in GrRows \ grCounts.overlapped : u.row = r => \A t \in gone : t.row # r
   <4>1. ASSUME NEW r \in GrRows \ grCounts.overlapped, u.row = r, NEW t \in gone PROVE t.row # r
    <5>1. \A s \in grSent : s.row # r BY <3>1, <3>2, <4>1 DEF GrInv, GrOneEdit
    <5> QED BY <1>3, <5>1
   <4> QED BY <4>1
  <3> QED BY <2>0, <3>2, <3>3, <3>4
 <2> QED BY <2>1, <2>2
<1>6. grCounts' \in [edits : Nat, renders : Nat, overlapped : SUBSET GrRows] /\ grCounts'.overlapped = grCounts.overlapped
  BY <1>1, GrTyped DEF GrRender, GrShape
<1>7. GrShape'
 <2>1. grView'.batches # <<<<2, 1>>>> /\ grView'.batches # <<<<1, 2>>, <<3>>>> BY <1>2, <1>4
 <2> QED BY <1>1, <1>2, <1>4, <1>5, <1>6, <2>1, GrTyped DEF GrShape
<1>8. GrEditorOnItsRow' /\ ~grEdit'.open BY <1>4 DEF GrEditorOnItsRow, NoEditor, GrValues
<1>9. GrSentToItsRow' BY <1>5 DEF GrSentToItsRow
<1>10. ASSUME NEW r \in GrRows \ grCounts'.overlapped PROVE GrOneEdit(r)'
  BY <1>2, <1>4, <1>5, <1>6, <1>8, <1>10 DEF GrOneEdit
<1> QED BY <1>7, <1>8, <1>9, <1>10 DEF GrInv

LEMMA GrSortStep == ASSUME GrInv, sortData PROVE GrInv'
<1> DEFINE a == grView.batches[1]
           b == [i \in DOMAIN a |-> a[Len(a) + 1 - i]]
           n == grCounts.overlapped \cup {s.row : s \in grSent}
           k == grCounts.renders + 1
           o == grView.obj
           bs == <<b>>
           m == {}
<1>1. /\ grView.kind = "list" /\ ~grEdit.open
      /\ grView' = [grView EXCEPT !.batches = bs, !.text = o, !.marked = m, !.menu = FALSE]
      /\ grCounts' = [grCounts EXCEPT !.renders = k, !.overlapped = n]
      /\ UNCHANGED <<grEdit, grSent, grServer>> BY DEF sortData
<1>2. bs \in {<<<<1, 2>>>>, <<<<2, 1>>>>}
 <2>1. a \in {<<1, 2>>, <<2, 1>>} /\ Len(a) = 2 BY GrTyped, GrLook
 <2>2. b = <<a[2], a[1]>> BY <2>1
 <2> QED BY <2>1, <2>2
<1>3. o \in [GrRows -> GrValues] /\ n \in SUBSET GrRows /\ k \in Nat /\ m \in SUBSET (1..3)
  BY GrTyped DEF GrViewSet, GrSentSet, GrShape
<1> HIDE DEF bs, n, k, o, m
<1>4. /\ grView' \in GrViewSet /\ grView'.kind = "list" /\ grView'.batches = bs /\ grView'.text = o
      /\ grView'.obj = grView.obj /\ grView'.marked = m
  BY <1>1, <1>2, <1>3, GrTyped DEF GrViewSet, GrBatchSets
<1>5. grCounts' \in [edits : Nat, renders : Nat, overlapped : SUBSET GrRows] /\ grCounts'.overlapped = n
  BY <1>1, <1>3, GrTyped DEF GrShape
<1>6. GrShape'
 <2>1. bs # <<<<1, 2>>, <<3>>>> BY <1>2
 <2> QED BY <1>1, <1>4, <1>5, <2>1, GrTyped DEF GrShape, m
<1>7. GrEditorOnItsRow' BY <1>1 DEF GrInv, GrEditorOnItsRow
<1>8. GrSentToItsRow'
 <2>1. \A s \in grSent : s.row = s.shown /\ (s.live => s.row # 3)
   BY <1>1, GrTyped, GrLook DEF GrInv, GrSentToItsRow, GrShape
 <2> QED BY <1>1, <2>1 DEF GrSentToItsRow
<1>9. ASSUME NEW r \in GrRows \ grCounts'.overlapped PROVE GrOneEdit(r)'
 <2>1. \A s \in grSent' : s.row # r BY <1>1, <1>5, <1>9 DEF n
 <2> QED BY <1>1, <1>4, <2>1 DEF GrOneEdit, o
<1> QED BY <1>6, <1>7, <1>8, <1>9 DEF GrInv

LEMMA GrAppendStep == ASSUME GrInv, appendDataToTable PROVE GrInv'
<1> DEFINE bs == <<grView.batches[1], <<3>>>>
           x == grServer[3]
           txt == [grView.text EXCEPT ![3] = x]
           obj == [grView.obj EXCEPT ![3] = x]
<1>1. /\ grView.kind = "table" /\ Len(grView.batches) = 1 /\ GrRender
      /\ grView' = [grView EXCEPT !.batches = bs, !.text[3] = x, !.obj[3] = x]
      /\ UNCHANGED <<grEdit, grSent, grServer>> BY DEF appendDataToTable
<1>2. grView.batches = <<<<1, 2>>>> /\ bs = <<<<1, 2>>, <<3>>>> /\ Len(bs) = 2
 <2>1. grView.batches = <<<<1, 2>>>> BY <1>1, GrTyped DEF GrShape, GrBatchSets
 <2> QED BY <2>1
<1>3. /\ x \in GrValues /\ txt \in [GrRows -> GrValues] /\ obj \in [GrRows -> GrValues] /\ txt[3] = x /\ obj[3] = x
      /\ \A r \in GrRows \ {3} : txt[r] = grView.text[r] /\ obj[r] = grView.obj[r]
  BY GrTyped DEF GrViewSet, GrShape, GrRows
<1> HIDE DEF bs, x
<1>4. grView' = [grView EXCEPT !.batches = bs, !.text = txt, !.obj = obj] BY <1>1, GrTyped DEF GrViewSet
<1> HIDE DEF txt, obj
<1>5. /\ grView' \in GrViewSet /\ grView'.kind = "table" /\ grView'.batches = bs /\ grView'.text = txt
      /\ grView'.obj = obj /\ grView'.marked = grView.marked
  BY <1>1, <1>2, <1>3, <1>4, GrTyped DEF GrViewSet, GrBatchSets
<1>6. /\ GrPositions(grView) = 1..2 /\ GrPositions(grView') = 1..3
      /\ \A p \in 1..2 : GrShownRow(grView', p) = GrShownRow(grView, p)
      /\ \A p \in 1..2 : GrShownRow(grView, p) # 3
 <2>1. GrPositions(grView) = 1..2 /\ \A p \in 1..2 : GrShownRow(grView, p) = <<1, 2>>[p]
   BY <1>2, GrTyped, GrLook
 <2>2. GrPositions(grView') = 1..3 /\ \A p \in 1..2 : GrShownRow(grView', p) = <<1, 2>>[p]
  <3>1. grView'.batches \in GrBatchSets /\ grView'.batches = <<<<1, 2>>, <<3>>>>
    BY <1>2, <1>5 DEF GrBatchSets
  <3> QED BY <3>1, GrLook
 <2> QED BY <2>1, <2>2
<1>7. grCounts' \in [edits : Nat, renders : Nat, overlapped : SUBSET GrRows] /\ grCounts'.overlapped = grCounts.overlapped
  BY <1>1, GrTyped DEF GrRender, GrShape
<1>8. GrShape'
 <2>1. bs # <<<<2, 1>>>> BY <1>2
 <2> QED BY <1>1, <1>5, <1>6, <1>7, <2>1, GrTyped DEF GrShape
<1>9. GrEditorOnItsRow' BY <1>1, <1>6 DEF GrInv, GrEditorOnItsRow, GrEditedRow
<1>10. GrSentToItsRow' /\ \A s \in grSent : s.live => s.row # 3 BY <1>1, <1>2, <1>5 DEF GrInv, GrSentToItsRow
<1>11. ASSUME NEW r \in GrRows \ grCounts'.overlapped PROVE GrOneEdit(r)'
 <2>1. GrOneEdit(r) BY <1>7, <1>11 DEF GrInv
 <2>2. CASE r = 3
  <3>1. ~(grEdit.open /\ GrEditedRow = 3) BY <1>6, GrTyped
  <3> QED BY <1>1, <1>3, <1>5, <1>10, <2>1, <2>2, <3>1 DEF GrOneEdit, GrEditedRow
 <2>3. CASE r # 3
  <3>1. grView'.text[r] = grView.text[r] /\ grView'.obj[r] = grView.obj[r] BY <1>3, <1>5, <1>11, <2>3
  <3> QED BY <1>1, <2>1, <3>1 DEF GrOneEdit, GrEditedRow
 <2> QED BY <2>2, <2>3
<1> QED BY <1>8, <1>9, <1>10, <1>11 DEF GrInv

LEMMA GrStarts == GrInit => GrInv
<1> SUFFICES ASSUME GrInit PROVE GrInv OBVIOUS
<1> DEFINE z == [r \in GrRows |-> 0]
<1>1. PICK kind \in {"table", "list"} : grView = GrRendered(kind, <<1, 2>>, z) BY DEF GrInit
<1>2. grEdit = NoEditor /\ grSent = {} /\ grServer = z /\ grCounts = [edits |-> 0, renders |-> 0, overlapped |-> {}]
  BY DEF GrInit
<1>3. z \in [GrRows -> GrValues] BY DEF GrValues
<1> HIDE DEF z
<1>4. /\ grView \in GrViewSet /\ grView.batches = <<<<1, 2>>>> /\ grView.text = z /\ grView.obj = z /\ grView.marked = {}
  BY <1>1, <1>3 DEF GrRendered, GrViewSet, GrBatchSets
<1>5. GrShape
 <2>1. grView.batches # <<<<2, 1>>>> /\ grView.batches # <<<<1, 2>>, <<3>>>> BY <1>4
 <2> QED BY <1>2, <1>3, <1>4, <2>1 DEF GrShape
<1>6. GrEditorOnItsRow /\ ~grEdit.open BY <1>2 DEF GrEditorOnItsRow, NoEditor, GrValues
<1> QED BY <1>2, <1>4, <1>5, <1>6 DEF GrInv, GrSentToItsRow, GrOneEdit

LEMMA GrStep == GrInv /\ [GrNext]_grVars => GrInv'
<1> SUFFICES ASSUME GrInv, [GrNext]_grVars PROVE GrInv' OBVIOUS
<1>1. CASE UNCHANGED grVars
 <2>1. GrPositions(grView') = GrPositions(grView) /\ \A q : GrShownRow(grView', q) = GrShownRow(grView, q)
   BY <1>1, GrSameLook DEF grVars
 <2> QED BY <1>1, <2>1 DEF grVars, GrInv, GrShape, GrEditorOnItsRow, GrEditedRow, GrSentToItsRow, GrOneEdit
<1>2. CASE GrNext
  BY <1>2, GrEditStep, GrMouseDownStep, GrMouseMoveStep, GrBlurStep, GrEscapeStep, GrStoredStep, GrSavedStep,
     GrFailedStep, GrReloadStep, GrSortStep, GrAppendStep, GrMarksStep DEF GrNext
<1> QED BY <1>1, <1>2

GrSpec == GrInit /\ [][GrNext]_grVars

\* For any number of edits, renders and updates: an update is stored for the row whose cell was edited, and a cell with
\* no update under way shows the value of its row object, unless its edits overlapped (cell_editor.js,
\* table_structure_builder.js, table_row_printer.js).
THEOREM GrEditsHit == GrSpec => []GrEditsHitTheirRow
<1>1. GrInv => GrEditsHitTheirRow BY DEF GrInv, GrSentToItsRow, GrOneEdit, GrEditsHitTheirRow
<1> QED BY <1>1, GrStarts, GrStep, PTL DEF GrSpec
-----------------------------------------------------------------------------
(* TabConfig: what is stored for a table are its own tabs. *)

\* Only a table's own tabs have a row.
TbOwnStored == \A t \in TbTables : \A k \in TabKeys : tbServer[t][k].place # 0 => k \in TbOwnKeys(t)
TbNow == TbMerged(tbUi.table, tbServer[tbUi.table])
TbShownIsOwn ==
    /\ tbUi.tabs # NoTabs => tbUi.table \in TbTables /\ tbUi.tabs \in TabsOf(tbUi.table)
    /\ tbUi.tabs # NoTabs => tbUi.original \in TabsOf(tbUi.table)
    /\ tbUi.tabs = NoTabs => tbUi.original = NoTabs /\ ~tbUi.dirty
TbSavedNow(c) == c.kind # "load" /\ c.served /\ c.ok
TbShownIsStored ==
    tbUi.tabs # NoTabs =>
       /\ ~tbUi.dirty => tbUi.tabs = TbNow
       /\ (\A c \in tbCalls : ~TbSavedNow(c)) => tbUi.original = TbNow
\* A load is alone under way; a save carries what is shown.
TbLoads(c) ==
    /\ tbCalls = {c} /\ c.table = tbUi.table /\ tbUi.tabs = NoTabs
    /\ c.served /\ c.ok => c.tabs = TbNow
TbSaves(c) ==
    /\ c.table = tbUi.table /\ c.tabs = tbUi.tabs /\ tbUi.tabs # NoTabs
    /\ TbSavedNow(c) => tbUi.tabs = TbNow
TbUnderWay == \A c \in tbCalls : IF c.kind = "load" THEN TbLoads(c) ELSE TbSaves(c)
TbTyped ==
    /\ tbServer \in [TbTables -> TbRows] /\ tbUi \in TbUiSet /\ tbCalls \subseteq TbCallSet
    /\ \A c \in tbCalls : c.kind # "load" => c.tabs # NoTabs
TbKept == TbOwnStored /\ TbShownIsOwn /\ TbShownIsStored /\ TbUnderWay
TbInv == TbTyped /\ (~tbUi.overlap => TbKept)

LEMMA TbTabs == ASSUME NEW t \in TbTables, NEW tabs \in TabsOf(t)
                PROVE  /\ tabs \in [1..2 -> TbTab] /\ tabs # NoTabs /\ tabs \in TabLists
                       /\ {tabs[1].key, tabs[2].key} = TbOwnKeys(t)
<1>1. tabs \in [1..2 -> TbTab] /\ {tabs[1].key, tabs[2].key} = TbOwnKeys(t) BY DEF TabsOf
<1>2. DOMAIN tabs = 1..2 /\ 1 \in 1..2 BY <1>1
<1>3. DOMAIN NoTabs = 1..0 /\ 1 \notin 1..0 BY DEF NoTabs
<1>4. tabs # NoTabs BY <1>2, <1>3
<1> QED BY <1>1, <1>4 DEF TabLists

LEMMA TbKeys == ASSUME NEW t \in TbTables
                PROVE  Referring[t] \in TabKeys /\ Comments \in TabKeys /\ Referring[t] # Comments /\ t # NoneChosen
BY DEF TbTables, Referring, TabKeys, Comments, NoneChosen

\* What the rows of a table give are its own tabs.
LEMMA TbMergedIsOwn == ASSUME NEW t \in TbTables, NEW rows \in TbRows PROVE TbMerged(t, rows) \in TabsOf(t)
<1> DEFINE swapped == TbPlace(rows, Comments) < TbPlace(rows, Referring[t])
           key(i) == IF (i = 1) = swapped THEN Comments ELSE Referring[t]
           m == TbMerged(t, rows)
<1>1. \A i \in 1..2 : key(i) \in TabKeys /\ rows[key(i)].hidden \in BOOLEAN BY TbKeys DEF TbRows
<1>2. m = [i \in 1..2 |-> [key |-> key(i), hidden |-> rows[key(i)].hidden]] BY DEF TbMerged
<1>3. {key(1), key(2)} = TbOwnKeys(t)
 <2>1. CASE swapped BY <2>1 DEF TbOwnKeys
 <2>2. CASE ~swapped BY <2>2 DEF TbOwnKeys
 <2> QED BY <2>1, <2>2
<1> HIDE DEF key, m
<1>4. m \in [1..2 -> TbTab] /\ m[1].key = key(1) /\ m[2].key = key(2) BY <1>1, <1>2 DEF TbTab
<1>5. m \in TabsOf(t) BY <1>3, <1>4 DEF TabsOf
<1> QED BY <1>5 DEF m

\* Its own tabs, stored, are what its rows give from then on, and no other tab gets a row.
LEMMA TbStoredIsMerged ==
  ASSUME NEW t \in TbTables, NEW rows \in TbRows, NEW tabs \in TabsOf(t)
  PROVE  /\ TbStored(rows, tabs) \in TbRows
         /\ TbMerged(t, TbStored(rows, tabs)) = tabs
         /\ \A k \in TabKeys : TbStored(rows, tabs)[k].place # 0 => rows[k].place # 0 \/ k \in TbOwnKeys(t)
<1> DEFINE a == tabs[1].key
           b == tabs[2].key
           s == TbStored(rows, tabs)
           r == Referring[t]
<1>1. /\ tabs \in [1..2 -> TbTab] /\ a \in TabKeys /\ b \in TabKeys /\ a # b
      /\ tabs[1] = [key |-> a, hidden |-> tabs[1].hidden] /\ tabs[2] = [key |-> b, hidden |-> tabs[2].hidden]
      /\ tabs[1].hidden \in BOOLEAN /\ tabs[2].hidden \in BOOLEAN
      /\ (a = Comments /\ b = r) \/ (a = r /\ b = Comments)
 <2>1. tabs \in [1..2 -> TbTab] /\ {a, b} = {r, Comments} /\ r # Comments /\ r \in TabKeys /\ Comments \in TabKeys
   BY TbTabs, TbKeys DEF TbOwnKeys
 <2>2. /\ tabs[1] = [key |-> a, hidden |-> tabs[1].hidden] /\ tabs[2] = [key |-> b, hidden |-> tabs[2].hidden]
       /\ tabs[1].hidden \in BOOLEAN /\ tabs[2].hidden \in BOOLEAN BY <2>1 DEF TbTab
 <2> HIDE DEF a, b, r
 <2>3. (a = Comments /\ b = r) \/ (a = r /\ b = Comments) BY <2>1
 <2> QED BY <2>1, <2>2, <2>3
<1>2. /\ s \in TbRows
      /\ s[a] = [place |-> 1, hidden |-> tabs[1].hidden] /\ s[b] = [place |-> 2, hidden |-> tabs[2].hidden]
      /\ \A k \in TabKeys \ {a, b} : s[k] = rows[k]
 <2> DEFINE x == [place |-> 1, hidden |-> tabs[1].hidden]
            y == [place |-> 2, hidden |-> tabs[2].hidden]
 <2>1. s = [rows EXCEPT ![a] = x, ![b] = y] BY DEF TbStored
 <2>2. x \in [place : 0..2, hidden : BOOLEAN] /\ y \in [place : 0..2, hidden : BOOLEAN] BY <1>1
 <2> HIDE DEF x, y, s, a, b
 <2>3. s \in TbRows /\ s[a] = x /\ s[b] = y /\ \A k \in TabKeys \ {a, b} : s[k] = rows[k]
   BY <1>1, <2>1, <2>2 DEF TbRows
 <2> QED BY <2>3 DEF x, y
<1> HIDE DEF s, a, b, r
<1>3. s[a].place = 1 /\ s[b].place = 2 /\ s[a].hidden = tabs[1].hidden /\ s[b].hidden = tabs[2].hidden BY <1>2
<1>4. TbPlace(s, a) = 1 /\ TbPlace(s, b) = 2 BY <1>3 DEF TbPlace
<1>5. TbMerged(t, s) = tabs
 <2> DEFINE swapped == TbPlace(s, Comments) < TbPlace(s, r)
            key(i) == IF (i = 1) = swapped THEN Comments ELSE r
            m == TbMerged(t, s)
 <2>1. m = [i \in 1..2 |-> [key |-> key(i), hidden |-> s[key(i)].hidden]] BY DEF TbMerged, r
 <2>2. key(1) = a /\ key(2) = b
  <3>1. CASE a = Comments /\ b = r
   <4>1. swapped BY <3>1, <1>4
   <4> QED BY <4>1, <3>1
  <3>2. CASE a = r /\ b = Comments
   <4>1. ~swapped BY <3>2, <1>4
   <4> QED BY <4>1, <3>2
  <3> QED BY <3>1, <3>2, <1>1
 <2> HIDE DEF key, m
 <2>3. m \in [1..2 -> TbTab] /\ m[1] = tabs[1] /\ m[2] = tabs[2] BY <1>1, <1>3, <2>1, <2>2 DEF TbTab
 <2>4. m = tabs BY <1>1, <2>3
 <2> QED BY <2>4 DEF m
<1>6. \A k \in TabKeys : s[k].place # 0 => rows[k].place # 0 \/ k \in TbOwnKeys(t)
  BY <1>1, <1>2 DEF TbOwnKeys, r
<1> QED BY <1>2, <1>5, <1>6 DEF s

\* Hidden, shown or moved, they stay its own tabs.
LEMMA TbChangedIsOwn ==
  ASSUME NEW t \in TbTables, NEW tabs \in TabsOf(t)
  PROVE  /\ \A i \in 1..2 : [tabs EXCEPT ![i].hidden = ~@] \in TabsOf(t)
         /\ [i \in 1..2 |-> tabs[3 - i]] \in TabsOf(t)
<1>1. tabs \in [1..2 -> TbTab] /\ {tabs[1].key, tabs[2].key} = TbOwnKeys(t) BY TbTabs
<1>2. ASSUME NEW i \in 1..2 PROVE [tabs EXCEPT ![i].hidden = ~@] \in TabsOf(t)
 <2> DEFINE x == [tabs[i] EXCEPT !.hidden = ~tabs[i].hidden]
            n == [tabs EXCEPT ![i] = x]
 <2>1. x \in TbTab /\ x.key = tabs[i].key BY <1>1 DEF TbTab
 <2> HIDE DEF x
 <2>2. n \in [1..2 -> TbTab] /\ n[1].key = tabs[1].key /\ n[2].key = tabs[2].key BY <1>1, <2>1
 <2>3. n \in TabsOf(t) BY <1>1, <2>2 DEF TabsOf
 <2>4. [tabs EXCEPT ![i].hidden = ~@] = n BY DEF x
 <2> QED BY <2>3, <2>4
<1>3. [i \in 1..2 |-> tabs[3 - i]] \in TabsOf(t)
 <2> DEFINE n == [i \in 1..2 |-> tabs[3 - i]]
 <2>1. n \in [1..2 -> TbTab] /\ n[1] = tabs[2] /\ n[2] = tabs[1] BY <1>1
 <2> HIDE DEF n
 <2>2. n \in TabsOf(t) BY <1>1, <2>1 DEF TabsOf
 <2> QED BY <2>2 DEF n
<1> QED BY <1>2, <1>3

LEMMA TbCallIs == ASSUME NEW kind \in {"load", "save", "stop", "leave"}, NEW t \in TbTables, NEW tabs \in TabLists, NEW next \in TbChoices
                  PROVE  /\ TbCall(kind, t, tabs, next) \in TbCallSet
                         /\ TbCall(kind, t, tabs, next).kind = kind /\ TbCall(kind, t, tabs, next).table = t
                         /\ TbCall(kind, t, tabs, next).tabs = tabs /\ ~TbCall(kind, t, tabs, next).served
BY DEF TbCall, TbCallSet

LEMMA TbNone == NoTabs \in TabLists /\ NoneChosen \in TbChoices /\ NoneChosen \notin TbTables
BY DEF TabLists, TbChoices, NoneChosen, TbTables

\* Another table, with nothing under way, or with what is under way seen as an overlap.
LEMMA TbLoadsNext ==
  ASSUME TbTyped, NEW u \in TbUiSet, NEW t \in TbChoices, NEW pending \in SUBSET tbCalls, u.overlap = tbUi.overlap,
         tbUi' = loadConfigForTable(u, t, pending), tbCalls' = pending \cup TbLoad(t), UNCHANGED tbServer,
         ~tbUi.overlap => TbOwnStored
  PROVE  TbInv'
<1> DEFINE o == u.overlap \/ pending # {}
<1>1. o \in BOOLEAN /\ u.overlap \in BOOLEAN BY DEF TbUiSet
<1> HIDE DEF o
<1>2. tbUi' = [u EXCEPT !.table = t, !.tabs = NoTabs, !.original = NoTabs, !.dirty = FALSE, !.overlap = o]
  BY DEF loadConfigForTable, o
<1>3. /\ tbUi' \in TbUiSet /\ tbUi'.table = t /\ tbUi'.tabs = NoTabs /\ tbUi'.original = NoTabs /\ ~tbUi'.dirty
      /\ tbUi'.overlap = o BY <1>1, <1>2, TbNone DEF TbUiSet
<1>4. TbLoad(t) \subseteq TbCallSet /\ \A c \in TbLoad(t) : c.kind = "load"
 <2>1. CASE t = NoneChosen BY <2>1 DEF TbLoad
 <2>2. CASE t \in TbTables BY <2>2, TbNone, TbCallIs DEF TbLoad
 <2> QED BY <2>1, <2>2 DEF TbChoices
<1>5. TbTyped' BY <1>3, <1>4 DEF TbTyped
<1>6. ASSUME ~tbUi'.overlap PROVE TbKept'
 <2>1. ~tbUi.overlap /\ pending = {} /\ tbCalls' = TbLoad(t) BY <1>3, <1>6 DEF o
 <2>2. TbOwnStored' BY <2>1 DEF TbOwnStored
 <2>3. TbShownIsOwn' /\ TbShownIsStored' BY <1>3 DEF TbShownIsOwn, TbShownIsStored
 <2>4. ASSUME NEW c \in tbCalls' PROVE c.kind = "load" /\ TbLoads(c)'
  <3>1. t # NoneChosen /\ tbCalls' = {TbCall("load", t, NoTabs, NoneChosen)} BY <2>1, <2>4 DEF TbLoad
  <3>2. c = TbCall("load", t, NoTabs, NoneChosen) /\ t \in TbTables BY <3>1, <2>4 DEF TbChoices
  <3>3. c.kind = "load" /\ c.table = t /\ ~c.served BY <3>2, TbNone, TbCallIs
  <3> QED BY <1>3, <3>1, <3>2, <3>3 DEF TbLoads
 <2> QED BY <2>2, <2>3, <2>4 DEF TbKept, TbUnderWay
<1> QED BY <1>5, <1>6 DEF TbInv

\* Only the mode or the question changes.
LEMMA TbModeNext ==
  ASSUME TbInv, tbUi' \in TbUiSet, UNCHANGED <<tbServer, tbCalls>>, tbUi'.table = tbUi.table, tbUi'.tabs = tbUi.tabs,
         tbUi'.original = tbUi.original, tbUi'.dirty = tbUi.dirty, tbUi'.overlap = tbUi.overlap
  PROVE  TbInv'
<1>1. TbTyped' BY DEF TbInv, TbTyped
<1>2. ASSUME ~tbUi'.overlap PROVE TbKept'
 <2>1. TbKept BY <1>2 DEF TbInv
 <2>2. TbOwnStored' BY <2>1 DEF TbKept, TbOwnStored
 <2>3. TbShownIsOwn' BY <2>1 DEF TbKept, TbShownIsOwn
 <2>4. TbNow' = TbNow BY DEF TbNow
 <2>5. TbShownIsStored' BY <2>1, <2>4 DEF TbKept, TbShownIsStored
 <2>6. TbUnderWay' BY <2>1, <2>4 DEF TbKept, TbUnderWay, TbLoads, TbSaves
 <2> QED BY <2>2, <2>3, <2>5, <2>6 DEF TbKept
<1> QED BY <1>1, <1>2 DEF TbInv

\* A save starts, with the table and the tabs shown.
LEMMA TbSaveNext ==
  ASSUME TbInv, tbUi' \in TbUiSet, UNCHANGED tbServer, tbUi'.table = tbUi.table, tbUi'.tabs = tbUi.tabs,
         tbUi'.original = tbUi.original, tbUi'.dirty = tbUi.dirty, tbUi'.overlap = tbUi.overlap,
         NEW kind \in {"save", "stop", "leave"}, NEW next \in TbChoices, SomethingToSave,
         tbCalls' = tbCalls \cup {TbCall(kind, tbUi.table, tbUi.tabs, next)}
  PROVE  TbInv'
<1> DEFINE n == TbCall(kind, tbUi.table, tbUi.tabs, next)
<1>1. tbUi.table \in TbTables /\ tbUi.tabs \in TabLists /\ tbUi.tabs # NoTabs
  BY DEF SomethingToSave, TbInv, TbTyped, TbUiSet, TbChoices
<1>2. n \in TbCallSet /\ n.kind = kind /\ n.kind # "load" /\ n.table = tbUi.table /\ n.tabs = tbUi.tabs /\ ~n.served
  BY <1>1, TbCallIs
<1> HIDE DEF n
<1>3. tbCalls' = tbCalls \cup {n} BY DEF n
<1>4. TbTyped' BY <1>1, <1>2, <1>3 DEF TbInv, TbTyped
<1>5. ASSUME ~tbUi'.overlap PROVE TbKept'
 <2>1. TbKept BY <1>5 DEF TbInv
 <2>2. TbOwnStored' BY <2>1 DEF TbKept, TbOwnStored
 <2>3. TbShownIsOwn' BY <2>1 DEF TbKept, TbShownIsOwn
 <2>4. TbNow' = TbNow BY DEF TbNow
 <2>5. TbShownIsStored' BY <1>3, <2>1, <2>4 DEF TbKept, TbShownIsStored
 <2>6. ASSUME NEW c \in tbCalls' PROVE IF c.kind = "load" THEN TbLoads(c)' ELSE TbSaves(c)'
  <3>1. CASE c \in tbCalls
   <4>1. c.kind # "load" /\ TbSaves(c) BY <1>1, <2>1, <3>1 DEF TbKept, TbUnderWay, TbLoads
   <4>2. TbSaves(c)' BY <4>1, <2>4 DEF TbSaves
   <4> QED BY <4>1, <4>2
  <3>2. CASE c = n BY <1>1, <1>2, <3>2 DEF TbSaves, TbSavedNow
  <3> QED BY <1>3, <3>1, <3>2, <2>6
 <2> QED BY <2>2, <2>3, <2>5, <2>6 DEF TbKept, TbUnderWay
<1> QED BY <1>4, <1>5 DEF TbInv

LEMMA TbAnsweredIs == ASSUME TbTyped
  PROVE /\ TbAnswered \in TbUiSet /\ TbAnswered.table = tbUi.table /\ TbAnswered.tabs = tbUi.tabs
        /\ TbAnswered.original = tbUi.original /\ TbAnswered.dirty = tbUi.dirty /\ TbAnswered.overlap = tbUi.overlap
        /\ TbAnswered.edit = tbUi.edit
<1>1. tbUi \in TbUiSet BY DEF TbTyped
<1> QED BY <1>1, TbNone DEF TbAnswered, TbUiSet

LEMMA TbChooses == ASSUME TbInv, NEW t \in TbChoices, chooseTable(t) PROVE TbInv'
<1>1. TbTyped /\ tbUi \in TbUiSet /\ UNCHANGED tbServer /\ (~tbUi.overlap => TbOwnStored)
  BY DEF TbInv, TbTyped, TbKept, chooseTable
<1>2. CASE tbUi.dirty
 <2>1. tbUi' = [tbUi EXCEPT !.question = "leave", !.next = t] /\ UNCHANGED tbCalls BY <1>2 DEF chooseTable
 <2>2. /\ tbUi' \in TbUiSet /\ tbUi'.table = tbUi.table /\ tbUi'.tabs = tbUi.tabs
       /\ tbUi'.original = tbUi.original /\ tbUi'.dirty = tbUi.dirty /\ tbUi'.overlap = tbUi.overlap
   BY <1>1, <2>1 DEF TbUiSet
 <2> QED BY <1>1, <2>1, <2>2, TbModeNext
<1>3. CASE ~tbUi.dirty
 <2>1. tbUi' = loadConfigForTable(tbUi, t, tbCalls) /\ tbCalls' = tbCalls \cup TbLoad(t)
   BY <1>3 DEF chooseTable
 <2> QED BY <1>1, <2>1, TbLoadsNext
<1> QED BY <1>2, <1>3

LEMMA TbDrops == ASSUME TbInv, DropAndLeave PROVE TbInv'
<1>1. TbTyped /\ tbUi.next \in TbChoices /\ (~tbUi.overlap => TbOwnStored)
  BY DEF TbInv, TbTyped, TbKept, TbUiSet
<1>2. /\ tbUi' = loadConfigForTable(TbAnswered, tbUi.next, tbCalls) /\ tbCalls' = tbCalls \cup TbLoad(tbUi.next)
      /\ UNCHANGED tbServer BY DEF DropAndLeave
<1> QED BY <1>1, <1>2, TbAnsweredIs, TbLoadsNext

LEMMA TbSavesAndLeaves == ASSUME TbInv, SaveAndLeave PROVE TbInv'
<1>1. TbTyped /\ tbUi.next \in TbChoices BY DEF TbInv, TbTyped, TbUiSet
<1>2. /\ SomethingToSave /\ tbUi' = TbAnswered /\ UNCHANGED tbServer
      /\ tbCalls' = tbCalls \cup {TbCall("leave", tbUi.table, tbUi.tabs, tbUi.next)} BY DEF SaveAndLeave
<1> QED BY <1>1, <1>2, TbAnsweredIs, TbSaveNext

LEMMA TbEdits == ASSUME TbInv, startEditing \/ leaveEditMode PROVE TbInv'
<1>1. tbUi \in TbUiSet /\ UNCHANGED <<tbServer, tbCalls>> BY DEF TbInv, TbTyped, startEditing, leaveEditMode
<1>2. \/ tbUi' = [tbUi EXCEPT !.edit = TRUE]
      \/ tbUi' = [tbUi EXCEPT !.question = "edit"]
      \/ tbUi' = [tbUi EXCEPT !.edit = FALSE] BY DEF startEditing, leaveEditMode
<1>3. /\ tbUi' \in TbUiSet /\ tbUi'.table = tbUi.table /\ tbUi'.tabs = tbUi.tabs
      /\ tbUi'.original = tbUi.original /\ tbUi'.dirty = tbUi.dirty /\ tbUi'.overlap = tbUi.overlap
  BY <1>1, <1>2 DEF TbUiSet
<1> QED BY <1>1, <1>3, TbModeNext

LEMMA TbSavesAndStops == ASSUME TbInv, saveAndStop PROVE TbInv'
<1> DEFINE e == SomethingToSave
<1>1. e \in BOOLEAN BY DEF SomethingToSave
<1>2. TbTyped /\ tbUi' = [TbAnswered EXCEPT !.edit = e] /\ UNCHANGED tbServer BY DEF TbInv, saveAndStop
<1> HIDE DEF e
<1>3. /\ tbUi' \in TbUiSet /\ tbUi'.table = tbUi.table /\ tbUi'.tabs = tbUi.tabs
      /\ tbUi'.original = tbUi.original /\ tbUi'.dirty = tbUi.dirty /\ tbUi'.overlap = tbUi.overlap
  BY <1>1, <1>2, TbAnsweredIs DEF TbUiSet
<1>4. CASE SomethingToSave
 <2>1. tbCalls' = tbCalls \cup {TbCall("stop", tbUi.table, tbUi.tabs, NoneChosen)} BY <1>4 DEF saveAndStop
 <2> QED BY <1>2, <1>3, <1>4, <2>1, TbNone, TbSaveNext
<1>5. CASE ~SomethingToSave
 <2>1. UNCHANGED tbCalls BY <1>5 DEF saveAndStop
 <2> QED BY <1>2, <1>3, <2>1, TbModeNext
<1> QED BY <1>4, <1>5

LEMMA TbPressesSave == ASSUME TbInv, doSaveTabs PROVE TbInv'
<1>1. tbUi \in TbUiSet BY DEF TbInv, TbTyped
<1>2. /\ SomethingToSave /\ UNCHANGED <<tbServer, tbUi>>
      /\ tbCalls' = tbCalls \cup {TbCall("save", tbUi.table, tbUi.tabs, NoneChosen)} BY DEF doSaveTabs
<1> QED BY <1>1, <1>2, TbNone, TbSaveNext

\* The tabs shown are others, and marked as not saved; or those last stored.
LEMMA TbShowsNext ==
  ASSUME TbInv, NEW tabs \in TabLists, tbUi' \in TbUiSet, UNCHANGED <<tbServer, tbCalls>>,
         tbUi'.table = tbUi.table, tbUi'.original = tbUi.original, tbUi'.tabs = tabs,
         tbUi'.overlap = (tbUi.overlap \/ tbCalls # {}),
         ~tbUi.overlap /\ tbCalls = {} =>
            \/ tbUi.tabs # NoTabs /\ tbUi'.dirty /\ (tbUi.tabs \in TabsOf(tbUi.table) => tabs \in TabsOf(tbUi.table))
            \/ ~tbUi'.dirty /\ tabs = tbUi.original
  PROVE  TbInv'
<1>1. TbTyped' BY DEF TbInv, TbTyped
<1>2. ASSUME ~tbUi'.overlap PROVE TbKept'
 <2>1. TbKept /\ ~tbUi.overlap /\ tbCalls = {} /\ tbCalls' = {} BY <1>2 DEF TbInv
 <2>2. TbOwnStored' /\ TbUnderWay' BY <2>1 DEF TbKept, TbOwnStored, TbUnderWay
 <2>3. TbNow' = TbNow BY DEF TbNow
 <2>4. /\ tbUi.tabs # NoTabs => tbUi.table \in TbTables /\ tbUi.tabs \in TabsOf(tbUi.table)
                                  /\ tbUi.original \in TabsOf(tbUi.table) /\ tbUi.original = TbNow
       /\ tbUi.tabs = NoTabs => tbUi.original = NoTabs BY <2>1 DEF TbKept, TbShownIsOwn, TbShownIsStored
 <2>5. CASE tbUi.tabs # NoTabs /\ tbUi'.dirty /\ (tbUi.tabs \in TabsOf(tbUi.table) => tabs \in TabsOf(tbUi.table))
  <3>1. tabs \in TabsOf(tbUi.table) /\ tbUi.table \in TbTables /\ tabs # NoTabs BY <2>4, <2>5, TbTabs
  <3>2. TbShownIsOwn' /\ TbShownIsStored' BY <2>3, <2>4, <2>5, <3>1 DEF TbShownIsOwn, TbShownIsStored
  <3> QED BY <2>2, <3>2 DEF TbKept
 <2>6. CASE ~tbUi'.dirty /\ tabs = tbUi.original
  <3>1. tbUi.tabs # NoTabs => tabs # NoTabs BY <2>4, <2>6, TbTabs
  <3>2. TbShownIsOwn' /\ TbShownIsStored' BY <2>3, <2>4, <2>6, <3>1 DEF TbShownIsOwn, TbShownIsStored
  <3> QED BY <2>2, <3>2 DEF TbKept
 <2> QED BY <2>1, <2>5, <2>6
<1> QED BY <1>1, <1>2 DEF TbInv

LEMMA TbDropsEdits == ASSUME TbInv, dropChanges PROVE TbInv'
<1> DEFINE o == tbUi.overlap \/ tbCalls # {}
           old == tbUi.original
<1>1. /\ TbTyped /\ tbUi \in TbUiSet /\ UNCHANGED <<tbServer, tbCalls>>
      /\ tbUi' = [TbAnswered EXCEPT !.tabs = tbUi.original, !.dirty = FALSE, !.edit = FALSE,
                                    !.overlap = TbAnswered.overlap \/ tbCalls # {}]
  BY DEF TbInv, TbTyped, dropChanges, DropEdits
<1>2. o \in BOOLEAN /\ o = (TbAnswered.overlap \/ tbCalls # {}) /\ old \in TabLists
  BY <1>1, TbAnsweredIs DEF TbUiSet
<1>3. tbUi' = [TbAnswered EXCEPT !.tabs = old, !.dirty = FALSE, !.edit = FALSE, !.overlap = o] BY <1>1, <1>2
<1> HIDE DEF o, old
<1>4. /\ tbUi' \in TbUiSet /\ tbUi'.table = tbUi.table /\ tbUi'.tabs = old
      /\ tbUi'.original = tbUi.original /\ ~tbUi'.dirty /\ tbUi'.overlap = o
  BY <1>1, <1>2, <1>3, TbAnsweredIs DEF TbUiSet
<1>5. old = tbUi.original /\ o = (tbUi.overlap \/ tbCalls # {}) BY DEF old, o
<1>6. /\ tbUi'.tabs = tbUi.original /\ tbUi.original \in TabLists
      /\ tbUi'.overlap = (tbUi.overlap \/ tbCalls # {}) BY <1>2, <1>4, <1>5
<1> QED BY <1>1, <1>4, <1>6, TbShowsNext

LEMMA TbChanges ==
  ASSUME TbInv, NEW tabs, tbUi.tabs # NoTabs, tbUi.tabs \in [1..2 -> TbTab] => tabs \in [1..2 -> TbTab],
         tbUi.table \in TbTables => (tbUi.tabs \in TabsOf(tbUi.table) => tabs \in TabsOf(tbUi.table)),
         tbUi' = TbChanged(tabs), UNCHANGED <<tbServer, tbCalls>>
  PROVE  TbInv'
<1> DEFINE o == tbUi.overlap \/ tbCalls # {}
<1>1. tbUi \in TbUiSet /\ tabs \in TabLists /\ o \in BOOLEAN BY DEF TbInv, TbTyped, TbUiSet, TabLists
<1>2. tbUi' = [tbUi EXCEPT !.tabs = tabs, !.dirty = TRUE, !.overlap = o] BY DEF TbChanged
<1> HIDE DEF o
<1>3. /\ tbUi' \in TbUiSet /\ tbUi'.table = tbUi.table /\ tbUi'.tabs = tabs
      /\ tbUi'.original = tbUi.original /\ tbUi'.dirty /\ tbUi'.overlap = o BY <1>1, <1>2 DEF TbUiSet
<1>4. ~tbUi.overlap => tbUi.table \in TbTables BY DEF TbInv, TbKept, TbShownIsOwn
<1>5. o = (tbUi.overlap \/ tbCalls # {}) BY DEF o
<1> QED BY <1>1, <1>3, <1>4, <1>5, TbShowsNext

LEMMA TbHides == ASSUME TbInv, NEW i \in 1..2, hideTab(i) PROVE TbInv'
<1> DEFINE h == [tbUi.tabs EXCEPT ![i].hidden = ~@]
<1>1. tbUi.tabs # NoTabs /\ tbUi' = TbChanged(h) /\ UNCHANGED <<tbServer, tbCalls>> BY DEF hideTab
<1>2. ASSUME tbUi.tabs \in [1..2 -> TbTab] PROVE h \in [1..2 -> TbTab] BY <1>2 DEF TbTab
<1>3. ASSUME tbUi.table \in TbTables, tbUi.tabs \in TabsOf(tbUi.table) PROVE h \in TabsOf(tbUi.table)
  BY <1>3, TbChangedIsOwn
<1> HIDE DEF h
<1> QED BY <1>1, <1>2, <1>3, TbChanges

LEMMA TbMoves == ASSUME TbInv, moveTab PROVE TbInv'
<1> DEFINE h == [i \in 1..2 |-> tbUi.tabs[3 - i]]
<1>1. tbUi.tabs # NoTabs /\ tbUi' = TbChanged(h) /\ UNCHANGED <<tbServer, tbCalls>> BY DEF moveTab
<1>2. ASSUME tbUi.tabs \in [1..2 -> TbTab] PROVE h \in [1..2 -> TbTab] BY <1>2
<1>3. ASSUME tbUi.table \in TbTables, tbUi.tabs \in TabsOf(tbUi.table) PROVE h \in TabsOf(tbUi.table)
  BY <1>3, TbChangedIsOwn
<1> HIDE DEF h
<1> QED BY <1>1, <1>2, <1>3, TbChanges

\* An answer is on its way: a load's holds what the rows give, a save's tabs are what the rows give.
LEMMA TbServes == ASSUME TbInv, NEW c \in tbCalls, NEW ok \in BOOLEAN, TbServed(c, ok) PROVE TbInv'
<1> DEFINE now == TbMerged(c.table, tbServer[c.table])
           x == IF c.kind = "load" THEN now ELSE c.tabs
           rows == TbStored(tbServer[c.table], c.tabs)
<1>1. /\ TbTyped /\ c \in TbCallSet /\ c.table \in TbTables /\ tbServer[c.table] \in TbRows /\ c.tabs \in TabLists
      /\ tbServer \in [TbTables -> TbRows] /\ ~c.served /\ tbUi' = tbUi
  BY DEF TbInv, TbTyped, TbCallSet, TbServed
<1>2. x \in TabLists BY <1>1, TbMergedIsOwn, TbTabs
<1>3. PICK d : d = [c EXCEPT !.served = TRUE, !.ok = ok, !.tabs = x] OBVIOUS
<1>4. /\ tbCalls' = (tbCalls \ {c}) \cup {d}
      /\ tbServer' = IF c.kind # "load" /\ ok THEN [tbServer EXCEPT ![c.table] = rows] ELSE tbServer
  BY <1>3 DEF TbServed
<1> HIDE DEF x
<1>5. d \in TbCallSet /\ d.kind = c.kind /\ d.table = c.table /\ d.tabs = x /\ d.served /\ d.ok = ok
  BY <1>1, <1>2, <1>3 DEF TbCallSet
<1> HIDE DEF rows, now
<1>6. d.kind # "load" => d.tabs # NoTabs BY <1>1, <1>5 DEF x, TbTyped
<1>7. TbTyped'
 <2>1. CASE c.kind # "load" /\ ok
  <3>1. rows \in TbRows
   <4> DEFINE a == c.tabs[1].key
              b == c.tabs[2].key
              p == [place |-> 1, hidden |-> c.tabs[1].hidden]
              q == [place |-> 2, hidden |-> c.tabs[2].hidden]
   <4>1. c.tabs \in [1..2 -> TbTab] BY <1>1, <2>1 DEF TbTyped, TabLists
   <4>2. /\ a \in TabKeys /\ b \in TabKeys /\ p \in [place : 0..2, hidden : BOOLEAN]
         /\ q \in [place : 0..2, hidden : BOOLEAN] BY <4>1 DEF TbTab
   <4>3. rows = [tbServer[c.table] EXCEPT ![a] = p, ![b] = q] BY DEF rows, TbStored
   <4> HIDE DEF a, b, p, q
   <4> QED BY <1>1, <4>2, <4>3 DEF TbRows
  <3>2. tbServer' \in [TbTables -> TbRows] BY <1>1, <1>4, <2>1, <3>1
  <3> QED BY <1>1, <1>4, <1>5, <1>6, <3>2 DEF TbTyped
 <2>2. CASE ~(c.kind # "load" /\ ok) BY <1>1, <1>4, <1>5, <1>6, <2>2 DEF TbTyped
 <2> QED BY <2>1, <2>2
<1>8. ASSUME ~tbUi'.overlap PROVE TbKept'
 <2>1. TbKept /\ tbUi' = tbUi BY <1>1, <1>8 DEF TbInv
 <2>2. TbShownIsOwn' BY <2>1 DEF TbKept, TbShownIsOwn
 <2>3. CASE c.kind = "load"
  <3>1. tbCalls = {c} /\ c.table = tbUi.table /\ tbUi.tabs = NoTabs /\ tbServer' = tbServer /\ x = TbNow
    BY <1>4, <2>1, <2>3 DEF TbKept, TbUnderWay, TbLoads, x, now, TbNow
  <3>2. TbOwnStored' /\ TbShownIsStored' /\ TbNow' = TbNow
    BY <2>1, <3>1 DEF TbKept, TbOwnStored, TbShownIsStored, TbNow
  <3>3. tbCalls' = {d} BY <1>4, <3>1
  <3>4. TbLoads(d)' BY <1>5, <2>1, <3>1, <3>2, <3>3 DEF TbLoads
  <3>5. TbUnderWay' BY <1>5, <2>3, <3>3, <3>4 DEF TbUnderWay
  <3> QED BY <2>2, <3>2, <3>5 DEF TbKept
 <2>4. CASE c.kind # "load"
  <3>1. c.table = tbUi.table /\ c.tabs = tbUi.tabs /\ tbUi.tabs # NoTabs /\ tbUi.tabs \in TabsOf(tbUi.table)
    BY <2>1, <2>4 DEF TbKept, TbUnderWay, TbSaves, TbShownIsOwn
  <3>2. \A e \in tbCalls : e.kind # "load" /\ TbSaves(e) BY <2>1, <3>1 DEF TbKept, TbUnderWay, TbLoads
  <3>3. x = tbUi.tabs BY <2>4, <3>1 DEF x
  <3>4. CASE ok
   <4>1. /\ rows \in TbRows /\ TbMerged(c.table, rows) = tbUi.tabs
         /\ \A k \in TabKeys : rows[k].place # 0 => tbServer[c.table][k].place # 0 \/ k \in TbOwnKeys(c.table)
     BY <1>1, <3>1, TbStoredIsMerged DEF rows
   <4>2. tbServer'[c.table] = rows /\ \A t \in TbTables \ {c.table} : tbServer'[t] = tbServer[t]
     BY <1>1, <1>4, <2>4, <3>4
   <4>3. TbNow' = tbUi.tabs BY <2>1, <3>1, <4>1, <4>2 DEF TbNow
   <4>4. TbOwnStored' BY <2>1, <4>1, <4>2 DEF TbKept, TbOwnStored
   <4>5. TbSavedNow(d) /\ d \in tbCalls' BY <1>4, <1>5, <2>4, <3>4 DEF TbSavedNow
   <4>6. TbShownIsStored' BY <2>1, <4>3, <4>5 DEF TbShownIsStored
   <4>7. \A e \in tbCalls' : e.kind # "load" /\ TbSaves(e)'
     BY <1>4, <1>5, <2>1, <2>4, <3>1, <3>2, <3>3, <4>3 DEF TbSaves
   <4>8. TbUnderWay' BY <4>7 DEF TbUnderWay
   <4> QED BY <2>2, <4>4, <4>6, <4>8 DEF TbKept
  <3>5. CASE ~ok
   <4>1. tbServer' = tbServer /\ TbNow' = TbNow BY <1>4, <2>1, <3>5 DEF TbNow
   <4>2. ~TbSavedNow(c) /\ ~TbSavedNow(d) BY <1>1, <1>5, <3>5 DEF TbSavedNow
   <4>3. (\A e \in tbCalls' : ~TbSavedNow(e)) => (\A e \in tbCalls : ~TbSavedNow(e)) BY <1>4, <4>2
   <4>4. TbOwnStored' /\ TbShownIsStored' BY <2>1, <4>1, <4>3 DEF TbKept, TbOwnStored, TbShownIsStored
   <4>5. \A e \in tbCalls' : e.kind # "load" /\ TbSaves(e)'
     BY <1>4, <1>5, <2>1, <2>4, <3>1, <3>2, <3>3, <4>1, <4>2 DEF TbSaves
   <4>6. TbUnderWay' BY <4>5 DEF TbUnderWay
   <4> QED BY <2>2, <4>4, <4>6 DEF TbKept
  <3> QED BY <3>4, <3>5
 <2> QED BY <2>3, <2>4
<1> QED BY <1>7, <1>8 DEF TbInv

LEMMA TbArrivesNext == ASSUME TbInv, NEW c \in tbCalls, TbArrives(c) PROVE TbInv'
<1> DEFINE x == IF c.ok THEN c.tabs ELSE NoTabs
<1>1. /\ TbTyped /\ tbUi \in TbUiSet /\ c \in TbCallSet /\ c.table \in TbTables /\ c.kind = "load" /\ c.served
      /\ c.tabs \in TabLists /\ c.ok \in BOOLEAN
      /\ tbCalls' = tbCalls \ {c} /\ tbServer' = tbServer /\ tbServer[c.table] \in TbRows
  BY DEF TbInv, TbTyped, TbCallSet, TbArrives
<1>2. x \in TabLists /\ tbUi' = [tbUi EXCEPT !.tabs = x, !.original = x] BY <1>1, TbNone DEF TbArrives
<1> HIDE DEF x
<1>3. /\ tbUi' \in TbUiSet /\ tbUi'.table = tbUi.table /\ tbUi'.tabs = x /\ tbUi'.original = x
      /\ tbUi'.dirty = tbUi.dirty /\ tbUi'.overlap = tbUi.overlap BY <1>1, <1>2 DEF TbUiSet
<1>4. TbTyped' BY <1>1, <1>3 DEF TbTyped
<1>5. ASSUME ~tbUi'.overlap PROVE TbKept'
 <2>1. TbKept BY <1>3, <1>5 DEF TbInv
 <2>2. /\ tbCalls = {c} /\ c.table = tbUi.table /\ tbUi.tabs = NoTabs /\ ~tbUi.dirty
       /\ c.ok => c.tabs = TbNow BY <1>1, <2>1 DEF TbKept, TbUnderWay, TbLoads, TbShownIsOwn
 <2>3. TbNow' = TbNow /\ TbNow \in TabsOf(tbUi.table) /\ tbUi.table \in TbTables
   BY <1>1, <1>3, <2>2, TbMergedIsOwn DEF TbNow
 <2>4. x = NoTabs \/ x = TbNow BY <2>2 DEF x
 <2>5. TbOwnStored' /\ TbUnderWay' BY <1>1, <2>1, <2>2 DEF TbKept, TbOwnStored, TbUnderWay
 <2>6. TbShownIsOwn' /\ TbShownIsStored' BY <1>3, <2>2, <2>3, <2>4 DEF TbShownIsOwn, TbShownIsStored
 <2> QED BY <2>5, <2>6 DEF TbKept
<1> QED BY <1>4, <1>5 DEF TbInv

LEMMA TbSavedNext == ASSUME TbInv, NEW c \in tbCalls, TbSaved(c) PROVE TbInv'
<1> DEFINE w == IF c.ok THEN [tbUi EXCEPT !.original = tbUi.tabs, !.dirty = FALSE, !.edit = FALSE] ELSE tbUi
<1>1. /\ TbTyped /\ tbUi \in TbUiSet /\ c \in TbCallSet /\ c.kind \in {"save", "stop", "leave"} /\ c.served
      /\ c.next \in TbChoices /\ c.ok \in BOOLEAN /\ tbServer' = tbServer
  BY DEF TbInv, TbTyped, TbCallSet, TbSaved
<1>2. /\ tbUi' = CASE c.kind = "save" -> w
                    [] c.kind = "stop" -> [w EXCEPT !.edit = FALSE]
                    [] c.kind = "leave" -> loadConfigForTable(w, c.next, tbCalls \ {c})
      /\ tbCalls' = (tbCalls \ {c}) \cup (IF c.kind = "leave" THEN TbLoad(c.next) ELSE {}) BY DEF TbSaved
<1>3. /\ w \in TbUiSet /\ w.table = tbUi.table /\ w.tabs = tbUi.tabs /\ w.overlap = tbUi.overlap
      /\ w.original = IF c.ok THEN tbUi.tabs ELSE tbUi.original
      /\ w.dirty = IF c.ok THEN FALSE ELSE tbUi.dirty BY <1>1 DEF TbUiSet
<1> HIDE DEF w
<1>4. CASE c.kind = "leave"
 <2>1. /\ tbUi' = loadConfigForTable(w, c.next, tbCalls \ {c}) /\ tbCalls' = (tbCalls \ {c}) \cup TbLoad(c.next)
       /\ tbCalls \ {c} \in SUBSET tbCalls BY <1>2, <1>4
 <2>2. ~tbUi.overlap => TbOwnStored BY DEF TbInv, TbKept
 <2> QED BY <1>1, <1>3, <2>1, <2>2, TbLoadsNext
<1>5. CASE c.kind # "leave"
 <2>1. /\ tbUi' \in TbUiSet /\ tbUi'.table = tbUi.table /\ tbUi'.tabs = tbUi.tabs /\ tbUi'.overlap = tbUi.overlap
       /\ tbUi'.original = w.original /\ tbUi'.dirty = w.dirty
  <3>1. tbUi' = w \/ tbUi' = [w EXCEPT !.edit = FALSE] BY <1>1, <1>2, <1>5
  <3> QED BY <1>3, <3>1 DEF TbUiSet
 <2>2. tbCalls' = tbCalls \ {c} BY <1>2, <1>5
 <2>3. TbTyped' BY <1>1, <2>1, <2>2 DEF TbTyped
 <2>4. ASSUME ~tbUi'.overlap PROVE TbKept'
  <3>1. TbKept BY <2>1, <2>4 DEF TbInv
  <3>2. /\ tbUi.tabs # NoTabs /\ tbUi.table \in TbTables /\ tbUi.tabs \in TabsOf(tbUi.table)
        /\ tbUi.original \in TabsOf(tbUi.table)
        /\ c.ok => tbUi.tabs = TbNow BY <1>1, <3>1 DEF TbKept, TbUnderWay, TbSaves, TbSavedNow, TbShownIsOwn
  <3>3. TbNow' = TbNow BY <1>1, <2>1 DEF TbNow
  <3>4. TbOwnStored' BY <1>1, <3>1 DEF TbKept, TbOwnStored
  <3>5. TbShownIsOwn' BY <1>3, <2>1, <3>2 DEF TbShownIsOwn
  <3>6. TbShownIsStored'
   <4>1. CASE c.ok BY <1>3, <2>1, <3>2, <3>3, <4>1 DEF TbShownIsStored
   <4>2. CASE ~c.ok
    <5>1. (\A e \in tbCalls' : ~TbSavedNow(e)) => (\A e \in tbCalls : ~TbSavedNow(e))
      BY <2>2, <4>2 DEF TbSavedNow
    <5> QED BY <1>3, <2>1, <3>1, <3>3, <4>2, <5>1 DEF TbKept, TbShownIsStored
   <4> QED BY <4>1, <4>2
  <3>7. ASSUME NEW e \in tbCalls' PROVE e.kind # "load" /\ TbSaves(e)'
   <4>1. e.kind # "load" /\ TbSaves(e) BY <2>2, <3>1, <3>2, <3>7 DEF TbKept, TbUnderWay, TbLoads
   <4> QED BY <2>1, <3>3, <4>1 DEF TbSaves
  <3>8. TbUnderWay' BY <3>7 DEF TbUnderWay
  <3> QED BY <3>4, <3>5, <3>6, <3>8 DEF TbKept
 <2> QED BY <2>3, <2>4 DEF TbInv
<1> QED BY <1>4, <1>5

LEMMA TbStarts == TbInit => TbInv
<1> SUFFICES ASSUME TbInit PROVE TbInv OBVIOUS
<1>1. /\ tbServer = [t \in TbTables |-> TbNoRows] /\ tbCalls = {}
      /\ tbUi = [table |-> NoneChosen, tabs |-> NoTabs, original |-> NoTabs, edit |-> FALSE, dirty |-> FALSE,
                 question |-> "none", next |-> NoneChosen, overlap |-> FALSE] BY DEF TbInit
<1>2. TbNoRows \in TbRows /\ \A k \in TabKeys : TbNoRows[k].place = 0 BY DEF TbNoRows, TbRows
<1>3. TbTyped BY <1>1, <1>2, TbNone DEF TbTyped, TbUiSet
<1>4. TbOwnStored BY <1>1, <1>2 DEF TbOwnStored
<1>5. TbShownIsOwn /\ TbShownIsStored /\ TbUnderWay BY <1>1 DEF TbShownIsOwn, TbShownIsStored, TbUnderWay
<1> QED BY <1>3, <1>4, <1>5 DEF TbInv, TbKept

LEMMA TbStep == TbInv /\ [TbNext]_tbVars => TbInv'
<1> SUFFICES ASSUME TbInv, [TbNext]_tbVars PROVE TbInv' OBVIOUS
<1>1. CASE UNCHANGED tbVars BY <1>1, TbModeNext DEF tbVars, TbInv, TbTyped
<1>2. CASE TbNext
  BY <1>2, TbChooses, TbDrops, TbSavesAndLeaves, TbEdits, TbDropsEdits, TbSavesAndStops, TbMoves, TbPressesSave, TbHides,
     TbServes, TbArrivesNext, TbSavedNext DEF TbNext, TbChoices
<1> QED BY <1>1, <1>2

TbSpec == TbInit /\ [][TbNext]_tbVars

\* For any number of choices, inputs and calls: what is stored for a table are its own tabs, and with nothing under way
\* the tabs shown are those stored, unless marked as changed (child_tab_config_view.js, child_tab_config.go).
THEOREM TbOwnTabsStored == TbSpec => []TbStoredForItsTable
<1>1. TbInv => TbStoredForItsTable
 <2> SUFFICES ASSUME TbInv, ~tbUi.overlap PROVE TbStoredForItsTable BY DEF TbStoredForItsTable
 <2>1. TbOwnStored /\ TbShownIsOwn /\ TbShownIsStored BY DEF TbInv, TbKept
 <2> QED BY <2>1 DEF TbStoredForItsTable, TbOwnStored, TbShownIsOwn, TbShownIsStored, TbNow
<1> QED BY <1>1, TbStarts, TbStep, PTL DEF TbSpec

-----------------------------------------------------------------------------
(* Pickers: a list shows its options as they are chosen. *)

PkManyAsChosen(d) ==
  /\ d \in ManyLists
  /\ d.text = d.states /\ d.told = d.states
  /\ d.open => \A v \in Values :
        d.rows[v] = IF v \in Matching(d.options, IF d.unfiltered THEN "" ELSE d.search) THEN d.states[v] ELSE NoState
  /\ (d.open <=> d.tracking) /\ (d.frame => d.open) /\ (d.open => d.alive)

PkOneAsChosen(d) ==
  /\ d \in OneLists
  /\ d.told = d.value
  /\ d.open => /\ d.rows = Matching(d.options, IF d.unfiltered THEN "" ELSE d.search)
               /\ d.unmarked \/ d.marked = {d.value} \cap d.rows
  /\ (d.open <=> d.tracking) /\ (d.frame => d.open) /\ (d.open => d.alive)

PkInv == PkManyAsChosen(pkMany) /\ PkOneAsChosen(pkOne)

LEMMA PkMatches == ASSUME NEW options \in SUBSET Values, NEW text \in Searches
                   PROVE  Matching(options, text) \in SUBSET Values BY DEF Matching, Values

LEMMA PkChoices == ASSUME NEW include, NEW exclude
                   PROVE  Choice(include, exclude) \in [Values -> States] BY DEF Choice, States

\* Drawing the list changes its rows, for the text it is drawn with.
LEMMA PkManyDrawn ==
  ASSUME NEW d \in ManyLists, NEW text \in Searches
  PROVE  /\ ManyRows(d, text) \in ManyLists
         /\ ManyRows(d, text) = [d EXCEPT !.rows = ManyRows(d, text).rows]
         /\ \A v \in Values : ManyRows(d, text).rows[v] = IF v \in Matching(d.options, text) THEN d.states[v] ELSE NoState
<1> DEFINE rows == [v \in Values |-> IF v \in Matching(d.options, text) THEN d.states[v] ELSE NoState]
<1>1. rows \in [Values -> States \cup {NoState}] BY DEF ManyLists
<1>2. ManyRows(d, text) = [d EXCEPT !.rows = rows] BY DEF ManyRows
<1>3. \A v \in Values : rows[v] = IF v \in Matching(d.options, text) THEN d.states[v] ELSE NoState OBVIOUS
<1> HIDE DEF rows
<1> QED BY <1>1, <1>2, <1>3 DEF ManyLists

LEMMA PkOneDrawn ==
  ASSUME NEW d \in OneLists, NEW text \in Searches
  PROVE  /\ OneRows(d, text) \in OneLists
         /\ OneRows(d, text) = [d EXCEPT !.rows = Matching(d.options, text),
                                         !.marked = {d.value} \cap Matching(d.options, text)]
BY PkMatches DEF OneRows, OneLists

\* Choices set: the text, the owner and the rows follow.
LEMMA PkManyIsSet ==
  ASSUME NEW d, PkManyAsChosen(d), NEW states \in [Values -> States]
  PROVE  PkManyAsChosen(ManySet(d, states))
<1> DEFINE e == [d EXCEPT !.states = states, !.text = states, !.told = states, !.unfiltered = FALSE]
<1>1. /\ d \in ManyLists /\ e \in ManyLists /\ d.search \in Searches /\ e.search = d.search
      /\ e.states = states /\ e.text = states /\ e.told = states /\ ~e.unfiltered
      /\ e.open = d.open /\ e.tracking = d.tracking /\ e.frame = d.frame /\ e.alive = d.alive /\ e.options = d.options
  BY DEF PkManyAsChosen, ManyLists
<1>2. ManySet(d, states) = ManyRows(e, d.search) BY DEF ManySet
<1> HIDE DEF e
<1>3. /\ ManyRows(e, d.search) \in ManyLists
      /\ ManyRows(e, d.search) = [e EXCEPT !.rows = ManyRows(e, d.search).rows]
      /\ \A v \in Values : ManyRows(e, d.search).rows[v] = IF v \in Matching(e.options, d.search) THEN e.states[v] ELSE NoState
  BY <1>1, PkManyDrawn
<1> DEFINE f == ManyRows(e, d.search)
<1>4. /\ f.search = d.search /\ f.states = states /\ f.text = states /\ f.told = states /\ ~f.unfiltered
      /\ f.open = d.open /\ f.tracking = d.tracking /\ f.frame = d.frame /\ f.alive = d.alive /\ f.options = d.options
  BY <1>1, <1>3 DEF ManyLists
<1>5. /\ f \in ManyLists
      /\ \A v \in Values : f.rows[v] = IF v \in Matching(f.options, f.search) THEN f.states[v] ELSE NoState
  BY <1>1, <1>3, <1>4
<1>6. f = ManySet(d, states) BY <1>2
<1>7. (d.open <=> d.tracking) /\ (d.frame => d.open) /\ (d.open => d.alive) BY DEF PkManyAsChosen
<1> HIDE DEF f
<1> QED BY <1>4, <1>5, <1>6, <1>7 DEF PkManyAsChosen

LEMMA PkOneIsSet ==
  ASSUME NEW d, PkOneAsChosen(d), NEW v \in Values \cup {NoValue}
  PROVE  /\ PkOneAsChosen(OneSet(d, v))
         /\ d.open /\ v \in d.rows => PkOneAsChosen([OneSet(d, v) EXCEPT !.marked = {v}, !.unmarked = FALSE, !.closing = TRUE])
<1> DEFINE text == IF v \in d.options THEN v ELSE NoValue
           e == OneSet(d, v)
<1>1. e = [d EXCEPT !.value = v, !.told = v, !.text = text, !.unmarked = TRUE] /\ text \in Values \cup {NoValue}
  BY DEF OneSet
<1> HIDE DEF text, e
<1>2. /\ e \in OneLists /\ e.value = v /\ e.told = v /\ e.unmarked /\ e.rows = d.rows /\ e.options = d.options /\ e.search = d.search
      /\ e.unfiltered = d.unfiltered /\ e.open = d.open /\ e.tracking = d.tracking /\ e.frame = d.frame /\ e.alive = d.alive
  BY <1>1 DEF PkOneAsChosen, OneLists
<1>3. PkOneAsChosen(e) BY <1>2 DEF PkOneAsChosen
<1> DEFINE f == [e EXCEPT !.marked = {v}, !.unmarked = FALSE, !.closing = TRUE]
<1>4. ASSUME d.open, v \in d.rows PROVE PkOneAsChosen(f)
 <2>1. d.rows \in SUBSET Values /\ {v} \in SUBSET Values BY <1>4 DEF PkOneAsChosen, OneLists
 <2>2. f \in OneLists BY <1>2, <2>1 DEF OneLists
 <2>3. /\ f.value = v /\ f.told = v /\ f.marked = {v} /\ f.rows = d.rows /\ f.options = d.options /\ f.search = d.search
       /\ f.unfiltered = d.unfiltered /\ f.open = d.open /\ f.tracking = d.tracking /\ f.frame = d.frame /\ f.alive = d.alive
   BY <1>2 DEF OneLists
 <2>4. f.marked = {f.value} \cap f.rows BY <1>4, <2>3
 <2> HIDE DEF f
 <2> QED BY <2>2, <2>3, <2>4 DEF PkOneAsChosen
<1> QED BY <1>3, <1>4 DEF e, f

\* A list that closes, opens or is destroyed; both kinds do it in the same way.
LEMMA PkManyOpens ==
  ASSUME NEW d, PkManyAsChosen(d)
  PROVE  /\ PkManyAsChosen(close(d)) /\ PkManyAsChosen(destroyed(d))
         /\ d.alive => PkManyAsChosen(openMany(d))
         /\ \A frame \in BOOLEAN : (frame => d.open) => PkManyAsChosen([d EXCEPT !.frame = frame])
<1>1. PkManyAsChosen(close(d)) /\ PkManyAsChosen(destroyed(d))
  BY DEF close, destroyed, stopPositionTracking, PkManyAsChosen, ManyLists
<1>2. ASSUME d.alive PROVE PkManyAsChosen(openMany(d))
 <2> DEFINE e == [startPositionTracking(d) EXCEPT !.search = "", !.unfiltered = FALSE]
            f == ManyRows(e, "")
 <2>1. /\ e \in ManyLists /\ "" \in Searches /\ e.text = d.text /\ e.states = d.states /\ e.told = d.told /\ e.options = d.options
       /\ e.search = "" /\ ~e.unfiltered /\ e.open /\ e.tracking /\ e.alive
   BY <1>2 DEF startPositionTracking, PkManyAsChosen, ManyLists, Searches
 <2>2. openMany(d) = f BY DEF openMany
 <2> HIDE DEF e
 <2>3. /\ f \in ManyLists /\ f = [e EXCEPT !.rows = f.rows]
       /\ \A v \in Values : f.rows[v] = IF v \in Matching(e.options, "") THEN e.states[v] ELSE NoState
   BY <2>1, PkManyDrawn
 <2> HIDE DEF f
 <2>4. /\ f.text = d.text /\ f.states = d.states /\ f.told = d.told /\ f.options = e.options /\ f.states = e.states
       /\ f.search = "" /\ ~f.unfiltered /\ f.open /\ f.tracking /\ f.alive BY <2>1, <2>3 DEF ManyLists
 <2>5. d.text = d.states /\ d.told = d.states BY DEF PkManyAsChosen
 <2>6. Matching(e.options, "") = Matching(f.options, IF f.unfiltered THEN "" ELSE f.search) BY <2>4
 <2>7. \A v \in Values : f.rows[v] = IF v \in Matching(f.options, IF f.unfiltered THEN "" ELSE f.search)
                                    THEN f.states[v] ELSE NoState
  <3>1. f.states = e.states /\ \A v \in Values : f.rows[v] = IF v \in Matching(e.options, "") THEN e.states[v] ELSE NoState
    BY <2>3, <2>4
  <3> QED BY <2>6, <3>1
 <2>8. PkManyAsChosen(f) BY <2>3, <2>4, <2>5, <2>7 DEF PkManyAsChosen
 <2> QED BY <2>2, <2>8
<1>3. ASSUME NEW frame \in BOOLEAN, frame => d.open PROVE PkManyAsChosen([d EXCEPT !.frame = frame])
  BY <1>3 DEF PkManyAsChosen, ManyLists
<1> QED BY <1>1, <1>2, <1>3

LEMMA PkOneOpens ==
  ASSUME NEW d, PkOneAsChosen(d)
  PROVE  /\ PkOneAsChosen(close(d)) /\ PkOneAsChosen(destroyed(d)) /\ PkOneAsChosen([close(d) EXCEPT !.closing = FALSE])
         /\ d.alive => PkOneAsChosen(openOne(d))
         /\ \A frame \in BOOLEAN : (frame => d.open) => PkOneAsChosen([d EXCEPT !.frame = frame])
<1>1. PkOneAsChosen(close(d)) /\ PkOneAsChosen(destroyed(d)) /\ PkOneAsChosen([close(d) EXCEPT !.closing = FALSE])
  BY DEF close, destroyed, stopPositionTracking, PkOneAsChosen, OneLists
<1>2. ASSUME d.alive PROVE PkOneAsChosen(openOne(d))
 <2> DEFINE e == [startPositionTracking(d) EXCEPT !.search = "", !.unfiltered = FALSE, !.unmarked = FALSE]
            f == OneRows(e, "")
 <2>1. /\ e \in OneLists /\ "" \in Searches /\ e.told = d.told /\ e.value = d.value /\ e.options = d.options
       /\ e.search = "" /\ ~e.unfiltered /\ e.open /\ e.tracking /\ e.alive
   BY <1>2 DEF startPositionTracking, PkOneAsChosen, OneLists, Searches
 <2>2. openOne(d) = f BY DEF openOne
 <2> HIDE DEF e
 <2> DEFINE rows == Matching(e.options, "")
            marked == {e.value} \cap rows
 <2>3. f \in OneLists /\ f = [e EXCEPT !.rows = rows, !.marked = marked] BY <2>1, PkOneDrawn
 <2> HIDE DEF f, rows, marked
 <2>4. /\ f.told = d.told /\ f.value = d.value /\ f.value = e.value /\ f.options = e.options
       /\ f.search = "" /\ ~f.unfiltered /\ f.open /\ f.tracking /\ f.alive /\ f.rows = rows /\ f.marked = marked
   BY <2>1, <2>3 DEF OneLists
 <2>5. d.told = d.value BY DEF PkOneAsChosen
 <2>6. f.rows = Matching(f.options, "") /\ f.marked = {f.value} \cap f.rows BY <2>4 DEF rows, marked
 <2> QED BY <2>2, <2>3, <2>4, <2>5, <2>6 DEF PkOneAsChosen
<1>3. ASSUME NEW frame \in BOOLEAN, frame => d.open PROVE PkOneAsChosen([d EXCEPT !.frame = frame])
  BY <1>3 DEF PkOneAsChosen, OneLists
<1> QED BY <1>1, <1>2, <1>3

\* A search, and other options, draw the list again.
LEMMA PkManyIsDrawnAgain ==
  ASSUME NEW d, PkManyAsChosen(d), NEW options \in SUBSET Values, NEW search \in Searches, NEW unfiltered \in BOOLEAN,
         NEW text, text = IF unfiltered THEN "" ELSE search
  PROVE  PkManyAsChosen(ManyRows([d EXCEPT !.options = options, !.search = search, !.unfiltered = unfiltered], text))
<1> DEFINE e == [d EXCEPT !.options = options, !.search = search, !.unfiltered = unfiltered]
           f == ManyRows(e, text)
<1>1. /\ e \in ManyLists /\ text \in Searches /\ e.text = d.text /\ e.states = d.states /\ e.told = d.told /\ e.options = options
      /\ e.search = search /\ e.unfiltered = unfiltered /\ e.open = d.open /\ e.tracking = d.tracking
      /\ e.frame = d.frame /\ e.alive = d.alive BY DEF PkManyAsChosen, ManyLists, Searches
<1> HIDE DEF e
<1>2. /\ f \in ManyLists /\ f = [e EXCEPT !.rows = f.rows]
      /\ \A v \in Values : f.rows[v] = IF v \in Matching(e.options, text) THEN e.states[v] ELSE NoState
  BY <1>1, PkManyDrawn
<1> HIDE DEF f
<1>3. /\ f.text = d.text /\ f.states = d.states /\ f.told = d.told /\ f.options = e.options /\ f.states = e.states
      /\ f.search = search /\ f.unfiltered = unfiltered /\ f.open = d.open /\ f.tracking = d.tracking
      /\ f.frame = d.frame /\ f.alive = d.alive BY <1>1, <1>2 DEF ManyLists
<1>4. d.text = d.states /\ d.told = d.states /\ (d.open <=> d.tracking) /\ (d.frame => d.open) /\ (d.open => d.alive)
  BY DEF PkManyAsChosen
<1>5. Matching(e.options, text) = Matching(f.options, IF f.unfiltered THEN "" ELSE f.search) BY <1>1, <1>3
<1>6. \A v \in Values : f.rows[v] = IF v \in Matching(f.options, IF f.unfiltered THEN "" ELSE f.search)
                                   THEN f.states[v] ELSE NoState BY <1>2, <1>3, <1>5
<1>7. PkManyAsChosen(f) BY <1>2, <1>3, <1>4, <1>6 DEF PkManyAsChosen
<1> QED BY <1>7 DEF e, f

LEMMA PkOneIsDrawnAgain ==
  ASSUME NEW d, PkOneAsChosen(d), NEW options \in SUBSET Values, NEW search \in Searches, NEW unfiltered \in BOOLEAN,
         NEW text, text = IF unfiltered THEN "" ELSE search
  PROVE  PkOneAsChosen(OneRows([d EXCEPT !.options = options, !.search = search, !.unfiltered = unfiltered,
                                         !.unmarked = FALSE], text))
<1> DEFINE e == [d EXCEPT !.options = options, !.search = search, !.unfiltered = unfiltered, !.unmarked = FALSE]
           f == OneRows(e, text)
           rows == Matching(e.options, text)
           marked == {e.value} \cap rows
<1>1. /\ e \in OneLists /\ text \in Searches /\ e.told = d.told /\ e.value = d.value /\ e.options = options
      /\ e.search = search /\ e.unfiltered = unfiltered /\ e.open = d.open /\ e.tracking = d.tracking
      /\ e.frame = d.frame /\ e.alive = d.alive BY DEF PkOneAsChosen, OneLists, Searches
<1> HIDE DEF e
<1>2. f \in OneLists /\ f = [e EXCEPT !.rows = rows, !.marked = marked] BY <1>1, PkOneDrawn
<1> HIDE DEF f, rows, marked
<1>3. /\ f.told = d.told /\ f.value = d.value /\ f.value = e.value /\ f.options = e.options
      /\ f.search = search /\ f.unfiltered = unfiltered /\ f.open = d.open /\ f.tracking = d.tracking
      /\ f.frame = d.frame /\ f.alive = d.alive /\ f.rows = rows /\ f.marked = marked
  BY <1>1, <1>2 DEF OneLists
<1>4. f.rows = Matching(f.options, IF f.unfiltered THEN "" ELSE f.search) /\ f.marked = {f.value} \cap f.rows
  BY <1>3 DEF rows, marked
<1>5. d.told = d.value /\ (d.open <=> d.tracking) /\ (d.frame => d.open) /\ (d.open => d.alive)
  BY DEF PkOneAsChosen
<1>6. PkOneAsChosen(f) BY <1>2, <1>3, <1>4, <1>5 DEF PkOneAsChosen
<1> QED BY <1>6 DEF e, f

LEMMA PkStarts == PkInit => PkInv
<1> SUFFICES ASSUME PkInit PROVE PkInv OBVIOUS
<1>1. PkManyAsChosen(pkMany)
 <2>1. PICK options \in SUBSET Values, include \in SUBSET Values, exclude \in SUBSET Values, allow \in BOOLEAN :
          LET states == Choice(include, exclude) IN
          pkMany = ManyRows([options |-> options, states |-> states, told |-> states, search |-> "", rows |-> Neutral,
                             allow |-> allow, text |-> states, open |-> FALSE, tracking |-> FALSE, frame |-> FALSE,
                             alive |-> TRUE, unfiltered |-> FALSE], "") BY DEF PkInit
 <2> DEFINE states == Choice(include, exclude)
            e == [options |-> options, states |-> states, told |-> states, search |-> "", rows |-> Neutral,
                  allow |-> allow, text |-> states, open |-> FALSE, tracking |-> FALSE, frame |-> FALSE,
                  alive |-> TRUE, unfiltered |-> FALSE]
 <2>2. states \in [Values -> States] /\ Neutral \in [Values -> States] BY PkChoices DEF Neutral
 <2> HIDE DEF states
 <2>3. Neutral \in [Values -> States \cup {NoState}] BY <2>2
 <2>4. e \in ManyLists BY <2>2, <2>3 DEF ManyLists, Searches
 <2>5. pkMany \in ManyLists /\ pkMany = [e EXCEPT !.rows = pkMany.rows]
   BY <2>1, <2>4, PkManyDrawn DEF states, Searches
 <2>6. pkMany.text = pkMany.states /\ pkMany.told = pkMany.states /\ ~pkMany.open /\ ~pkMany.tracking /\ ~pkMany.frame
   BY <2>5
 <2> QED BY <2>5, <2>6 DEF PkManyAsChosen
<1>2. PkOneAsChosen(pkOne)
 <2>1. PICK options \in SUBSET Values :
          pkOne = [options |-> options, value |-> NoValue, told |-> NoValue, search |-> "", rows |-> options,
                   marked |-> {}, text |-> NoValue, open |-> FALSE, tracking |-> FALSE, frame |-> FALSE,
                   alive |-> TRUE, closing |-> FALSE, unfiltered |-> FALSE, unmarked |-> FALSE] BY DEF PkInit
 <2>2. pkOne \in OneLists BY <2>1 DEF OneLists, Searches
 <2>3. pkOne.told = pkOne.value /\ ~pkOne.open /\ ~pkOne.tracking /\ ~pkOne.frame BY <2>1
 <2> QED BY <2>2, <2>3 DEF PkOneAsChosen
<1> QED BY <1>1, <1>2 DEF PkInv

LEMMA PkStep == PkInv /\ [PkNext]_pkVars => PkInv'
<1> SUFFICES ASSUME PkInv, [PkNext]_pkVars PROVE PkInv' OBVIOUS
<1> USE DEF PkInput
<1>1. PkManyAsChosen(pkMany) /\ PkOneAsChosen(pkOne) BY DEF PkInv
<1>2. /\ pkMany.states \in [Values -> States] /\ pkMany.options \in SUBSET Values /\ pkMany.search \in Searches
      /\ pkMany.unfiltered \in BOOLEAN /\ pkMany.frame \in BOOLEAN /\ pkMany.tracking \in BOOLEAN /\ pkMany.open \in BOOLEAN
      /\ pkMany.frame => pkMany.open
      /\ pkMany = [pkMany EXCEPT !.options = pkMany.options] BY <1>1 DEF PkManyAsChosen, ManyLists
<1>3. /\ pkOne.value \in Values \cup {NoValue} /\ pkOne.options \in SUBSET Values /\ pkOne.search \in Searches
      /\ pkOne.unfiltered \in BOOLEAN /\ pkOne.frame \in BOOLEAN /\ pkOne.tracking \in BOOLEAN /\ pkOne.open \in BOOLEAN
      /\ pkOne.frame => pkOne.open BY <1>1 DEF PkOneAsChosen, OneLists
<1>4. CASE UNCHANGED pkVars BY <1>1, <1>4 DEF pkVars, PkInv
<1>5. ASSUME toggleMany \/ toggleOne \/ handleOutsideClick \/ destroyMany \/ destroyOne \/ closeChosen PROVE PkInv'
 <2>1. PkManyAsChosen(pkMany')
  <3>1. \/ pkMany' \in {pkMany, close(pkMany), destroyed(pkMany)}
        \/ pkMany.alive /\ pkMany' = openMany(pkMany)
    BY <1>5 DEF toggleMany, toggleOne, handleOutsideClick, destroyMany, destroyOne, closeChosen
  <3> QED BY <1>1, <3>1, PkManyOpens
 <2>2. PkOneAsChosen(pkOne')
  <3>1. \/ pkOne' \in {pkOne, close(pkOne), destroyed(pkOne), [close(pkOne) EXCEPT !.closing = FALSE]}
        \/ pkOne.alive /\ pkOne' = openOne(pkOne)
    BY <1>5 DEF toggleMany, toggleOne, handleOutsideClick, destroyMany, destroyOne, closeChosen
  <3> QED BY <1>1, <3>1, PkOneOpens
 <2> QED BY <2>1, <2>2 DEF PkInv
<1>6. ASSUME schedulePositionUpdate \/ positionMany \/ positionOne PROVE PkInv'
 <2>1. PkManyAsChosen(pkMany')
  <3>1. pkMany' = pkMany \/ \E frame \in BOOLEAN : (frame => pkMany.open) /\ pkMany' = [pkMany EXCEPT !.frame = frame]
    BY <1>2, <1>6 DEF schedulePositionUpdate, positionMany, positionOne
  <3> QED BY <1>1, <3>1, PkManyOpens
 <2>2. PkOneAsChosen(pkOne')
  <3>1. pkOne' = pkOne \/ \E frame \in BOOLEAN : (frame => pkOne.open) /\ pkOne' = [pkOne EXCEPT !.frame = frame]
    BY <1>3, <1>6 DEF schedulePositionUpdate, positionMany, positionOne
  <3> QED BY <1>1, <3>1, PkOneOpens
 <2> QED BY <2>1, <2>2 DEF PkInv
<1>7. ASSUME NEW text \in Searches, searchMany(text) \/ searchOne(text) PROVE PkInv'
 <2>1. CASE searchMany(text)
  <3>1. pkMany \in ManyLists BY <1>1 DEF PkManyAsChosen
  <3>2. [pkMany EXCEPT !.search = text, !.unfiltered = FALSE]
          = [pkMany EXCEPT !.options = pkMany.options, !.search = text, !.unfiltered = FALSE]
    BY <3>1 DEF ManyLists
  <3>3. PkManyAsChosen(ManyRows([pkMany EXCEPT !.options = pkMany.options, !.search = text, !.unfiltered = FALSE], text))
    BY <1>1, <1>2, PkManyIsDrawnAgain
  <3> QED BY <1>1, <2>1, <3>2, <3>3 DEF PkInv, searchMany
 <2>2. CASE searchOne(text)
  <3>1. pkOne \in OneLists BY <1>1 DEF PkOneAsChosen
  <3>2. [pkOne EXCEPT !.search = text, !.unfiltered = FALSE, !.unmarked = FALSE]
          = [pkOne EXCEPT !.options = pkOne.options, !.search = text, !.unfiltered = FALSE, !.unmarked = FALSE]
    BY <3>1 DEF OneLists
  <3>3. PkOneAsChosen(OneRows([pkOne EXCEPT !.options = pkOne.options, !.search = text, !.unfiltered = FALSE,
                                            !.unmarked = FALSE], text)) BY <1>1, <1>3, PkOneIsDrawnAgain
  <3> QED BY <1>1, <2>2, <3>2, <3>3 DEF PkInv, searchOne
 <2> QED BY <1>7, <2>1, <2>2
<1>8. ASSUME NEW v \in Values, toggleCheckboxState(v) \/ activateExcludeState(v) \/ chooseOne(v) \/ ownerSetsOne(v)
      PROVE  PkInv'
 <2>1. CASE toggleCheckboxState(v) \/ activateExcludeState(v)
  <3>1. \E states \in [Values -> States] : pkMany' = ManySet(pkMany, states)
    BY <1>2, <2>1 DEF toggleCheckboxState, activateExcludeState, States
  <3>2. pkOne' = pkOne BY <2>1 DEF toggleCheckboxState, activateExcludeState
  <3> QED BY <1>1, <3>1, <3>2, PkManyIsSet DEF PkInv
 <2>2. CASE chooseOne(v)
  <3>1. PkOneAsChosen([OneSet(pkOne, v) EXCEPT !.marked = {v}, !.unmarked = FALSE, !.closing = TRUE])
    BY <1>1, <2>2, PkOneIsSet DEF chooseOne
  <3> QED BY <1>1, <2>2, <3>1 DEF PkInv, chooseOne
 <2>3. CASE ownerSetsOne(v)
  <3>1. PkOneAsChosen(OneSet(pkOne, v)) BY <1>1, PkOneIsSet
  <3> QED BY <1>1, <2>3, <3>1 DEF PkInv, ownerSetsOne
 <2> QED BY <1>8, <2>1, <2>2, <2>3
<1>9. ASSUME clearMany \/ clearOne PROVE PkInv'
 <2>1. CASE clearMany
  <3>1. Neutral \in [Values -> States] BY PkChoices DEF Neutral
  <3>2. PkManyAsChosen(ManySet(pkMany, Neutral)) BY <1>1, <3>1, PkManyIsSet
  <3> QED BY <1>1, <2>1, <3>2, PkManyOpens DEF PkInv, clearMany
 <2>2. CASE clearOne
  <3>1. PkOneAsChosen(OneSet(pkOne, NoValue)) BY <1>1, PkOneIsSet
  <3> QED BY <1>1, <2>2, <3>1, PkOneOpens DEF PkInv, clearOne
 <2> QED BY <1>9, <2>1, <2>2
<1>10. ASSUME NEW include \in SUBSET Values, NEW exclude \in SUBSET Values, ownerSetsMany(include, exclude) PROVE PkInv'
  BY <1>1, <1>10, PkChoices, PkManyIsSet DEF PkInv, ownerSetsMany
<1>11. ASSUME NEW options \in SUBSET Values, setOptionsMany(options) \/ setOptionsOne(options) PROVE PkInv'
 <2>1. CASE setOptionsMany(options)
  <3>1. pkMany \in ManyLists BY <1>1 DEF PkManyAsChosen
  <3>2. [pkMany EXCEPT !.options = options, !.unfiltered = TRUE]
          = [pkMany EXCEPT !.options = options, !.search = pkMany.search, !.unfiltered = TRUE]
    BY <3>1 DEF ManyLists
  <3>3. PkManyAsChosen(ManyRows([pkMany EXCEPT !.options = options, !.search = pkMany.search, !.unfiltered = TRUE], ""))
    BY <1>1, <1>2, PkManyIsDrawnAgain
  <3> QED BY <1>1, <2>1, <3>2, <3>3 DEF PkInv, setOptionsMany
 <2>2. CASE setOptionsOne(options)
  <3> DEFINE d == OneSet(pkOne, NoValue)
  <3>1. PkOneAsChosen(d) BY <1>1, PkOneIsSet
  <3>2. /\ OneSet([pkOne EXCEPT !.options = options], NoValue) = [d EXCEPT !.options = options]
        /\ d.search = pkOne.search /\ d \in OneLists
   <4>1. /\ pkOne \in OneLists /\ d \in OneLists
         /\ (IF NoValue \in pkOne.options THEN NoValue ELSE NoValue) = NoValue
     BY <1>1, <3>1 DEF PkOneAsChosen
   <4>2. d = [pkOne EXCEPT !.value = NoValue, !.told = NoValue, !.text = NoValue, !.unmarked = TRUE]
     BY <4>1 DEF OneSet
   <4>3. OneSet([pkOne EXCEPT !.options = options], NoValue)
           = [pkOne EXCEPT !.options = options, !.value = NoValue, !.told = NoValue, !.text = NoValue, !.unmarked = TRUE]
     BY <4>1 DEF OneSet, OneLists
   <4> HIDE DEF d
   <4> QED BY <4>1, <4>2, <4>3 DEF OneLists
  <3> HIDE DEF d
  <3>3. [[d EXCEPT !.options = options] EXCEPT !.unfiltered = TRUE, !.unmarked = FALSE]
          = [d EXCEPT !.options = options, !.search = d.search, !.unfiltered = TRUE, !.unmarked = FALSE]
    BY <3>2 DEF OneLists
  <3>4. PkOneAsChosen(OneRows([d EXCEPT !.options = options, !.search = d.search, !.unfiltered = TRUE,
                                        !.unmarked = FALSE], "")) BY <1>3, <3>1, <3>2, PkOneIsDrawnAgain
  <3> QED BY <1>1, <2>2, <3>2, <3>3, <3>4 DEF PkInv, setOptionsOne
 <2> QED BY <1>11, <2>1, <2>2
<1>12. CASE PkNext BY <1>5, <1>6, <1>7, <1>8, <1>9, <1>10, <1>11, <1>12 DEF PkNext
<1> QED BY <1>4, <1>12

PkSpec == PkInit /\ [][PkNext]_pkVars

\* For any number of clicks, searches, scrolls, values and options: an open list shows the options that match its search
\* as they are chosen now, its field and its owner know the same choice, and it follows its field exactly while it is open
\* (the drop-down lists of several values and of one).
THEOREM PkShowsTheChoice == PkSpec => []PkListsAsChosen
<1>1. PkInv => PkListsAsChosen BY DEF PkInv, PkManyAsChosen, PkOneAsChosen, PkListsAsChosen
<1> QED BY <1>1, PkStarts, PkStep, PTL DEF PkSpec

-----------------------------------------------------------------------------
(* FilterControls: the table state, the URL and the tags agree on what is filtered. *)

FcUis == [filters : [FcKeys -> 0..1], params : [FcKeys -> 0..1], term : FcTerms, value : 0..1, from : 0..1, query : 0..1,
          last : 0..1, timers : SUBSET {"value", "from"}, mode : FcModes, drop : FcDrops, saved : FcDrops,
          options : {"lazy", "loading", "loaded", "failed"}, cached : BOOLEAN, tags : SUBSET (FcKeys \cup {"search"}),
          refresh : {"none", "pending", "failed"}]
FcSearches == [text : FcTerms, box : [FcBoxes -> FcTerms], located : BOOLEAN, check : BOOLEAN, gps : BOOLEAN, asking : BOOLEAN]

\* What both stores hold, whatever the tags show.
FcSame(u) == u \in FcUis /\ u.filters = u.params /\ (u.filters.in = 0 \/ u.filters.ex = 0)
FcUiAgrees(u) == FcSame(u) /\ (u.refresh = "none" => u.tags = FcTags(u))
FcBoxesAgree(s) == s \in FcSearches /\ (\A b \in FcBoxes : s.box[b] = s.text) /\ s.check = s.located

FcInv ==
  /\ FcUiAgrees(fcUi) /\ FcBoxesAgree(fcSearch)
  /\ fcCommit \in [FcCommits -> [pc : {"idle", "gps", "done"}, query : FcTerms]]

LEMMA FcTagsAreKeys == ASSUME NEW u PROVE FcTags(u) \in SUBSET (FcKeys \cup {"search"}) BY DEF FcTags

\* Tags that are drawn again are those of the table state.
LEMMA FcRendered == ASSUME NEW u, FcSame(u) PROVE FcUiAgrees(renderActiveFilters(u))
<1> DEFINE tags == FcTags(u)
           e == [u EXCEPT !.tags = tags]
<1>1. e = renderActiveFilters(u) /\ tags \in SUBSET (FcKeys \cup {"search"})
  BY FcTagsAreKeys DEF renderActiveFilters
<1>2. u \in FcUis /\ u.filters = u.params /\ (u.filters.in = 0 \/ u.filters.ex = 0) BY DEF FcSame
<1> HIDE DEF tags
<1>3. e \in FcUis /\ e.filters = u.filters /\ e.params = u.params /\ e.term = u.term /\ e.tags = tags
  BY <1>1, <1>2 DEF FcUis
<1>4. FcTags(e) = tags BY <1>3 DEF FcTags, tags
<1> HIDE DEF e
<1> QED BY <1>1, <1>2, <1>3, <1>4 DEF FcUiAgrees, FcSame

\* Until a refresh that is pending ends, or when it failed, the tags may be older.
LEMMA FcPending ==
  ASSUME NEW u, FcSame(u), NEW refresh \in {"pending", "failed"}
  PROVE  /\ FcUiAgrees([u EXCEPT !.refresh = refresh]) /\ FcUiAgrees(FcRefresh(u))
         /\ FcUiAgrees([renderActiveFilters(u) EXCEPT !.refresh = refresh])
<1>1. ASSUME NEW d, FcSame(d), NEW r \in {"pending", "failed"} PROVE FcUiAgrees([d EXCEPT !.refresh = r])
 <2>1. d \in FcUis /\ d.filters = d.params /\ (d.filters.in = 0 \/ d.filters.ex = 0) BY <1>1 DEF FcSame
 <2> DEFINE e == [d EXCEPT !.refresh = r]
 <2>2. e \in FcUis /\ e.filters = d.filters /\ e.params = d.params /\ e.refresh = r /\ r # "none"
   BY <2>1 DEF FcUis
 <2> HIDE DEF e
 <2>3. FcUiAgrees(e) BY <2>1, <2>2 DEF FcUiAgrees, FcSame
 <2> QED BY <2>3 DEF e
<1>2. FcUiAgrees(renderActiveFilters(u)) /\ FcSame(renderActiveFilters(u)) BY FcRendered DEF FcUiAgrees
<1>3. FcRefresh(u) = renderActiveFilters(u) \/ FcRefresh(u) = [u EXCEPT !.refresh = "pending"]
  BY DEF FcRefresh
<1> QED BY <1>1, <1>2, <1>3

\* A plain value, a state of a drop-down list and keys that go enter both stores.
LEMMA FcUpdates ==
  ASSUME NEW u, FcSame(u)
  PROVE  /\ \A k \in {"value", "from"}, v \in 0..1 : FcUiAgrees(updateFilterAndRefresh(u, k, v))
         /\ \A d \in FcDrops : FcUiAgrees(FcUpdateDropdown(u, d))
         /\ FcUiAgrees(u) => \A keys : FcUiAgrees(clearFilterKeysAndRefresh(u, keys))
<1>1. u \in FcUis /\ u.filters = u.params /\ (u.filters.in = 0 \/ u.filters.ex = 0) BY DEF FcSame
<1>2. u.filters \in [FcKeys -> 0..1] /\ u.params \in [FcKeys -> 0..1] BY <1>1 DEF FcUis
<1>3. ASSUME NEW f \in [FcKeys -> 0..1], f.in = 0 \/ f.ex = 0
      PROVE  FcSame([u EXCEPT !.filters = f, !.params = f]) BY <1>1, <1>3 DEF FcSame, FcUis
<1>4. ASSUME NEW k \in {"value", "from"}, NEW v \in 0..1 PROVE FcUiAgrees(updateFilterAndRefresh(u, k, v))
 <2> DEFINE f == [u.filters EXCEPT ![k] = v]
 <2>1. f \in [FcKeys -> 0..1] /\ (f.in = 0 \/ f.ex = 0) BY <1>1, <1>2, <1>4 DEF FcKeys
 <2>2. [u EXCEPT !.filters[k] = v, !.params[k] = v] = [u EXCEPT !.filters = f, !.params = f]
   BY <1>1, <1>2 DEF FcUis
 <2> HIDE DEF f
 <2>3. FcSame([u EXCEPT !.filters = f, !.params = f]) BY <1>3, <2>1
 <2> QED BY <2>2, <2>3, FcPending DEF updateFilterAndRefresh
<1>5. ASSUME NEW d \in FcDrops PROVE FcUiAgrees(FcUpdateDropdown(u, d))
 <2> DEFINE i == FcDropFilters(d)
            f == [u.filters EXCEPT !.in = i.in, !.ex = i.ex]
 <2>1. i.in \in 0..1 /\ i.ex \in 0..1 /\ (i.in = 0 \/ i.ex = 0) BY <1>5 DEF FcDropFilters, FcDrops
 <2>2. FcUpdateDropdown(u, d) = FcRefresh([u EXCEPT !.filters.in = i.in, !.filters.ex = i.ex,
                                                    !.params.in = i.in, !.params.ex = i.ex])
   BY DEF FcUpdateDropdown
 <2> HIDE DEF i
 <2>3. f \in [FcKeys -> 0..1] /\ f.in = i.in /\ f.ex = i.ex BY <1>2, <2>1 DEF FcKeys
 <2>4. [u EXCEPT !.filters.in = i.in, !.filters.ex = i.ex, !.params.in = i.in, !.params.ex = i.ex]
         = [u EXCEPT !.filters = f, !.params = f] BY <1>1, <1>2 DEF FcUis
 <2> HIDE DEF f
 <2>5. FcSame([u EXCEPT !.filters = f, !.params = f]) BY <1>3, <2>1, <2>3
 <2> QED BY <2>2, <2>4, <2>5, FcPending
<1>6. ASSUME FcUiAgrees(u), NEW keys PROVE FcUiAgrees(clearFilterKeysAndRefresh(u, keys))
 <2> DEFINE f == [k \in FcKeys |-> IF k \in keys THEN 0 ELSE u.filters[k]]
 <2>1. f \in [FcKeys -> 0..1] /\ (f.in = 0 \/ f.ex = 0) BY <1>1, <1>2 DEF FcKeys
 <2>2. \/ clearFilterKeysAndRefresh(u, keys) = u
       \/ clearFilterKeysAndRefresh(u, keys) = FcRefresh([u EXCEPT !.filters = f, !.params = f])
   BY <1>1 DEF clearFilterKeysAndRefresh, FcUis
 <2> HIDE DEF f
 <2>3. FcSame([u EXCEPT !.filters = f, !.params = f]) BY <1>3, <2>1
 <2> QED BY <1>6, <2>2, <2>3, FcPending
<1> QED BY <1>4, <1>5, <1>6

\* The search boxes, told of a text, show it.
LEMMA FcTold ==
  ASSUME NEW s, FcBoxesAgree(s), NEW t \in FcTerms
  PROVE  /\ FcBoxesAgree(FcSetText(s, t))
         /\ FcBoxesAgree([FcSetText(s, t) EXCEPT !.located = FALSE, !.check = FALSE])
         /\ \A ok \in BOOLEAN : /\ FcBoxesAgree(ensureGpsIfNeeded(s, ok))
                                /\ FcBoxesAgree([ensureGpsIfNeeded(s, ok) EXCEPT !.asking = FALSE])
<1>1. s \in FcSearches /\ (\A b \in FcBoxes : s.box[b] = s.text) /\ s.check = s.located BY DEF FcBoxesAgree
<1> DEFINE box == [b \in FcBoxes |-> t]
           e == [s EXCEPT !.text = t, !.box = box]
           f == [e EXCEPT !.located = FALSE, !.check = FALSE]
<1>2. box \in [FcBoxes -> FcTerms] /\ (\A b \in FcBoxes : box[b] = t) /\ e = FcSetText(s, t) BY DEF FcSetText
<1> HIDE DEF box
<1>3. e \in FcSearches /\ e.text = t /\ e.box = box /\ e.check = e.located BY <1>1, <1>2 DEF FcSearches
<1> HIDE DEF e
<1>4. f \in FcSearches /\ f.text = t /\ f.box = box /\ f.check = f.located BY <1>3 DEF FcSearches
<1> HIDE DEF f
<1>5. FcBoxesAgree(e) /\ FcBoxesAgree(f) BY <1>2, <1>3, <1>4 DEF FcBoxesAgree
<1>6. ASSUME NEW ok \in BOOLEAN
      PROVE  FcBoxesAgree(ensureGpsIfNeeded(s, ok)) /\ FcBoxesAgree([ensureGpsIfNeeded(s, ok) EXCEPT !.asking = FALSE])
 <2> DEFINE g == ensureGpsIfNeeded(s, ok)
            h == [g EXCEPT !.asking = FALSE]
 <2>1. g \in FcSearches /\ g.text = s.text /\ g.box = s.box /\ g.check = g.located
   BY <1>1 DEF ensureGpsIfNeeded, FcSearches
 <2> HIDE DEF g
 <2>2. h \in FcSearches /\ h.text = s.text /\ h.box = s.box /\ h.check = h.located BY <2>1 DEF FcSearches
 <2> HIDE DEF h
 <2>3. FcBoxesAgree(g) /\ FcBoxesAgree(h) BY <1>1, <2>1, <2>2 DEF FcBoxesAgree
 <2> QED BY <2>3 DEF g, h
<1> QED BY <1>2, <1>5, <1>6 DEF f

\* What neither the filters nor the text, the tags and the refresh are part of.
LEMMA FcBesides ==
  ASSUME NEW u, FcUiAgrees(u)
  PROVE  /\ \A v \in 0..1 : /\ FcUiAgrees([u EXCEPT !.query = v])
                            /\ \A k \in {"value", "from"} :
                                  /\ FcUiAgrees([u EXCEPT !.value = v, !.timers = @ \cup {k}])
                                  /\ FcUiAgrees([u EXCEPT !.from = v, !.timers = @ \cup {k}])
         /\ \A k : FcUiAgrees([u EXCEPT !.timers = @ \ {k}])
         /\ FcUiAgrees([u EXCEPT !.last = u.query])
         /\ \A mode \in FcModes : FcUiAgrees([u EXCEPT !.mode = mode])
         /\ \A d \in FcDrops : FcUiAgrees([u EXCEPT !.drop = d])
         /\ \A o \in {"lazy", "loading", "loaded", "failed"} :
               FcUiAgrees([u EXCEPT !.options = o]) /\ FcUiAgrees([u EXCEPT !.options = o, !.drop = u.saved])
<1>1. ASSUME NEW e \in FcUis, e.filters = u.filters, e.params = u.params, e.term = u.term, e.tags = u.tags,
             e.refresh = u.refresh
      PROVE  FcUiAgrees(e) BY <1>1 DEF FcUiAgrees, FcSame, FcTags
<1>2. u \in FcUis /\ u.query \in 0..1 /\ u.saved \in FcDrops /\ u.timers \in SUBSET {"value", "from"}
  BY DEF FcUiAgrees, FcSame, FcUis
<1>3. ASSUME NEW v \in 0..1 PROVE FcUiAgrees([u EXCEPT !.query = v])
 <2> DEFINE e == [u EXCEPT !.query = v]
 <2>1. e \in FcUis /\ e.filters = u.filters /\ e.params = u.params /\ e.term = u.term /\ e.tags = u.tags /\ e.refresh = u.refresh
   BY <1>2, <1>3 DEF FcUis
 <2> HIDE DEF e
 <2>2. FcUiAgrees(e) BY <1>1, <2>1
 <2> QED BY <2>2 DEF e
<1>4. ASSUME NEW v \in 0..1, NEW k \in {"value", "from"}
      PROVE  FcUiAgrees([u EXCEPT !.value = v, !.timers = @ \cup {k}]) /\ FcUiAgrees([u EXCEPT !.from = v, !.timers = @ \cup {k}])
 <2> DEFINE timers == u.timers \cup {k}
            d == [u EXCEPT !.value = v, !.timers = @ \cup {k}]
            e == [u EXCEPT !.from = v, !.timers = @ \cup {k}]
 <2>1. timers \in SUBSET {"value", "from"} /\ d = [u EXCEPT !.value = v, !.timers = timers]
       /\ e = [u EXCEPT !.from = v, !.timers = timers] BY <1>2, <1>4
 <2> HIDE DEF timers, d, e
 <2>2. d \in FcUis /\ d.filters = u.filters /\ d.params = u.params /\ d.term = u.term /\ d.tags = u.tags /\ d.refresh = u.refresh
   BY <1>2, <2>1 DEF FcUis
 <2>3. e \in FcUis /\ e.filters = u.filters /\ e.params = u.params /\ e.term = u.term /\ e.tags = u.tags /\ e.refresh = u.refresh
   BY <1>2, <2>1 DEF FcUis
 <2>4. FcUiAgrees(d) /\ FcUiAgrees(e) BY <1>1, <2>2, <2>3
 <2> QED BY <2>4 DEF d, e
<1>5. ASSUME NEW k PROVE FcUiAgrees([u EXCEPT !.timers = @ \ {k}])
 <2> DEFINE timers == u.timers \ {k}
            e == [u EXCEPT !.timers = @ \ {k}]
 <2>1. timers \in SUBSET {"value", "from"} /\ e = [u EXCEPT !.timers = timers] BY <1>2
 <2> HIDE DEF timers, e
 <2>2. e \in FcUis /\ e.filters = u.filters /\ e.params = u.params /\ e.term = u.term /\ e.tags = u.tags /\ e.refresh = u.refresh
   BY <1>2, <2>1 DEF FcUis
 <2>3. FcUiAgrees(e) BY <1>1, <2>2
 <2> QED BY <2>3 DEF e
<1>6. FcUiAgrees([u EXCEPT !.last = u.query])
 <2> DEFINE e == [u EXCEPT !.last = u.query]
 <2>1. e \in FcUis /\ e.filters = u.filters /\ e.params = u.params /\ e.term = u.term /\ e.tags = u.tags /\ e.refresh = u.refresh
   BY <1>2 DEF FcUis
 <2> HIDE DEF e
 <2>2. FcUiAgrees(e) BY <1>1, <2>1
 <2> QED BY <2>2 DEF e
<1>7. ASSUME NEW mode \in FcModes PROVE FcUiAgrees([u EXCEPT !.mode = mode])
 <2> DEFINE e == [u EXCEPT !.mode = mode]
 <2>1. e \in FcUis /\ e.filters = u.filters /\ e.params = u.params /\ e.term = u.term /\ e.tags = u.tags /\ e.refresh = u.refresh
   BY <1>2, <1>7 DEF FcUis
 <2> HIDE DEF e
 <2>2. FcUiAgrees(e) BY <1>1, <2>1
 <2> QED BY <2>2 DEF e
<1>8. ASSUME NEW d \in FcDrops PROVE FcUiAgrees([u EXCEPT !.drop = d])
 <2> DEFINE e == [u EXCEPT !.drop = d]
 <2>1. e \in FcUis /\ e.filters = u.filters /\ e.params = u.params /\ e.term = u.term /\ e.tags = u.tags /\ e.refresh = u.refresh
   BY <1>2, <1>8 DEF FcUis
 <2> HIDE DEF e
 <2>2. FcUiAgrees(e) BY <1>1, <2>1
 <2> QED BY <2>2 DEF e
<1>9. ASSUME NEW o \in {"lazy", "loading", "loaded", "failed"}
      PROVE  FcUiAgrees([u EXCEPT !.options = o]) /\ FcUiAgrees([u EXCEPT !.options = o, !.drop = u.saved])
 <2> DEFINE d == [u EXCEPT !.options = o]
            e == [u EXCEPT !.options = o, !.drop = u.saved]
 <2>1. d \in FcUis /\ d.filters = u.filters /\ d.params = u.params /\ d.term = u.term /\ d.tags = u.tags /\ d.refresh = u.refresh
   BY <1>2, <1>9 DEF FcUis
 <2>2. e \in FcUis /\ e.filters = u.filters /\ e.params = u.params /\ e.term = u.term /\ e.tags = u.tags /\ e.refresh = u.refresh
   BY <1>2, <1>9 DEF FcUis
 <2> HIDE DEF d, e
 <2>3. FcUiAgrees(d) /\ FcUiAgrees(e) BY <1>1, <2>1, <2>2
 <2> QED BY <2>3 DEF d, e
<1> QED BY <1>3, <1>4, <1>5, <1>6, <1>7, <1>8, <1>9

LEMMA FcStarts == FcInit => FcInv
<1> SUFFICES ASSUME FcInit PROVE FcInv OBVIOUS
<1>1. PICK saved \in FcDrops, value \in 0..1, mode \in FcModes :
         LET f == [k \in FcKeys |-> CASE k = "value" -> value
                                      [] k = "from" -> 0
                                      [] OTHER -> FcDropFilters(saved)[k]]
         IN  fcUi = [filters |-> f, params |-> f, term |-> 0,
                     value |-> value, from |-> 0, query |-> value, last |-> value,
                     timers |-> {}, mode |-> mode, drop |-> saved, saved |-> saved,
                     options |-> IF saved = "none" THEN "lazy" ELSE "loading",
                     cached |-> FALSE, tags |-> {k \in FcKeys : f[k] = 1}, refresh |-> "none"] BY DEF FcInit
<1> DEFINE f == [k \in FcKeys |-> CASE k = "value" -> value
                                    [] k = "from" -> 0
                                    [] OTHER -> FcDropFilters(saved)[k]]
           options == IF saved = "none" THEN "lazy" ELSE "loading"
           tags == {k \in FcKeys : f[k] = 1}
<1>2. f \in [FcKeys -> 0..1] /\ (f.in = 0 \/ f.ex = 0)
 <2>1. /\ FcDropFilters(saved).in \in 0..1 /\ FcDropFilters(saved).ex \in 0..1
       /\ FcDropFilters(saved).in = 0 \/ FcDropFilters(saved).ex = 0 BY DEF FcDropFilters, FcDrops
 <2>2. \A k \in FcKeys : f[k] = IF k = "value" THEN value ELSE IF k = "from" THEN 0 ELSE FcDropFilters(saved)[k]
   OBVIOUS
 <2> HIDE DEF f
 <2>3. f["value"] = value /\ f["from"] = 0 /\ f["in"] = FcDropFilters(saved).in /\ f["ex"] = FcDropFilters(saved).ex
   BY <2>2 DEF FcKeys
 <2>4. \A k \in FcKeys : f[k] \in 0..1 BY <2>1, <2>3 DEF FcKeys
 <2>5. f = [k \in FcKeys |-> f[k]] BY DEF f
 <2> QED BY <2>1, <2>3, <2>4, <2>5
<1>3. /\ fcUi = [filters |-> f, params |-> f, term |-> 0, value |-> value, from |-> 0, query |-> value, last |-> value,
                 timers |-> {}, mode |-> mode, drop |-> saved, saved |-> saved, options |-> options,
                 cached |-> FALSE, tags |-> tags, refresh |-> "none"]
      /\ tags \in SUBSET (FcKeys \cup {"search"}) /\ options \in {"lazy", "loading", "loaded", "failed"}
  BY <1>1
<1> HIDE DEF f, options
<1>4. fcUi \in FcUis BY <1>2, <1>3 DEF FcUis, FcTerms
<1>5. FcTags(fcUi) = tags BY <1>3 DEF FcTags
<1>6. FcUiAgrees(fcUi) BY <1>2, <1>3, <1>4, <1>5 DEF FcUiAgrees, FcSame
<1>7. /\ fcSearch = [text |-> 0, box |-> [b \in FcBoxes |-> 0], located |-> FALSE,
                     check |-> FALSE, gps |-> FALSE, asking |-> FALSE]
      /\ fcCommit = [c \in FcCommits |-> [pc |-> "idle", query |-> 0]] BY DEF FcInit
<1>8. FcBoxesAgree(fcSearch) /\ fcCommit \in [FcCommits -> [pc : {"idle", "gps", "done"}, query : FcTerms]]
  BY <1>7 DEF FcBoxesAgree, FcSearches, FcTerms
<1> QED BY <1>6, <1>8 DEF FcInv

\* Steps that leave the search boxes alone.
LEMMA FcUiSteps ==
  ASSUME FcInv,
         \/ FcTypeInPane \/ commitQueryFilter \/ activateMode \/ FcTouchDropdown \/ toggleFilterCheckbox
         \/ FcTimer \/ ensureForeignFilterOptions \/ FcOptionsFail \/ FcArticle \/ FcRefreshEnds \/ FcRefreshFails
  PROVE  FcInv'
<1>1. FcUiAgrees(fcUi) /\ FcSame(fcUi) /\ fcUi \in FcUis BY DEF FcInv, FcUiAgrees, FcSame
<1>2. ASSUME NEW u, FcUi(u), FcUiAgrees(u) PROVE FcInv' BY <1>2 DEF FcInv, FcUi
<1>3. CASE FcTypeInPane
 <2> DEFINE field == IF fcUi.mode = "range" THEN "from" ELSE fcUi.mode
 <2>1. FcType(field) /\ field \in {"query", "value", "from"} BY <1>1, <1>3 DEF FcTypeInPane, FcUis, FcModes
 <2> HIDE DEF field
 <2>2. PICK v \in 0..1 : CASE field = "query" -> FcUi([fcUi EXCEPT !.query = v])
                           [] field = "value" -> FcUi([fcUi EXCEPT !.value = v, !.timers = @ \cup {"value"}])
                           [] field = "from"  -> FcUi([fcUi EXCEPT !.from = v, !.timers = @ \cup {"from"}])
   BY <2>1 DEF FcType
 <2>3. \/ FcUi([fcUi EXCEPT !.query = v]) \/ FcUi([fcUi EXCEPT !.value = v, !.timers = @ \cup {"value"}])
       \/ FcUi([fcUi EXCEPT !.from = v, !.timers = @ \cup {"from"}]) BY <2>1, <2>2
 <2>4. /\ FcUiAgrees([fcUi EXCEPT !.query = v]) /\ FcUiAgrees([fcUi EXCEPT !.value = v, !.timers = @ \cup {"value"}])
       /\ FcUiAgrees([fcUi EXCEPT !.from = v, !.timers = @ \cup {"from"}]) BY <1>1, FcBesides
 <2> QED BY <1>2, <2>3, <2>4
<1>4. CASE commitQueryFilter
 <2>1. FcSame([fcUi EXCEPT !.last = fcUi.query]) /\ fcUi.query \in 0..1
   BY <1>1, FcBesides DEF FcUiAgrees, FcUis
 <2> QED BY <1>2, <1>4, <2>1, FcUpdates DEF commitQueryFilter
<1>5. CASE activateMode
 <2>1. PICK mode \in FcModes : FcUi(clearFilterKeysAndRefresh([fcUi EXCEPT !.mode = mode],
                                      IF mode = "range" THEN {"value"} ELSE {"from"}))
   BY <1>5 DEF activateMode
 <2>2. FcUiAgrees([fcUi EXCEPT !.mode = mode]) /\ FcSame([fcUi EXCEPT !.mode = mode])
   BY <1>1, FcBesides DEF FcUiAgrees
 <2> QED BY <1>2, <2>1, <2>2, FcUpdates
<1>6. CASE FcTouchDropdown \/ ensureForeignFilterOptions \/ FcOptionsFail
  BY <1>1, <1>2, <1>6, FcBesides DEF FcTouchDropdown, ensureForeignFilterOptions, FcOptionsFail
<1>7. CASE toggleFilterCheckbox
 <2>1. PICK d \in FcDrops : FcUi(FcUpdateDropdown([fcUi EXCEPT !.drop = d], d))
   BY <1>7 DEF toggleFilterCheckbox
 <2>2. FcSame([fcUi EXCEPT !.drop = d]) BY <1>1, FcBesides DEF FcUiAgrees
 <2> QED BY <1>2, <2>1, <2>2, FcUpdates
<1>8. CASE FcTimer
 <2>1. PICK k \in fcUi.timers : FcUi(updateFilterAndRefresh([fcUi EXCEPT !.timers = @ \ {k}], k,
                                     IF k = "value" THEN fcUi.value ELSE fcUi.from)) BY <1>8 DEF FcTimer
 <2>2. FcSame([fcUi EXCEPT !.timers = @ \ {k}]) BY <1>1, FcBesides DEF FcUiAgrees
 <2>3. k \in {"value", "from"} /\ (IF k = "value" THEN fcUi.value ELSE fcUi.from) \in 0..1 BY <1>1 DEF FcUis
 <2> QED BY <1>2, <2>1, <2>2, <2>3, FcUpdates
<1>9. CASE FcArticle BY <1>1, <1>2, <1>9, FcRendered DEF FcArticle
<1>10. CASE FcRefreshEnds
 <2>1. PICK last \in BOOLEAN : FcUi([renderActiveFilters(fcUi) EXCEPT !.refresh = IF last THEN "none" ELSE @])
   BY <1>10 DEF FcRefreshEnds
 <2> DEFINE d == renderActiveFilters(fcUi)
            r == IF last THEN "none" ELSE d.refresh
            e == [d EXCEPT !.refresh = r]
 <2>2. FcUiAgrees(d) /\ d \in FcUis /\ d.tags = FcTags(d)
  <3>1. FcUiAgrees(d) /\ d \in FcUis BY <1>1, FcRendered DEF FcUiAgrees, FcSame
  <3>2. d.tags = FcTags(fcUi) /\ d.filters = fcUi.filters /\ d.term = fcUi.term
    BY <1>1 DEF renderActiveFilters, FcUis
  <3> HIDE DEF d
  <3> QED BY <3>1, <3>2 DEF FcTags
 <2>3. FcUi(e) BY <2>1
 <2> HIDE DEF d
 <2>4. e \in FcUis /\ e.filters = d.filters /\ e.params = d.params /\ e.term = d.term /\ e.tags = d.tags
   BY <2>2 DEF FcUis
 <2> HIDE DEF e
 <2>5. FcUiAgrees(e) BY <2>2, <2>4 DEF FcUiAgrees, FcSame, FcTags
 <2> QED BY <1>2, <2>3, <2>5
<1>11. CASE FcRefreshFails BY <1>1, <1>2, <1>11, FcPending DEF FcRefreshFails
<1> QED BY <1>3, <1>4, <1>5, <1>6, <1>7, <1>8, <1>9, <1>10, <1>11

\* A tag goes, with its filter or with the search.
LEMMA FcTagSteps ==
  ASSUME FcInv, removeFilter \/ removeSearch
  PROVE  FcInv'
<1>1. FcUiAgrees(fcUi) /\ FcSame(fcUi) /\ fcUi \in FcUis BY DEF FcInv, FcUiAgrees, FcSame
<1>2. CASE removeFilter
 <2>1. PICK k \in fcUi.tags \ {"search"} :
          LET u == [fcUi EXCEPT !.filters[k] = 0, !.params[k] = 0,
                                !.drop = IF k \in {"in", "ex"} THEN "none" ELSE @]
          IN  FcUi(IF u.term # 0 /\ u.cached THEN renderActiveFilters(u)
                   ELSE [renderActiveFilters(u) EXCEPT !.refresh = "pending"]) BY <1>2 DEF removeFilter
 <2> DEFINE f == [fcUi.filters EXCEPT ![k] = 0]
            drop == IF k \in {"in", "ex"} THEN "none" ELSE fcUi.drop
            u == [fcUi EXCEPT !.filters[k] = 0, !.params[k] = 0, !.drop = IF k \in {"in", "ex"} THEN "none" ELSE @]
 <2>2. k \in FcKeys /\ fcUi.filters \in [FcKeys -> 0..1] /\ fcUi.params = fcUi.filters /\ (fcUi.filters.in = 0 \/ fcUi.filters.ex = 0)
   BY <1>1 DEF FcUis, FcSame
 <2>3. f \in [FcKeys -> 0..1] /\ (f.in = 0 \/ f.ex = 0) /\ drop \in FcDrops
   BY <1>1, <2>2 DEF FcKeys, FcUis, FcDrops
 <2>4. u = [fcUi EXCEPT !.filters = f, !.params = f, !.drop = drop] BY <1>1, <2>2 DEF FcUis
 <2>5. FcUi(renderActiveFilters(u)) \/ FcUi([renderActiveFilters(u) EXCEPT !.refresh = "pending"]) BY <2>1
 <2> HIDE DEF f, drop, u
 <2>6. u \in FcUis /\ u.filters = f /\ u.params = f BY <1>1, <2>3, <2>4 DEF FcUis
 <2>7. FcSame(u) BY <2>3, <2>6 DEF FcSame
 <2>8. FcUiAgrees(renderActiveFilters(u)) /\ FcUiAgrees([renderActiveFilters(u) EXCEPT !.refresh = "pending"])
   BY <2>7, FcRendered, FcPending
 <2> QED BY <2>5, <2>8 DEF FcInv, FcUi
<1>3. CASE removeSearch
 <2> DEFINE u == [fcUi EXCEPT !.term = 0, !.cached = FALSE]
 <2>1. u \in FcUis /\ u.filters = fcUi.filters /\ u.params = fcUi.params
  <3>1. 0 \in FcTerms BY DEF FcTerms
  <3> QED BY <1>1, <3>1 DEF FcUis
 <2>2. /\ fcUi' = [renderActiveFilters(u) EXCEPT !.refresh = "pending"]
       /\ fcSearch' = FcSetText(fcSearch, 0) /\ 0 \in FcTerms /\ fcCommit' = fcCommit
   BY <1>3 DEF removeSearch, FcSetText, FcTerms
 <2> HIDE DEF u
 <2>3. FcSame(u) BY <1>1, <2>1 DEF FcSame
 <2>4. FcUiAgrees(fcUi') /\ FcBoxesAgree(fcSearch') BY <2>2, <2>3, FcPending, FcTold DEF FcInv
 <2> QED BY <2>2, <2>4 DEF FcInv
<1> QED BY <1>2, <1>3

\* The search boxes, the location and the searches committed.
LEMMA FcSearchSteps ==
  ASSUME FcInv, handleInput \/ FcLocation \/ FcLocationAnswer \/ \E c \in FcCommits : commitSearch(c) \/ FcCommitAnswer(c)
  PROVE  FcInv'
<1>0. 0 \in FcTerms BY DEF FcTerms
<1>1. FcUiAgrees(fcUi) /\ FcSame(fcUi) /\ fcUi \in FcUis /\ FcBoxesAgree(fcSearch) /\ fcSearch \in FcSearches
  BY DEF FcInv, FcUiAgrees, FcSame, FcBoxesAgree
<1>2. ASSUME NEW q \in FcTerms, FcRunSearch(q) PROVE FcUiAgrees(fcUi')
 <2> DEFINE u == [fcUi EXCEPT !.term = q, !.cached = TRUE]
 <2>1. u \in FcUis /\ u.filters = fcUi.filters /\ u.params = fcUi.params BY <1>1, <1>2 DEF FcUis
 <2>2. fcUi' = renderActiveFilters(u) BY <1>2 DEF FcRunSearch
 <2> HIDE DEF u
 <2>3. FcSame(u) BY <1>1, <2>1 DEF FcSame
 <2> QED BY <2>2, <2>3, FcRendered
<1>3. CASE handleInput BY <1>1, <1>3, FcTold, ZenonT(60) DEF handleInput, FcInv
<1>4. CASE FcLocation
 <2> DEFINE asking == fcSearch.asking \/ (~fcSearch.check /\ ~fcSearch.gps)
            s == [fcSearch EXCEPT !.located = ~fcSearch.check, !.check = ~fcSearch.check, !.asking = asking]
 <2>1. /\ fcSearch' = s /\ UNCHANGED <<fcUi, fcCommit>> /\ asking \in BOOLEAN
       /\ (~fcSearch.check) \in BOOLEAN BY <1>4 DEF FcLocation
 <2> HIDE DEF asking
 <2>2. s \in FcSearches /\ s.text = fcSearch.text /\ s.box = fcSearch.box /\ s.check = s.located
   BY <1>1, <2>1 DEF FcSearches
 <2> HIDE DEF s
 <2>3. FcBoxesAgree(s) BY <1>1, <2>2 DEF FcBoxesAgree
 <2> QED BY <2>1, <2>3 DEF FcInv
<1>5. CASE FcLocationAnswer
 <2>1. PICK ok \in BOOLEAN : fcSearch' = [ensureGpsIfNeeded(fcSearch, ok) EXCEPT !.asking = FALSE]
   BY <1>5 DEF FcLocationAnswer
 <2>2. FcBoxesAgree([ensureGpsIfNeeded(fcSearch, ok) EXCEPT !.asking = FALSE]) BY <1>1, <1>0, FcTold
 <2> QED BY <1>1, <1>5, <2>1, <2>2 DEF FcLocationAnswer, FcInv
<1>6. ASSUME NEW c \in FcCommits, commitSearch(c) PROVE FcInv'
 <2>1. fcSearch.text \in FcTerms /\ fcSearch' = fcSearch BY <1>1, <1>6 DEF FcSearches, commitSearch
 <2>2. FcUiAgrees(fcUi') BY <1>1, <1>2, <1>6, <2>1 DEF commitSearch
 <2>3. fcCommit' \in [FcCommits -> [pc : {"idle", "gps", "done"}, query : FcTerms]]
   BY <1>6, <2>1 DEF commitSearch, FcInv
 <2> QED BY <2>1, <2>2, <2>3 DEF FcInv
<1>7. ASSUME NEW c \in FcCommits, FcCommitAnswer(c) PROVE FcInv'
 <2>1. fcCommit[c].query \in FcTerms BY DEF FcInv
 <2>2. FcUiAgrees(fcUi') BY <1>2, <1>7, <2>1 DEF FcCommitAnswer
 <2>3. FcBoxesAgree(fcSearch') BY <1>1, <1>7, <1>0, FcTold DEF FcCommitAnswer
 <2>4. fcCommit' \in [FcCommits -> [pc : {"idle", "gps", "done"}, query : FcTerms]]
   BY <1>7 DEF FcCommitAnswer, FcInv, FcTerms
 <2> QED BY <2>2, <2>3, <2>4 DEF FcInv
<1> QED BY <1>3, <1>4, <1>5, <1>6, <1>7

\* The history of the browser, and everything cleared: all of it at once.
LEMMA FcWholeSteps ==
  ASSUME FcInv, FcPopstate \/ clearAllFilters
  PROVE  FcInv'
<1>1. FcUiAgrees(fcUi) /\ FcSame(fcUi) /\ fcUi \in FcUis /\ FcBoxesAgree(fcSearch)
  BY DEF FcInv, FcUiAgrees, FcSame
<1>2. CASE FcPopstate
 <2>1. PICK term \in FcTerms, set \in {{}} \cup {{k} : k \in FcKeys} :
          LET p == [k \in FcKeys |-> IF k \in set THEN 1 ELSE 0]
              d == IF "in" \in set THEN "in" ELSE IF "ex" \in set THEN "ex" ELSE "none"
          IN  /\ fcUi' = [fcUi EXCEPT !.params = p, !.filters = p, !.term = term,
                                      !.value = p.value, !.from = p.from, !.query = p.value,
                                      !.drop = d, !.refresh = "pending"]
              /\ fcSearch' = FcSetText(fcSearch, term)
              /\ UNCHANGED fcCommit BY <1>2 DEF FcPopstate
 <2> DEFINE p == [k \in FcKeys |-> IF k \in set THEN 1 ELSE 0]
            d == IF "in" \in set THEN "in" ELSE IF "ex" \in set THEN "ex" ELSE "none"
            u == [fcUi EXCEPT !.params = p, !.filters = p, !.term = term, !.value = p.value, !.from = p.from,
                              !.query = p.value, !.drop = d, !.refresh = "pending"]
 <2>2. p \in [FcKeys -> 0..1] /\ p.value \in 0..1 /\ p.from \in 0..1 /\ (p.in = 0 \/ p.ex = 0)
   BY <2>1 DEF FcKeys
 <2>3. d \in FcDrops /\ fcUi' = u BY <2>1 DEF FcDrops
 <2> HIDE DEF p, d
 <2>4. u \in FcUis /\ u.filters = p /\ u.params = p /\ u.refresh = "pending" BY <1>1, <2>2, <2>3 DEF FcUis
 <2> HIDE DEF u
 <2>5. FcUiAgrees(u) BY <2>2, <2>4 DEF FcUiAgrees, FcSame
 <2> QED BY <1>1, <2>1, <2>3, <2>5, FcTold DEF FcInv
<1>3. CASE clearAllFilters
 <2> DEFINE u == [fcUi EXCEPT !.filters = FcNothing, !.params = FcNothing, !.term = 0,
                              !.value = 0, !.from = 0, !.query = 0, !.refresh = "pending"]
 <2>1. FcNothing \in [FcKeys -> 0..1] /\ FcNothing.in = 0 /\ 0 \in FcTerms /\ 0 \in 0..1
   BY DEF FcNothing, FcKeys, FcTerms
 <2>2. u \in FcUis /\ u.filters = FcNothing /\ u.params = FcNothing /\ u.refresh = "pending"
  <3> DEFINE nothing == FcNothing
  <3>1. nothing \in [FcKeys -> 0..1] /\ u = [fcUi EXCEPT !.filters = nothing, !.params = nothing, !.term = 0,
                             !.value = 0, !.from = 0, !.query = 0, !.refresh = "pending"] BY <2>1
  <3> HIDE DEF nothing, u
  <3>2. u \in FcUis /\ u.filters = nothing /\ u.params = nothing /\ u.refresh = "pending"
   <4>1. 0 \in 0..1 /\ "pending" \in {"none", "pending", "failed"} /\ 0 \in FcTerms BY <2>1
   <4> QED BY <1>1, <4>1, <3>1 DEF FcUis
  <3> QED BY <3>2 DEF nothing
 <2>3. /\ fcUi' = u /\ fcCommit' = fcCommit
       /\ fcSearch' = [FcSetText(fcSearch, 0) EXCEPT !.located = FALSE, !.check = FALSE]
   BY <1>3 DEF clearAllFilters
 <2> HIDE DEF u
 <2>4. FcUiAgrees(u) BY <2>1, <2>2 DEF FcUiAgrees, FcSame
 <2> QED BY <1>1, <2>1, <2>3, <2>4, FcTold DEF FcInv
<1> QED BY <1>2, <1>3

FcSpec == FcInit /\ [][FcNext]_fcVars

\* For any number of inputs and of searches: the filters of the table state are those of the URL, no option is wanted and
\* excluded at once, the tags say what is filtered unless a refresh failed or is under way, and the search boxes agree
\* (filter_column_builder.js, unified_table_state.js, the search boxes).
THEOREM FcFiltersAgree == FcSpec => []FcStoresAgree
<1>1. FcInv => FcStoresAgree BY DEF FcInv, FcUiAgrees, FcSame, FcBoxesAgree, FcStoresAgree
<1>2. FcInv /\ [FcNext]_fcVars => FcInv'
 <2>1. FcInv /\ UNCHANGED fcVars => FcInv' BY DEF fcVars, FcInv
 <2>2. FcInv /\ FcNext => FcInv'
   BY FcUiSteps, FcTagSteps, FcSearchSteps, FcWholeSteps DEF FcNext, FcInput, FcLater
 <2> QED BY <2>1, <2>2
<1> QED BY <1>1, <1>2, FcStarts, PTL DEF FcSpec
=============================================================================
