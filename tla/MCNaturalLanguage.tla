------------------------- MODULE MCNaturalLanguage -------------------------
(* Model values and texts for the run of NaturalLanguage. *)
EXTENDS NaturalLanguage

CONSTANTS p1, p2

Plain == [says |-> {}, wanted |-> NoProduct, general |-> FALSE, number |-> 0,
          ordinal |-> 0, phrase |-> FALSE, names |-> {}, detail |-> FALSE,
          cue |-> FALSE, hint |-> FALSE, short |-> TRUE]

MCTexts ==
    {[Plain EXCEPT !.says = {"search_products"}],
     [Plain EXCEPT !.says = {"get_product", "open_unknown"}, !.wanted = p1],  \* "apri il prodotto p1"
     [Plain EXCEPT !.says = {"get_product"}, !.wanted = p2],          \* "mostra il prodotto p2"
     [Plain EXCEPT !.ordinal = 2, !.cue = TRUE],                      \* "il secondo"
     [Plain EXCEPT !.ordinal = 2, !.detail = TRUE],                   \* "quanto costa il secondo"
     [Plain EXCEPT !.detail = TRUE],                                  \* "quanto costa la batteria"
     [Plain EXCEPT !.phrase = TRUE, !.names = {p2}, !.detail = TRUE]} \* "il prezzo del p2"

MCLists == {<<>>, <<p1>>, <<p1, p2>>, <<p2, p1>>}

MCAbilities == {{}, {"windows_apps", "alpilab_check"}}
=============================================================================
