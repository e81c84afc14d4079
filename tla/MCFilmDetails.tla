--------------------------- MODULE MCFilmDetails ----------------------------
(* FilmDetails with payloads that name one field, several, and a list or label the backend *)
(* rejects. *)
EXTENDS FilmDetails, TLC

Symmetry == Permutations(Requests)

title(value, primary, original) ==
    [value |-> value, is_primary |-> primary, is_original |-> original]
payload(titles, poster, genre) ==
    [titles |-> titles, poster_image |-> poster, genre |-> genre]

MCAlphabet == <<"crime", "drama">>
MCEdits ==
    {payload(<<title("a", TRUE, FALSE), title("b", FALSE, TRUE)>>, "p", <<"drama", "crime">>),
     payload(<<title("b", TRUE, FALSE), title("a", FALSE, FALSE)>>, None, NotNamed),
     payload(<<title("a", FALSE, FALSE), title("b", FALSE, FALSE)>>, NotNamed, NotNamed),
     payload(NotNamed, "q", NotNamed),
     payload(NotNamed, NotNamed, <<"drama", "drama", "crime">>),
     payload(<<title("a", FALSE, TRUE)>>, NotNamed, <<"drama", Blank>>)}
=============================================================================
