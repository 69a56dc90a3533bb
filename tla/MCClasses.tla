------------------------------ MODULE MCClasses ------------------------------
(***************************************************************************)
(* Three classes in files of their own that extend and name each other,    *)
(* with fields before and behind the function that does.                   *)
(***************************************************************************)
EXTENDS Classes

CONSTANT Case

Plain(kind, name) == [kind |-> kind, name |-> name, refs |-> <<>>]
Object == [name |-> ObjectName, members |-> <<Plain("field", "ObjectClass")>>]
File == [name |-> "File", members |-> <<Plain("method", "init"), Plain("field", "fd"), Plain("static", "out")>>]
Test == [name |-> "Test", members |-> <<Plain("field", "x")>>]

Method(ref, imported) ==
    [kind |-> "method", name |-> "f", refs |-> IF ref = None THEN <<>> ELSE <<[name |-> ref, imported |-> imported]>>]
ClassOf(name, super, members) == [name |-> name, super |-> super, members |-> members]
Usual(name, super, ref, imported) ==
    <<ClassOf(name, super, <<Plain("field", "x"), Method(ref, imported), Plain("field", "y"), Plain("field", "z")>>)>>

Scripts == {"A", "B", "C"}
Supers ==
    {[A |-> None, B |-> None, C |-> None], [A |-> None, B |-> "A", C |-> None], [A |-> None, B |-> "A", C |-> "B"],
     [A |-> None, B |-> "A", C |-> "A"], [A |-> None, B |-> None, C |-> "Missing"]}
Refs == [Scripts -> Scripts \cup {None}]

World(supers, refs, imported) ==
    [natives |-> <<Object>>, files |-> [s \in Scripts |-> Usual(s, supers[s], refs[s], imported)]]

Others ==
    LET script == <<ClassOf("File", None, <<Plain("method", "write"), Plain("field", "mode")>>)>>
    IN  {[natives |-> <<Object, File>>,
          files |-> [File |-> script, A |-> Usual("A", "File", "B", TRUE), B |-> Usual("B", None, "A", FALSE)]],
         [natives |-> <<Object, File, Test>>,
          files |-> [File |-> <<ClassOf("File", None, <<Method("Test", TRUE)>>)>>, Test |-> Usual("Test", None, "File", TRUE),
                     A |-> Usual("A", "File", "Test", TRUE)]],
         [natives |-> <<Object>>,
          files |-> [A |-> Usual("A", None, "B", TRUE),
                     B |-> <<ClassOf("B", None, <<Plain("static", "s"), Plain("bad", "?")>>)>>,
                     C |-> Usual("C", None, "B", FALSE)]],
         [natives |-> <<Object>>,
          files |-> [A |-> Usual("A", None, None, TRUE) \o Usual("B", "A", None, TRUE), C |-> Usual("C", "B", "A", TRUE)]]}

MCWorlds ==
    CASE Case = "all" -> Others \cup {w \in {World(s, r, i) : s \in Supers, r \in Refs, i \in BOOLEAN} : Layered(w)}
      [] Case = "statics" ->
           {[natives |-> <<Object>>,
             files |-> [A |-> <<ClassOf("A", None, <<Plain("static", "s")>>)>>, B |-> <<ClassOf("B", "A", <<>>)>>]]}

ASSUME SoundWorlds == \A w \in Worlds : Layered(w) /\ DeclaredOnce(w)
=============================================================================
