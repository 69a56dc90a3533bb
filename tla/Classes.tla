------------------------------- MODULE Classes -------------------------------
(***************************************************************************)
(* Classes and how they are loaded: Runtime::addClass, findClass and       *)
(* loadClass (runtime.cpp), Parser::parse and parseClass (parser.cpp), and *)
(* the slots that Class (class.cpp) hands out.  Parsing a class looks for  *)
(* its superclass and for the classes that its functions name, and so      *)
(* loads others half way: loads is the stack of files being parsed.        *)
(*                                                                         *)
(* A world is the classes written in C++, in the order in which Runtime    *)
(* adds them, and the files of the class path: for each name the classes   *)
(* in its file.  A class pointer is the name that it is registered under.  *)
(***************************************************************************)
EXTENDS Integers, Sequences, SequencesExt, FiniteSets

CONSTANTS
    Worlds,         \* [natives: Seq([name, members]), files: names to Seq of classes]
    ObjectName,     \* system.lang.Object
    Asked           \* what the program, or the code it runs, asks findClass for

(***************************************************************************)
(* A class in a file: [name, super, members].  A member is a field, a      *)
(* static or a method, or what is none of them and cannot be parsed (bad); *)
(* refs are the classes that findClass is asked for while it is parsed,    *)
(* each imported, and then it has to be found, or not.                     *)
(***************************************************************************)
(* The classes of all files, and the names that a class may get. *)
Declared(w) == UNION {Range(w.files[f]) : f \in DOMAIN w.files}
Natives(w) == {n.name : n \in Range(w.natives)}
ClassNames(w) == Natives(w) \cup {d.name : d \in Declared(w)}

Kinds == {"field", "static", "method"}
None == "none"
Unknown == "unknown"
IsSeq(s) == s \in Seq(Range(s))

ASSUME WorldAssumption ==
    \A w \in Worlds :
      /\ IsSeq(w.natives)
      /\ \A n \in Range(w.natives) : IsSeq(n.members) /\ \A m \in Range(n.members) : m.kind \in Kinds
      /\ \A f \in DOMAIN w.files : IsSeq(w.files[f]) /\ w.files[f] # <<>>
      /\ \A d \in Declared(w) :
           /\ IsSeq(d.members)
           /\ \A m \in Range(d.members) : m.kind \in Kinds \cup {"bad"} /\ IsSeq(m.refs)
      /\ ClassNames(w) \cap {None, Unknown} = {}
      (* No script writes Object: it is there once Runtime has added it. *)
      /\ \A d \in Declared(w) : d.name # ObjectName

(* What parsing a class d asks findClass for. *)
SuperOf(d) == IF d.super = None THEN ObjectName ELSE d.super
AsksFor(d) == {SuperOf(d)} \cup UNION {{r.name : r \in Range(m.refs)} : m \in Range(d.members)}

(* The script of a class written in C++ is about that class. *)
OwnScripts(w) ==
    \A n \in Range(w.natives) :
      n.name \in DOMAIN w.files => \A d \in Range(w.files[n.name]) : d.name = n.name

(***************************************************************************)
(* No class is reached from one that it extends: a class is of a higher    *)
(* level than its superclass, and loads none of a higher level than its    *)
(* own.                                                                    *)
(***************************************************************************)
Layers(w, level) ==
    \A d \in Declared(w) :
      /\ SuperOf(d) \in ClassNames(w) => level[SuperOf(d)] < level[d.name]
      /\ \A f \in AsksFor(d) \cap DOMAIN w.files :
           \A e \in Range(w.files[f]) : level[e.name] <= level[d.name]

Layered(w) ==
    /\ \E level \in [ClassNames(w) -> 0 .. Cardinality(ClassNames(w))] : Layers(w, level)
    /\ OwnScripts(w)

(* No class of a script is declared twice. *)
DeclaredOnce(w) ==
    /\ \A d, e \in Declared(w) : d.name = e.name /\ d.name \notin Natives(w) => d = e
    /\ OwnScripts(w)

VARIABLES
    world,
    natives,        \* the classes that Runtime has still to add
    classes,        \* m_classes
    loads,          \* the activations of loadClass
    answers         \* what was asked for, and what findClass returned

vars == <<world, natives, classes, loads, answers>>

States == {"INIT", "PARSING", "COMPLETE"}

-----------------------------------------------------------------------------
(***************************************************************************)
(* Class::Class: the fields begin behind those of the superclass, as they  *)
(* are now, and a slot for the native object.  m_state is not initialised. *)
(* base is the superclass given here; setSuperClass may give another.      *)
(***************************************************************************)
MakeClass(super, base, state) ==
    [super |-> super, base |-> base, state |-> state, deleted |-> FALSE, methods |-> {},
     count |-> IF base = None THEN 1 ELSE classes[base].count + 1, fields |-> <<>>,
     staticStart |-> IF base = None THEN 0 ELSE classes[base].staticCount,
     staticCount |-> IF base = None THEN 0 ELSE classes[base].staticCount, statics |-> <<>>, values |-> 0]

(* fields and statics are the entries of a map, of which the first counts. *)
Insert(entries, name, id) ==
    IF \E j \in DOMAIN entries : entries[j].name = name THEN entries ELSE Append(entries, [name |-> name, id |-> id])

AddFieldInPlace(c, name) ==  \* a mistake: the count is not moved on
    [c EXCEPT !.fields = Insert(@, name, c.count)]

AddField(c, name) == [c EXCEPT !.fields = Insert(@, name, c.count), !.count = @ + 1]
AddStaticFieldEach(c, name) ==  \* a mistake: the start is counted, not the end
    [c EXCEPT !.statics = Insert(@, name, c.staticCount), !.staticStart = @ + 1, !.values = @ + 1]

AddStaticField(c, name) ==
    [c EXCEPT !.statics = Insert(@, name, c.staticCount), !.staticCount = @ + 1, !.values = @ + 1]
AddMethod(c, name) == [c EXCEPT !.methods = @ \cup {name}]

AddTo(c, m) ==
    CASE m.kind = "field" -> AddField(c, m.name)
      [] m.kind = "static" -> AddStaticField(c, m.name)
      [] m.kind = "method" -> AddMethod(c, m.name)

(* The constructor of a class written in C++ adds its own. *)
Native(n, super, state) ==
    LET Made[j \in 0 .. Len(n.members)] ==
          IF j = 0 THEN MakeClass(super, None, state) ELSE AddTo(Made[j - 1], n.members[j])
    IN  Made[Len(n.members)]

-----------------------------------------------------------------------------
Load(name, addToExisting) ==
    [name |-> name, addToExisting |-> addToExisting, class |-> 1, step |-> "super", member |-> 1, ref |-> 1,
     found |-> Unknown]

Init ==
    /\ world \in Worlds
    /\ natives = world.natives
    /\ classes = <<>>
    /\ loads = <<>>
    /\ answers = <<>>

Known(name) == name \in DOMAIN classes
ObjectClass == IF Known(ObjectName) THEN ObjectName ELSE None
With(name, c) == [n \in DOMAIN classes \cup {name} |-> IF n = name THEN c ELSE classes[n]]

(***************************************************************************)
(* addClass with findScript: Object, once it is there, is the superclass   *)
(* whatever the constructor was given; then the script of the same name is *)
(* loaded into the class.  A class that an earlier script has loaded under *)
(* the name stays, and the one written in C++ is not added.                *)
(***************************************************************************)
AddNative ==
    /\ natives # <<>> /\ loads = <<>>
    /\ LET n == Head(natives)
       IN  \/ Known(n.name) /\ UNCHANGED <<classes, loads>>
           \/ /\ ~Known(n.name)
              /\ \E state \in States :
                   classes' = With(n.name, Native(n, ObjectClass, state))
              /\ loads' = IF n.name \in DOMAIN world.files THEN <<Load(n.name, TRUE)>> ELSE <<>>
    /\ natives' = Tail(natives)
    /\ UNCHANGED <<world, answers>>

Idle == natives = <<>> /\ loads = <<>>

(* findClass(name, true) from main, the assembler or the executor. *)
Ask ==
    /\ Idle
    /\ \E name \in Asked \ DOMAIN answers :
         \/ /\ ~Known(name) /\ name \in DOMAIN world.files
            /\ loads' = <<Load(name, FALSE)>>
            /\ UNCHANGED answers
         \/ /\ Known(name) \/ name \notin DOMAIN world.files
            /\ answers' = [n \in DOMAIN answers \cup {name} |->
                             IF n # name THEN answers[n] ELSE IF Known(name) THEN name ELSE None]
            /\ UNCHANGED loads
    /\ UNCHANGED <<world, natives, classes>>

Top == Last(loads)
Below == Front(loads)
Loading(step) == loads # <<>> /\ Top.step = step
Class == world.files[Top.name][Top.class]
Member == Class.members[Top.member]
InMember == Loading("members") /\ Top.member <= Len(Class.members)
Become(frame) == loads' = Append(Below, frame)

(* loadClass returns; below it is the parser that asked for the class, or the program. *)
Return(answer) ==
    IF Below # <<>>
      THEN loads' = Append(Front(Below), [Last(Below) EXCEPT !.found = answer]) /\ UNCHANGED answers
      ELSE /\ loads' = <<>>
           /\ answers' = IF Top.addToExisting THEN answers
                         ELSE [n \in DOMAIN answers \cup {Top.name} |-> IF n = Top.name THEN answer ELSE answers[n]]

(* parse returns false. *)
Fail == Return(None)

-----------------------------------------------------------------------------
(* findClass(name, true) from the parser. *)
Find(name) ==
    /\ Top.found = Unknown
    /\ IF ~Known(name) /\ name \in DOMAIN world.files THEN loads' = Append(loads, Load(name, FALSE))
       ELSE Become([Top EXCEPT !.found = IF Known(name) THEN name ELSE None])
    /\ UNCHANGED <<world, natives, classes, answers>>

FindSuper == Loading("super") /\ Class.super # None /\ Find(Class.super)

(***************************************************************************)
(* The head of a class has been read.  One of that name that is being      *)
(* parsed ends parseClass, but not the class: what follows its brace is no *)
(* class, so parse fails.                                                  *)
(***************************************************************************)
BeginClass ==
    /\ Loading("super")
    /\ Class.super # None => Top.found # Unknown
    /\ LET name == Class.name
           super == IF Class.super = None THEN ObjectClass ELSE Top.found
           refused == Known(name) /\ (classes[name].state = "PARSING" \/ ~Top.addToExisting)
       IN  IF (Class.super # None /\ super = None) \/ refused THEN Fail /\ UNCHANGED classes
           ELSE /\ classes' = With(name, [(IF Known(name) THEN classes[name] ELSE MakeClass(super, super, "INIT"))
                                            EXCEPT !.state = "PARSING"])
                /\ Become([Top EXCEPT !.step = "members", !.member = 1, !.ref = 1, !.found = Unknown])
                /\ UNCHANGED answers
    /\ UNCHANGED <<world, natives>>

FindReference == InMember /\ Top.ref <= Len(Member.refs) /\ Find(Member.refs[Top.ref].name)

(* delete clazz leaves the class in m_classes. *)
Deleted == [classes EXCEPT ![Class.name].deleted = TRUE]

ReferredAgain ==  \* a mistake: a class that is not found is looked for again
    /\ InMember
    /\ Top.ref <= Len(Member.refs)
    /\ Top.found # Unknown
    /\ Become([Top EXCEPT !.ref = IF Top.found = None THEN @ ELSE @ + 1, !.found = Unknown])
    /\ UNCHANGED <<world, natives, classes, answers>>

ReferredPartly ==  \* a mistake: every class that is named has to be complete
    /\ InMember
    /\ Top.ref <= Len(Member.refs)
    /\ Top.found # Unknown
    /\ IF Top.found = None \/ classes[Top.found].state = "PARSING"
         THEN Fail /\ classes' = Deleted
         ELSE Become([Top EXCEPT !.ref = @ + 1, !.found = Unknown]) /\ UNCHANGED <<classes, answers>>
    /\ UNCHANGED <<world, natives>>

Referred ==
    /\ InMember
    /\ Top.ref <= Len(Member.refs)
    /\ Top.found # Unknown
    /\ IF Top.found = None /\ Member.refs[Top.ref].imported
         THEN Fail /\ classes' = Deleted
         ELSE Become([Top EXCEPT !.ref = @ + 1, !.found = Unknown]) /\ UNCHANGED <<classes, answers>>
    /\ UNCHANGED <<world, natives>>

AddMember ==
    /\ InMember
    /\ Top.ref > Len(Member.refs)
    /\ IF Member.kind = "bad" THEN Fail /\ classes' = Deleted
       ELSE /\ Become([Top EXCEPT !.member = @ + 1, !.ref = 1])
            /\ classes' = [classes EXCEPT ![Class.name] = AddTo(@, Member)]
            /\ UNCHANGED answers
    /\ UNCHANGED <<world, natives>>

EndClassNoState ==  \* a mistake: the class is left as it was
    /\ Loading("members")
    /\ Top.member > Len(Class.members)
    /\ IF Top.class < Len(world.files[Top.name])
         THEN Become([Top EXCEPT !.class = @ + 1, !.step = "super", !.found = Unknown]) /\ UNCHANGED answers
         ELSE Return(IF Known(Top.name) THEN Top.name ELSE None)
    /\ UNCHANGED <<world, natives, classes>>

(* The brace of the class; behind the last one loadClass looks for what it was to load. *)
EndClass ==
    /\ Loading("members")
    /\ Top.member > Len(Class.members)
    /\ classes' = [classes EXCEPT ![Class.name].state = "COMPLETE"]
    /\ IF Top.class < Len(world.files[Top.name])
         THEN Become([Top EXCEPT !.class = @ + 1, !.step = "super", !.found = Unknown]) /\ UNCHANGED answers
         ELSE Return(IF Known(Top.name) THEN Top.name ELSE None)
    /\ UNCHANGED <<world, natives>>

Step == AddNative \/ Ask \/ FindSuper \/ BeginClass \/ FindReference \/ Referred \/ AddMember \/ EndClass
Done == Idle /\ Asked \subseteq DOMAIN answers /\ UNCHANGED vars
Next == Step \/ Done
Spec == Init /\ [][Next]_vars /\ WF_vars(Step)

-----------------------------------------------------------------------------
TypeOK ==
    /\ \A n \in DOMAIN classes :
         LET c == classes[n]
         IN  /\ {c.super, c.base} \subseteq DOMAIN classes \cup {None}
             /\ c.state \in States
             /\ c.count \in Nat /\ c.staticStart \in 0 .. c.staticCount
    /\ \A k \in DOMAIN loads : loads[k].name \in DOMAIN world.files
    /\ \A n \in DOMAIN answers : answers[n] \in {n, None}

(* The class n and those whose fields its own are laid out behind. *)
Bases(n) ==
    {b \in DOMAIN classes :
       \A S \in SUBSET DOMAIN classes :
         n \in S /\ (\A m \in S : classes[m].base \in S \cup {None}) => b \in S}

Intact(n) == \A b \in Bases(n) : ~classes[b].deleted

(***************************************************************************)
(* In an object every field has a slot of its own, inside the object:      *)
(* whatever order the classes are loaded in, and wherever one load is      *)
(* interrupted by another, the fields of a class are not laid over those   *)
(* of the classes it was made from.  This is for Layered worlds: a class   *)
(* that is loaded from within the one it extends does share slots with it. *)
(***************************************************************************)
FieldsApart ==
    \A n \in DOMAIN classes :
      Intact(n) =>
        LET slots == UNION {{<<b, e.name, e.id>> : e \in Range(classes[b].fields)} : b \in Bases(n)}
        IN  /\ \A s \in slots : s[3] \in 1 .. classes[n].count - 1
            /\ \A s, t \in slots : s[3] = t[3] => s = t

NativeNames == Natives(world)

(* What n's file, its superclasses and what they refer to need, n included. *)
Needs(n) ==
    LET Direct(m) == UNION {{d.super} \cup UNION {{r.name : r \in Range(mem.refs)} : mem \in Range(d.members)}
                            : d \in {c \in Declared(world) : c.name = m}}
        Reached[k \in Nat] == IF k = 0 THEN {n} ELSE Reached[k - 1] \cup UNION {Direct(m) : m \in Reached[k - 1]}
    IN  Reached[Cardinality(DOMAIN world.files)] \ {None}

Sound(n) ==
    \A m \in Needs(n) :
      \/ m \in NativeNames
      \/ m \in DOMAIN world.files /\ \A d \in Range(world.files[m]) : \A mem \in Range(d.members) : mem.kind # "bad"

(***************************************************************************)
(* Between two requests no class of a script is half there: it is complete *)
(* and has every member that its file declares, or a failure deleted it.   *)
(***************************************************************************)
ScriptsWhole ==
    Idle => \A d \in Declared(world) :
      d.name \in DOMAIN classes \ NativeNames /\ ~classes[d.name].deleted =>
        LET c == classes[d.name]
            Members(kind) == {m.name : m \in {mem \in Range(d.members) : mem.kind = kind}}
            Names(entries) == {e.name : e \in Range(entries)}
        IN  c.state = "COMPLETE" /\ c.methods = Members("method")
              /\ Names(c.fields) = Members("field") /\ Names(c.statics) = Members("static")

(***************************************************************************)
(* A class that has all it needs is found, however the loads of the        *)
(* classes that refer to each other are nested, and is never a deleted one.*)
(***************************************************************************)
FoundWhenSound == \A n \in DOMAIN answers : Sound(n) => answers[n] = n /\ ~classes[n].deleted

(* Every request is answered. *)
LoadsEnd == \A n \in Asked : <>(n \in DOMAIN answers)

(***************************************************************************)
(* The collector's loop over the static fields of a class reads its own    *)
(* m_staticValues only (getStaticField subtracts the start).               *)
(***************************************************************************)
StaticsInRange ==
    \A n \in DOMAIN classes :
      LET c == classes[n] IN \A i \in 0 .. c.staticCount - 1 : i - c.staticStart \in 0 .. c.values - 1
=============================================================================
