---------------------------- MODULE MCDashboard ----------------------------
(***************************************************************************)
(* The dashboard for TLC: a behaviour is one of its generation slot, of    *)
(* its copy of the tree, of its stored sessions, of its saved chats, or of *)
(* a conversation whose turns are run again or carried elsewhere.          *)
(***************************************************************************)
EXTENDS DashboardQueue, DashboardMirror, DashboardSessions, DashboardLibrary, LoomRecipes

VARIABLE part

Desk(faults, regen, agents, toggles, eager) ==
  [faults |-> faults, regen |-> regen, agents |-> agents, toggles |-> toggles, eager |-> eager]
FiveDesks ==
  { Desk({}, TRUE, TRUE, FALSE, FALSE), Desk({"failed"}, FALSE, TRUE, FALSE, FALSE),
    Desk({"failed"}, FALSE, FALSE, TRUE, TRUE), Desk({"refused"}, TRUE, FALSE, FALSE, FALSE),
    Desk({"closed"}, FALSE, TRUE, FALSE, FALSE) }

ShortRows == {<<>>, <<"a">>, <<"b">>, <<"a", "b">>, <<"a", "a">>, <<"r">>}

\* A call that leaves all open, one that sets much, and two labels; sent with
\* and without words, from either seat, under a modifier, in a fan and raw.
Warm == [Blank EXCEPT !.steering = "up", !.seed = Seed(1, 0), !.temperature = "warm"]
Deer == [Blank EXCEPT !.assistant_role = "deer", !.user_role = "deer"]
Hi == <<"hi">>
TwoCalls == {Blank, Warm}
FourRequests ==
  { AskFor(Warm, "assistant", Hi, NoMode, FALSE, 1),
    AskFor(Deer, "assistant", <<>>, "inverted", FALSE, 2),
    AskFor(Blank, "user", <<>>, NoMode, FALSE, 1), AskFor(Blank, "assistant", Hi, NoMode, TRUE, 1) }
Pinned == [mode \in {"seed=2, temperature=0.3"} |->
             [Blank EXCEPT !.seed = Seed(2, 0), !.temperature = "cool"]]
OneMember == {[Blank EXCEPT !.steering = "down", !.thinking = "no", !.seed = Seed(3, 0)]}
Session(model, default) == [model |-> model, prompt |-> default, temperature |-> default]
ThreeSettings == {Session(1, "p"), Session(1, "q"), Session(2, "q")}

\* No page of one server differs from another.
PagesAreAlike == Permutations(Pages)

MCInit ==
  /\ part \in {"queue", "mirror", "sessions", "library", "reruns", "travels"}
  /\ QueueInit /\ MirrorInit /\ SessionsInit /\ LibraryInit /\ RecipesInit
  /\ setting = Session(1, "p")
  /\ part # "queue" => ~page.auto /\ desk = CHOOSE d \in Desks : TRUE
  /\ part # "sessions" => vault = Missing

\* Turns are run again in one conversation, or carried to others.
RerunsNext == Sample \/ Rework \/ (moves < 1 /\ Arrange)
TravelsNext ==
  \/ rolls < 2 /\ \E request \in Requests, parent \in Parents : Generate(request, parent)
  \/ Arrange \/ Travel

MCNext ==
  /\ UNCHANGED part
  /\ \/ part = "queue" /\ QueueNext /\ UNCHANGED <<mirrorVars, sessionVars, libraryVars, recipeVars>>
     \/ part = "mirror" /\ MirrorNext /\ UNCHANGED <<queueVars, sessionVars, libraryVars, recipeVars>>
     \/ part = "sessions" /\ SessionsNext /\ UNCHANGED <<queueVars, mirrorVars, libraryVars, recipeVars>>
     \/ part = "library" /\ LibraryNext /\ UNCHANGED <<queueVars, mirrorVars, sessionVars, recipeVars>>
     \/ /\ part = "reruns" /\ RerunsNext
        /\ UNCHANGED <<queueVars, mirrorVars, sessionVars, libraryVars>>
     \/ /\ part = "travels" /\ TravelsNext
        /\ UNCHANGED <<queueVars, mirrorVars, sessionVars, libraryVars>>

MCSpec == MCInit /\ [][MCNext]_<<part, queueVars, mirrorVars, sessionVars, libraryVars, recipeVars>>
=============================================================================
