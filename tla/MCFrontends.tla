---------------------------- MODULE MCFrontends -----------------------------
(* The programs around the search, side by side: a behaviour is one of the UCI
   engine, of the self-play loop or of a time manager over a game; the others are
   not there. *)
EXTENDS Engine, SelfPlay, MCTimeControl

CONSTANT MCSystems
VARIABLE system

MCVars == <<system, engVars, spVars, tmVars>>
MCOpenings == <<"book1", "book2">>
MCMatches == {<<2, "mirrored">>, <<-2, "random">>}

ASSUME MCSystemsAssumption == MCSystems \subseteq {"engine", "selfplay", "time"}

EngOff == EngInit /\ opt.net = CHOOSE n \in EngGoodNets : TRUE
SpOff == SpInit /\ ~spInline /\ ~spFirstBlack /\ spMode = "mirrored"
TmOff == TmInit /\ tmCase = Base

MCInit == /\ system \in MCSystems
          /\ \/ system = "engine" /\ EngInit /\ SpOff /\ TmOff
             \/ system = "selfplay" /\ SpInit /\ EngOff /\ TmOff
             \/ system = "time" /\ TmInit /\ EngOff /\ SpOff
MCNext ==
    /\ UNCHANGED system
    /\ \/ system = "engine" /\ EngNext /\ UNCHANGED <<spVars, tmVars>>
       \/ system = "selfplay" /\ SpNext /\ UNCHANGED <<engVars, tmVars>>
       \/ system = "time" /\ TmNext /\ UNCHANGED <<engVars, spVars>>

MCSpec == MCInit /\ [][MCNext]_MCVars /\ SpFairness
=============================================================================
