------------------------------- MODULE MCPages -------------------------------
(* One setting of each kind, with numbers on both sides of every bound, and two *)
(* environments.                                                                *)
EXTENDS Pages

MCKind == [SAMPLE_INTERVAL |-> "float", DOWN_WINDOW |-> "int",
           SPEND_MODE |-> "choice", VLLM_ENABLED |-> "bool"]
MCLow  == [SAMPLE_INTERVAL |-> 2, DOWN_WINDOW |-> 0, SPEND_MODE |-> 0, VLLM_ENABLED |-> 0]
MCHigh == [SAMPLE_INTERVAL |-> 2, DOWN_WINDOW |-> 0, SPEND_MODE |-> 0, VLLM_ENABLED |-> 0]
MCHalves == -2..3
MCNames == DOMAIN MCKind
MCEnvironments ==
    {[SAMPLE_INTERVAL |-> Number(2), DOWN_WINDOW |-> Number(2),
      SPEND_MODE |-> Word("full"), VLLM_ENABLED |-> Truth(TRUE)],
     [SAMPLE_INTERVAL |-> Number(3), DOWN_WINDOW |-> Number(0),
      SPEND_MODE |-> Word("lite"), VLLM_ENABLED |-> Truth(FALSE)]}
=============================================================================
