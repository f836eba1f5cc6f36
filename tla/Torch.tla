------------------------------- MODULE Torch -------------------------------
(***************************************************************************)
(* TorchService of the phone (core/torch_service.dart) as a value.  The    *)
(* platform calls are asynchronous: set starts one, or leaves a request    *)
(* for the one under way, and the end of a call looks at that request.     *)
(***************************************************************************)

\* pending is the stored request, {} or a singleton; op is what the call under
\* way asks the platform for.  wanted, the last thing set was asked for, is a
\* history and constrains nothing.
Torch == [available: BOOLEAN, isOn: BOOLEAN, busy: BOOLEAN, op: BOOLEAN,
          pending: {{}, {TRUE}, {FALSE}}, wanted: BOOLEAN]

NewTorch == [available |-> FALSE, isOn |-> FALSE, busy |-> FALSE, op |-> FALSE,
             pending |-> {}, wanted |-> FALSE]

\* init has asked the platform whether there is a torch.
Available(t, yes) == [t EXCEPT !.available = yes]

\* set up to its first await: dropped, stored, or begun.
Request(t, on) ==
    IF ~t.available \/ on = t.isOn THEN t
    ELSE IF t.busy THEN [t EXCEPT !.pending = {on}]
    ELSE [t EXCEPT !.busy = TRUE, !.op = on]

SetTorch(t, on) == Request([t EXCEPT !.wanted = on], on)

\* The platform call has ended, well or with an exception, and set goes on with
\* the stored request unless it is already so.
Completed(t, ok) ==
    LET end == [t EXCEPT !.isOn = IF ok THEN t.op ELSE @,
                         !.busy = FALSE, !.pending = {}]
    IN  IF t.pending \subseteq {end.isOn} THEN end ELSE Request(end, ~end.isOn)
=============================================================================
