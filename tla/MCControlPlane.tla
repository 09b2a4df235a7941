--------------------------- MODULE MCControlPlane ---------------------------
(* Two devices, one pairing, and the requests they repeat.                  *)
EXTENDS ControlPlane

CONSTANTS d1, d2, p1, x, y

Request == [command |-> "", caller |-> d1, about |-> d1, ifVersion |-> 0, version |-> 0,
            generation |-> 0, tkGeneration |-> 0]

MCCeremonies ==
    { [Request EXCEPT !.command = "RegisterDevice"],
      [Request EXCEPT !.command = "RegisterDevice", !.caller = d2, !.about = d2,
                      !.generation = 2, !.tkGeneration = 1],
      [Request EXCEPT !.command = "RotateIdentity", !.generation = 1],
      [Request EXCEPT !.command = "RotateIdentity", !.caller = d2, !.about = d2, !.generation = 3],
      [Request EXCEPT !.command = "RotateTunnelKey"],
      [Request EXCEPT !.command = "RevokeDevice", !.caller = d2],
      [Request EXCEPT !.command = "BeginPairing", !.about = p1],
      [Request EXCEPT !.command = "CompletePairing", !.about = p1],
      [Request EXCEPT !.command = "CompletePairing", !.caller = d2, !.about = p1],
      [Request EXCEPT !.command = "CancelPairing", !.about = p1],
      [Request EXCEPT !.command = "RevokePairing", !.about = p1],
      [Request EXCEPT !.command = "PutPolicy", !.about = x, !.version = 1],
      [Request EXCEPT !.command = "PutPolicy", !.about = y, !.ifVersion = 1, !.version = 1],
      [Request EXCEPT !.command = "PutPolicy", !.about = y, !.ifVersion = 1, !.version = 2] }
=============================================================================
