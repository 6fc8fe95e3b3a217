----------------------------- MODULE MCApplyFlow -----------------------------
(* Instances of ApplyFlow for TLC.                                         *)
EXTENDS ApplyLifecycle

NoPages    == {<<>>}
OnePage    == {<<"OTP_REQUIRED">>}
ThreePages == {<<"unrecognized", "OTP_REQUIRED", "CAPTCHA_REQUIRED">>}
AllPages   == {<<>>, <<"unrecognized", "OTP_REQUIRED">>, <<"OTP_REQUIRED", "CAPTCHA_REQUIRED">>}
=============================================================================
