\* Further properties on the instance of MCSmtpClient.cfg.
SPECIFICATION Spec
INVARIANTS
    TypeOK
