CONSTANTS
  Fields = {"azure_client_secret", "azure_tenant_id", "log_level"}
  Vaulted = {"azure_client_secret", "azure_tenant_id"}
  Formatted = {"azure_tenant_id", "log_level"}
  MaxAttempts = 2
  MaxEdits = 2
SPECIFICATION Spec
PROPERTY DotenvUrlSelectsVault
